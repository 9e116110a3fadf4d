------------------------- MODULE AddressSpaceProofs -------------------------
(***************************************************************************)
(* Address spaces for every pool, every set of images and every number of  *)
(* payloads and checkpoints: the tables stay trees that share nothing, no  *)
(* failure loses a frame but in the known ways, and a payload reaches      *)
(* neither kernel memory nor a page it may both write and execute.         *)
(***************************************************************************)
EXTENDS AddressSpace, SequenceTheorems, TLAPS

-----------------------------------------------------------------------------
(* Memory and its elementary updates.                                      *)

Mem == [tab : [Frame -> [Idx -> Pte]], data : [Frame -> 0 .. StaleData],
        taken : SUBSET Frame]

LEMMA Outside ==
    /\ NoFrame \notin Frame /\ KernelRam \notin Frame /\ Window \notin Frame
    /\ KernelRam # Window /\ NoFrame \notin Owner
BY LoadAssumption

LEMMA VpnIs ==
    ASSUME NEW page \in Page
    PROVE  /\ Vpn(page, 0) \in Idx /\ Vpn(page, 1) \in Idx
           /\ Vpn(page, 2) = IF page < KernelPage THEN 0 ELSE 1
BY DEF Vpn, Page, Idx, KernelPage

LEMMA VpnApart ==
    ASSUME NEW p \in 0 .. 3, NEW q \in 0 .. 3,
           Vpn(p, 0) = Vpn(q, 0), Vpn(p, 1) = Vpn(q, 1)
    PROVE  p = q
BY DEF Vpn

LEMMA PickIn ==
    ASSUME NEW m, Free(m) # {}
    PROVE  Pick(Free(m)) \in Frame /\ Pick(Free(m)) \notin m.taken
<1>1. Pick(Free(m)) \in Free(m)
  BY DEF Pick
<1> QED
  BY <1>1 DEF Free

LEMMA PteTypes ==
    /\ NoPte \in Pte
    /\ \A f \in Frame : NonLeaf(f) \in Pte
    /\ \A f \in Frame \cup {KernelRam, Window}, p \in SUBSET Perm :
          LeafPte(f, p) \in Pte
BY DEF NoPte, NonLeaf, LeafPte, Pte

LEMMA BlankTypes ==
    /\ Blank \in [Idx -> Pte] /\ Stale \in [Idx -> Pte]
    /\ \A i \in Idx : Blank[i] = NoPte
<1>1. {"R", "W", "U"} \in SUBSET Perm
  BY DEF Perm
<1> QED
  BY <1>1, PteTypes DEF Blank, Stale

(* alloc.                                                                  *)
LEMMA TakeIs ==
    ASSUME NEW m \in Mem, NEW f \in Frame, NEW n, n = Take(m, f)
    PROVE  /\ n \in Mem /\ n.taken = m.taken \cup {f}
           /\ \A i \in Idx : n.tab[f][i] = NoPte
           /\ \A g \in Frame : g # f => n.tab[g] = m.tab[g]
           /\ \A g \in Frame : g # f => n.data[g] = m.data[g]
<1>1. /\ m.tab \in [Frame -> [Idx -> Pte]] /\ m.data \in [Frame -> 0 .. StaleData]
      /\ m.taken \subseteq Frame
  BY DEF Mem
<1>2. n = [tab |-> [m.tab EXCEPT ![f] = Blank],
           data |-> [m.data EXCEPT ![f] = 0], taken |-> m.taken \cup {f}]
  BY DEF Take, Mem
<1>3. /\ n.tab = [m.tab EXCEPT ![f] = Blank] /\ n.taken = m.taken \cup {f}
      /\ n.data = [m.data EXCEPT ![f] = 0]
  BY <1>2
<1>4. n.tab \in [Frame -> [Idx -> Pte]] /\ n.taken \in SUBSET Frame
  BY <1>1, <1>3, BlankTypes
<1>5. n.data \in [Frame -> 0 .. StaleData]
  <2>1. 0 \in 0 .. StaleData
    BY DEF StaleData
  <2> QED BY <1>1, <1>3, <2>1
<1>6. n \in Mem
  BY <1>2, <1>3, <1>4, <1>5 DEF Mem
<1>7. \A i \in Idx : n.tab[f][i] = NoPte
  BY <1>1, <1>3, BlankTypes
<1> QED
  BY <1>1, <1>3, <1>6, <1>7

(* An entry is written.                                                    *)
SetEntry(m, t, i, pte) == [m EXCEPT !.tab[t][i] = pte]

LEMMA EntryIs ==
    ASSUME NEW m \in Mem, NEW t \in Frame, NEW i \in Idx, NEW pte \in Pte,
           NEW n, n = SetEntry(m, t, i, pte)
    PROVE  /\ n \in Mem /\ n.taken = m.taken /\ n.data = m.data
           /\ n.tab[t][i] = pte
           /\ \A g \in Frame, j \in Idx :
                 ~(g = t /\ j = i) => n.tab[g][j] = m.tab[g][j]
           /\ \A g \in Frame : g # t => n.tab[g] = m.tab[g]
<1>1. /\ m.tab \in [Frame -> [Idx -> Pte]] /\ m.data \in [Frame -> 0 .. StaleData]
      /\ m.taken \in SUBSET Frame
  BY DEF Mem
<1> DEFINE row == [m.tab[t] EXCEPT ![i] = pte]
<1>2. n = [tab |-> [m.tab EXCEPT ![t] = row], data |-> m.data,
           taken |-> m.taken]
  BY DEF Mem, SetEntry
<1>3. row \in [Idx -> Pte] /\ row[i] = pte
      /\ \A j \in Idx : j # i => row[j] = m.tab[t][j]
  BY <1>1
<1> HIDE DEF row
<1>4. /\ n.tab = [m.tab EXCEPT ![t] = row] /\ n.data = m.data
      /\ n.taken = m.taken
  BY <1>2
<1>5. n.tab \in [Frame -> [Idx -> Pte]]
  BY <1>1, <1>3, <1>4
<1>6. n \in Mem
  BY <1>1, <1>2, <1>4, <1>5 DEF Mem
<1>7. n.tab[t] = row /\ \A g \in Frame : g # t => n.tab[g] = m.tab[g]
  BY <1>1, <1>4
<1> QED
  BY <1>3, <1>4, <1>6, <1>7

(* free.                                                                   *)
LEMMA GiveIs ==
    ASSUME NEW m \in Mem, NEW S, NEW n, n = Give(m, S)
    PROVE  /\ n \in Mem /\ n.taken = m.taken \ S
           /\ \A g \in Frame : g \notin S => n.tab[g] = m.tab[g]
           /\ \A g \in Frame : g \notin S => n.data[g] = m.data[g]
<1>1. /\ m.tab \in [Frame -> [Idx -> Pte]] /\ m.data \in [Frame -> 0 .. StaleData]
      /\ m.taken \in SUBSET Frame
  BY DEF Mem
<1>2. /\ n.tab = [f \in Frame |-> IF f \in S THEN Stale ELSE m.tab[f]]
      /\ n.data = [f \in Frame |-> IF f \in S THEN StaleData ELSE m.data[f]]
      /\ n.taken = m.taken \ S
      /\ n = [tab |-> n.tab, data |-> n.data, taken |-> n.taken]
  BY DEF Give
<1>3. n.tab \in [Frame -> [Idx -> Pte]]
  BY <1>1, <1>2, BlankTypes
<1>4. n.data \in [Frame -> 0 .. StaleData]
  <2>1. StaleData \in 0 .. StaleData
    BY DEF StaleData
  <2> QED BY <1>1, <1>2, <2>1
<1>5. n \in Mem
  BY <1>1, <1>2, <1>3, <1>4 DEF Mem
<1> QED
  BY <1>2, <1>5

-----------------------------------------------------------------------------
(* Forests.  Every frame has a role: it is free, a table of one of the     *)
(* three levels, a mapped page, a register frame, lost, or in the hand of  *)
(* a caller that has just allocated it.                                    *)

Role == {"free", "root", "one", "zero", "page", "regs", "lost", "hand"}
TableRole == {"root", "one", "zero"}
ChildRole == {"one", "zero", "page"}

KernelPte == LeafPte(KernelRam, RWX \cup {"G"})

(* What a user leaf may grant.                                             *)
Fit(f, p) ==
    /\ p \subseteq RWX \cup {"U"} /\ "U" \in p /\ ~({"W", "X"} \subseteq p)
    /\ f \in Frame \cup {Window}
    /\ f = Window => p = {"R", "U"}

NonLeafTo(role, k, pte) ==
    pte = NoPte \/ \E f \in Frame : role[f] = k /\ pte = NonLeaf(f)

PageTo(role, pte) ==
    \/ pte = NoPte
    \/ \E f \in Frame \cup {Window}, p \in SUBSET Perm :
          Fit(f, p) /\ (f \in Frame => role[f] = "page") /\ pte = LeafPte(f, p)

(* What entry i of a table with role k may hold.                           *)
Good(role, k, i, pte) ==
    /\ k = "root" => IF i = 1 THEN pte = KernelPte ELSE NonLeafTo(role, "one", pte)
    /\ k = "one" => NonLeafTo(role, "zero", pte)
    /\ k = "zero" => PageTo(role, pte)

Under(k) == CASE k = "root" -> "one" [] k = "one" -> "zero" [] OTHER -> "page"

Entries(m, role) ==
    \A t \in Frame, i \in Idx :
        role[t] \in TableRole => Good(role, role[t], i, m.tab[t][i])

(* A frame below a root is named by an entry, and by one only.             *)
Named(m, role) ==
    \A f \in Frame : role[f] \in ChildRole =>
        \E t \in Frame, i \in Idx : role[t] \in TableRole /\ m.tab[t][i].to = f

Once(m, role) ==
    \A s, t \in Frame, i, j \in Idx :
        /\ role[s] \in TableRole /\ role[t] \in TableRole
        /\ m.tab[s][i].to \in Frame /\ m.tab[s][i].to = m.tab[t][j].to
        => s = t /\ i = j

Shape(m, role) ==
    /\ m \in Mem /\ role \in [Frame -> Role]
    /\ \A f \in Frame : f \in m.taken <=> role[f] # "free"
    /\ Entries(m, role) /\ Named(m, role) /\ Once(m, role)

LEMMA NoPteTo == NoPte.to = NoFrame /\ NoPte.to \notin Frame /\ ~NoPte.v
BY Outside DEF NoPte

LEMMA NonLeafIs ==
    ASSUME NEW f
    PROVE  NonLeaf(f).to = f /\ IsTable(NonLeaf(f)) /\ ~IsLeaf(NonLeaf(f)) /\ NonLeaf(f).v
BY DEF NonLeaf, IsTable, IsLeaf

LEMMA LeafIs ==
    ASSUME NEW f, NEW p
    PROVE  /\ LeafPte(f, p).to = f /\ LeafPte(f, p).v /\ LeafPte(f, p).p = p
           /\ IsLeaf(LeafPte(f, p)) <=> p \cap RWX # {}
           /\ IsTable(LeafPte(f, p)) <=> p \cap RWX = {}
BY DEF LeafPte, IsTable, IsLeaf

(* The kernel's gigapage is a leaf that no user reaches.                   *)
LEMMA KernelPteIs ==
    /\ KernelPte.to = KernelRam /\ KernelPte.to \notin Frame /\ KernelPte.v
    /\ IsLeaf(KernelPte) /\ ~IsTable(KernelPte) /\ "U" \notin KernelPte.p
<1>1. "R" \in (RWX \cup {"G"}) \cap RWX /\ "U" \notin RWX \cup {"G"}
  BY DEF RWX
<1> QED
  BY <1>1, LeafIs, Outside DEF KernelPte

LEMMA NoPteIs == ~IsLeaf(NoPte) /\ ~IsTable(NoPte)
BY DEF NoPte, IsLeaf, IsTable

(* An entry stays good when the frame it names keeps its role.             *)
LEMMA GoodStays ==
    ASSUME NEW role, NEW role2, NEW k, NEW i, NEW pte, Good(role, k, i, pte),
           pte.to \in Frame => role2[pte.to] = role[pte.to]
    PROVE  Good(role2, k, i, pte)
<1>1. ASSUME NEW c, NonLeafTo(role, c, pte)
      PROVE  NonLeafTo(role2, c, pte)
  <2>1. CASE pte = NoPte
    BY <2>1 DEF NonLeafTo
  <2>2. ASSUME NEW f \in Frame, role[f] = c, pte = NonLeaf(f)
        PROVE  NonLeafTo(role2, c, pte)
    <3>1. pte.to = f
      BY <2>2, NonLeafIs
    <3> QED BY <2>2, <3>1 DEF NonLeafTo
  <2> QED BY <1>1, <2>1, <2>2 DEF NonLeafTo
<1>2. ASSUME PageTo(role, pte)
      PROVE  PageTo(role2, pte)
  <2>1. CASE pte = NoPte
    BY <2>1 DEF PageTo
  <2>2. ASSUME NEW f \in Frame \cup {Window}, NEW p \in SUBSET Perm, Fit(f, p),
               f \in Frame => role[f] = "page", pte = LeafPte(f, p)
        PROVE  PageTo(role2, pte)
    <3>1. pte.to = f
      BY <2>2, LeafIs
    <3> QED BY <2>2, <3>1 DEF PageTo
  <2> QED BY <1>2, <2>1, <2>2 DEF PageTo
<1> QED
  BY <1>1, <1>2 DEF Good

(* A frame an entry names is one level further down.                       *)
LEMMA GoodDown ==
    ASSUME NEW role, NEW k \in TableRole, NEW i \in Idx, NEW pte,
           Good(role, k, i, pte), pte.to \in Frame
    PROVE  role[pte.to] = Under(k) /\ role[pte.to] \in ChildRole /\ pte.v
<1>1. ASSUME NEW c, NonLeafTo(role, c, pte)
      PROVE  role[pte.to] = c /\ pte.v
  <2>1. pte # NoPte
    BY NoPteTo
  <2>2. PICK f \in Frame : role[f] = c /\ pte = NonLeaf(f)
    BY <1>1, <2>1 DEF NonLeafTo
  <2> QED BY <2>2, NonLeafIs
<1>2. ASSUME PageTo(role, pte)
      PROVE  role[pte.to] = "page" /\ pte.v
  <2>1. pte # NoPte
    BY NoPteTo
  <2>2. PICK f \in Frame \cup {Window}, p \in SUBSET Perm :
            (f \in Frame => role[f] = "page") /\ pte = LeafPte(f, p)
    BY <1>2, <2>1 DEF PageTo
  <2> QED BY <2>2, LeafIs
<1>3. CASE k = "root"
  <2>1. i # 1
    BY <1>3, KernelPteIs DEF Good
  <2> QED BY <1>1, <1>3, <2>1 DEF Good, Under, ChildRole
<1>4. CASE k = "one"
  BY <1>1, <1>4 DEF Good, Under, ChildRole
<1>5. CASE k = "zero"
  BY <1>2, <1>5 DEF Good, Under, ChildRole
<1> QED
  BY <1>3, <1>4, <1>5 DEF TableRole

-----------------------------------------------------------------------------
(* Paths from a root to a page.                                            *)

One(m, t) == m.tab[t][0].to
Zero(m, t, q) == m.tab[One(m, t)][Vpn(q, 1)].to
UserPage == 0 .. KernelPage - 1

(* How the walk to a user page ends: without a second table, without a     *)
(* third, or at an entry of the third.                                     *)
EndsAtRoot(m, t, q) == m.tab[t][0] = NoPte /\ Entry(m, t, q) = NoPte

HasOne(m, role, t) ==
    /\ One(m, t) \in Frame /\ role[One(m, t)] = "one"
    /\ m.tab[t][0] = NonLeaf(One(m, t))

EndsAtOne(m, role, t, q) ==
    /\ HasOne(m, role, t)
    /\ m.tab[One(m, t)][Vpn(q, 1)] = NoPte /\ Entry(m, t, q) = NoPte

HasZero(m, role, t, q) ==
    /\ HasOne(m, role, t)
    /\ Zero(m, t, q) \in Frame /\ role[Zero(m, t, q)] = "zero"
    /\ m.tab[One(m, t)][Vpn(q, 1)] = NonLeaf(Zero(m, t, q))

EndsAtZero(m, role, t, q) ==
    /\ HasZero(m, role, t, q)
    /\ Entry(m, t, q) = m.tab[Zero(m, t, q)][Vpn(q, 0)]
    /\ PageTo(role, Entry(m, t, q))

LEMMA UserPageIs ==
    ASSUME NEW q \in UserPage
    PROVE  /\ q \in Page /\ q < KernelPage /\ Vpn(q, 2) = 0
           /\ Vpn(q, 0) \in Idx /\ Vpn(q, 1) \in Idx /\ 0 \in Idx /\ 1 \in Idx
<1>1. q \in Page /\ q < KernelPage /\ 0 \in Idx /\ 1 \in Idx
  BY DEF UserPage, Page, KernelPage, Idx
<1> QED
  BY <1>1, VpnIs

LEMMA PathIs ==
    ASSUME NEW m, NEW role, Shape(m, role), NEW t \in Frame, role[t] = "root",
           NEW q \in UserPage
    PROVE  \/ EndsAtRoot(m, t, q)
           \/ EndsAtOne(m, role, t, q)
           \/ EndsAtZero(m, role, t, q)
<1>0. /\ Vpn(q, 2) = 0 /\ 0 \in Idx /\ Vpn(q, 1) \in Idx /\ Vpn(q, 0) \in Idx
  BY UserPageIs
<1>1. \A s \in Frame, i \in Idx :
        role[s] \in TableRole => Good(role, role[s], i, m.tab[s][i])
  BY DEF Shape, Entries
<1>2. NonLeafTo(role, "one", m.tab[t][0])
  <2>1. Good(role, "root", 0, m.tab[t][0])
    BY <1>0, <1>1 DEF TableRole
  <2> QED BY <2>1 DEF Good
<1>3. CASE m.tab[t][0] = NoPte
  <2>1. Entry(m, t, q) = NoPte
    BY <1>0, <1>3, NoPteIs DEF Entry
  <2> QED BY <1>3, <2>1 DEF EndsAtRoot
<1>4. CASE m.tab[t][0] # NoPte
  <2>1. PICK f \in Frame : role[f] = "one" /\ m.tab[t][0] = NonLeaf(f)
    BY <1>2, <1>4 DEF NonLeafTo
  <2>2. One(m, t) = f /\ IsTable(m.tab[t][0])
    BY <2>1, NonLeafIs DEF One
  <2>3. HasOne(m, role, t)
    BY <2>1, <2>2 DEF HasOne
  <2>4. NonLeafTo(role, "zero", m.tab[f][Vpn(q, 1)])
    <3>1. Good(role, "one", Vpn(q, 1), m.tab[f][Vpn(q, 1)])
      BY <1>0, <1>1, <2>1 DEF TableRole
    <3> QED BY <3>1 DEF Good
  <2>5. m.tab[t][Vpn(q, 2)].to = f
    BY <1>0, <2>2 DEF One
  <2>6. CASE m.tab[f][Vpn(q, 1)] = NoPte
    <3>1. Entry(m, t, q) = NoPte
      BY <1>0, <2>2, <2>5, <2>6, NoPteIs DEF Entry
    <3> QED BY <2>2, <2>3, <2>6, <3>1 DEF EndsAtOne
  <2>7. CASE m.tab[f][Vpn(q, 1)] # NoPte
    <3>1. PICK z \in Frame : role[z] = "zero" /\ m.tab[f][Vpn(q, 1)] = NonLeaf(z)
      BY <2>4, <2>7 DEF NonLeafTo
    <3>2. Zero(m, t, q) = z /\ IsTable(m.tab[f][Vpn(q, 1)])
      BY <2>2, <3>1, NonLeafIs DEF Zero
    <3>3. m.tab[f][Vpn(q, 1)].to = z
      BY <3>1, NonLeafIs
    <3>4. Entry(m, t, q) = m.tab[z][Vpn(q, 0)]
      BY <1>0, <2>2, <2>5, <3>2, <3>3 DEF Entry
    <3>5. PageTo(role, m.tab[z][Vpn(q, 0)])
      <4>1. Good(role, "zero", Vpn(q, 0), m.tab[z][Vpn(q, 0)])
        BY <1>0, <1>1, <3>1 DEF TableRole
      <4> QED BY <4>1 DEF Good
    <3> QED
      BY <2>2, <2>3, <3>1, <3>2, <3>4, <3>5 DEF EndsAtZero, HasZero
  <2> QED BY <2>6, <2>7
<1> QED BY <1>3, <1>4

LEMMA EntryPage ==
    ASSUME NEW m, NEW role, Shape(m, role), NEW t \in Frame, role[t] = "root",
           NEW q \in UserPage
    PROVE  PageTo(role, Entry(m, t, q))
BY PathIs DEF EndsAtRoot, EndsAtOne, EndsAtZero, PageTo

LEMMA EntryKernel ==
    ASSUME NEW m, NEW role, Shape(m, role), NEW t \in Frame, role[t] = "root",
           NEW q \in Page, ~(q < KernelPage)
    PROVE  Entry(m, t, q) = KernelPte
<1>1. Vpn(q, 2) = 1 /\ 1 \in Idx
  BY VpnIs DEF Idx
<1>2. Good(role, "root", 1, m.tab[t][1])
  BY <1>1 DEF Shape, Entries, TableRole
<1>3. m.tab[t][1] = KernelPte
  BY <1>2 DEF Good
<1> QED
  BY <1>1, <1>3, KernelPteIs DEF Entry

SameTables(m, n, role) ==
    \A g \in Frame : role[g] \in TableRole => n.tab[g] = m.tab[g]

(* A walk sees the tables of the space only.                               *)
LEMMA SameEntry ==
    ASSUME NEW m, NEW n, NEW role, Shape(m, role), NEW t \in Frame,
           role[t] = "root", NEW q \in UserPage, SameTables(m, n, role)
    PROVE  Entry(n, t, q) = Entry(m, t, q)
<1>0. Vpn(q, 2) = 0
  BY UserPageIs
<1>1. n.tab[t] = m.tab[t]
  BY DEF TableRole, SameTables
<1>2. CASE EndsAtRoot(m, t, q)
  BY <1>0, <1>1, <1>2, NoPteIs DEF EndsAtRoot, Entry
<1>3. CASE EndsAtOne(m, role, t, q)
  <2> DEFINE f == One(m, t)
  <2>1. /\ f \in Frame /\ role[f] = "one" /\ m.tab[t][0] = NonLeaf(f)
        /\ m.tab[f][Vpn(q, 1)] = NoPte /\ Entry(m, t, q) = NoPte
    BY <1>3 DEF EndsAtOne, HasOne
  <2> HIDE DEF f
  <2>2. n.tab[f] = m.tab[f]
    BY <2>1 DEF TableRole, SameTables
  <2>3. n.tab[t][Vpn(q, 2)].to = f /\ IsTable(n.tab[t][Vpn(q, 2)])
    BY <1>0, <1>1, <2>1, NonLeafIs
  <2> QED BY <2>1, <2>2, <2>3, NoPteIs DEF Entry
<1>4. CASE EndsAtZero(m, role, t, q)
  <2> DEFINE f == One(m, t)
  <2> DEFINE z == Zero(m, t, q)
  <2>1. /\ f \in Frame /\ role[f] = "one" /\ m.tab[t][0] = NonLeaf(f)
        /\ z \in Frame /\ role[z] = "zero" /\ m.tab[f][Vpn(q, 1)] = NonLeaf(z)
        /\ Entry(m, t, q) = m.tab[z][Vpn(q, 0)]
    BY <1>4 DEF EndsAtZero, HasZero, HasOne
  <2> HIDE DEF f, z
  <2>2. n.tab[f] = m.tab[f] /\ n.tab[z] = m.tab[z]
    BY <2>1 DEF TableRole, SameTables
  <2>3. n.tab[t][Vpn(q, 2)].to = f /\ IsTable(n.tab[t][Vpn(q, 2)])
    BY <1>0, <1>1, <2>1, NonLeafIs
  <2>4. n.tab[f][Vpn(q, 1)].to = z /\ IsTable(n.tab[f][Vpn(q, 1)])
    BY <2>1, <2>2, NonLeafIs
  <2> QED BY <2>1, <2>2, <2>3, <2>4 DEF Entry
<1> QED
  BY <1>2, <1>3, <1>4, PathIs

-----------------------------------------------------------------------------
(* What a space shows.                                                     *)

Show(m, t, q) ==
    LET e == Entry(m, t, q)
    IN  IF IsLeaf(e)
        THEN {<<IF e.to \in Frame THEN m.data[e.to] ELSE e.to, e.p>>}
        ELSE {}

LEMMA ViewIs ==
    ASSUME NEW m, NEW t
    PROVE  View(m, t) = [q \in UserPage |-> Show(m, t, q)]
<1>1. \A q \in UserPage :
        {<<IF f \in Frame THEN m.data[f] ELSE f, Entry(m, t, q).p>> :
            f \in Translate(m, t, q, {})} = Show(m, t, q)
  BY DEF Translate, Show
<1> QED
  BY <1>1 DEF View, UserPage

LEMMA ViewSame ==
    ASSUME NEW m, NEW t, NEW n, NEW s,
           \A q \in UserPage : Show(m, t, q) = Show(n, s, q)
    PROVE  View(m, t) = View(n, s)
BY ViewIs

LEMMA ViewShow ==
    ASSUME NEW m, NEW t, NEW n, NEW s, View(m, t) = View(n, s),
           NEW q \in UserPage
    PROVE  Show(m, t, q) = Show(n, s, q)
<1>1. View(m, t)[q] = Show(m, t, q) /\ View(n, s)[q] = Show(n, s, q)
  BY ViewIs
<1> QED BY <1>1

SamePages(m, n, role) ==
    \A g \in Frame : role[g] = "page" => n.data[g] = m.data[g]

(* Two views are the same when the entries are and the pages hold the same.*)
LEMMA SameShow ==
    ASSUME NEW m, NEW n, NEW role, Shape(m, role), NEW t \in Frame,
           role[t] = "root", NEW q \in UserPage,
           Entry(n, t, q) = Entry(m, t, q), SamePages(m, n, role)
    PROVE  Show(n, t, q) = Show(m, t, q)
<1> DEFINE e == Entry(m, t, q)
<1>1. PageTo(role, e)
  BY EntryPage
<1>2. e.to \in Frame => role[e.to] = "page"
  <2>1. Good(role, "zero", 0, e)
    BY <1>1 DEF Good
  <2>2. 0 \in Idx /\ "zero" \in TableRole
    BY DEF Idx, TableRole
  <2> HIDE DEF e
  <2> QED BY <2>1, <2>2, GoodDown DEF Under
<1> QED
  BY <1>2 DEF Show, SamePages

-----------------------------------------------------------------------------
(* Frames change hands outside the trees.                                  *)

InTree(k) == k \in TableRole \/ k \in ChildRole

LEMMA ShapeTypes ==
    ASSUME NEW m, NEW role, Shape(m, role)
    PROVE  /\ m \in Mem /\ role \in [Frame -> Role]
           /\ \A f \in Frame : f \in m.taken <=> role[f] # "free"
BY DEF Shape

LEMMA ShapeDown ==
    ASSUME NEW m, NEW role, Shape(m, role), NEW t \in Frame, NEW i \in Idx,
           role[t] \in TableRole, m.tab[t][i].to \in Frame
    PROVE  /\ role[m.tab[t][i].to] = Under(role[t])
           /\ role[m.tab[t][i].to] \in ChildRole /\ m.tab[t][i].v
<1>1. Good(role, role[t], i, m.tab[t][i])
  BY DEF Shape, Entries
<1> QED BY <1>1, GoodDown

LEMMA Recolour ==
    ASSUME NEW m, NEW role, Shape(m, role), NEW n \in Mem,
           NEW role2 \in [Frame -> Role],
           \A g \in Frame : g \in n.taken <=> role2[g] # "free",
           \A g \in Frame : InTree(role[g]) \/ InTree(role2[g]) =>
              role2[g] = role[g] /\ n.tab[g] = m.tab[g]
    PROVE  Shape(n, role2)
<1>1. Entries(n, role2)
  <2>1. ASSUME NEW t \in Frame, NEW i \in Idx, role2[t] \in TableRole
        PROVE  Good(role2, role2[t], i, n.tab[t][i])
    <3>1. role2[t] = role[t] /\ n.tab[t] = m.tab[t] /\ role[t] \in TableRole
      BY <2>1 DEF InTree
    <3>2. Good(role, role[t], i, m.tab[t][i])
      BY <3>1 DEF Shape, Entries
    <3>3. m.tab[t][i].to \in Frame => role2[m.tab[t][i].to] = role[m.tab[t][i].to]
      BY <3>1, ShapeDown DEF InTree
    <3>4. Good(role2, role[t], i, m.tab[t][i])
      BY <3>2, <3>3, GoodStays
    <3> QED BY <3>1, <3>4
  <2> QED BY <2>1 DEF Entries
<1>2. Named(n, role2)
  <2>1. ASSUME NEW f \in Frame, role2[f] \in ChildRole
        PROVE  \E t \in Frame, i \in Idx :
                  role2[t] \in TableRole /\ n.tab[t][i].to = f
    <3>1. role[f] \in ChildRole
      BY <2>1 DEF InTree
    <3>2. PICK t \in Frame, i \in Idx : role[t] \in TableRole /\ m.tab[t][i].to = f
      BY <3>1 DEF Shape, Named
    <3>3. role2[t] = role[t] /\ n.tab[t] = m.tab[t]
      BY <3>2 DEF InTree
    <3> QED BY <3>2, <3>3
  <2> QED BY <2>1 DEF Named
<1>3. Once(n, role2)
  <2>1. \A t \in Frame : role2[t] \in TableRole =>
            role[t] \in TableRole /\ n.tab[t] = m.tab[t]
    BY DEF InTree
  <2>2. Once(m, role)
    BY DEF Shape
  <2> QED BY <2>1, <2>2 DEF Once
<1> QED
  BY <1>1, <1>2, <1>3 DEF Shape

-----------------------------------------------------------------------------
(* Which frames are roots, register frames, lost, or in a hand.            *)

Held(role, R, G, L, H) ==
    \A f \in Frame :
        /\ role[f] = "root" <=> f \in R
        /\ role[f] = "regs" <=> f \in G
        /\ role[f] = "lost" <=> f \in L
        /\ role[f] = "hand" <=> f \in H

Forest(m, R, G, L, H) ==
    /\ R \subseteq Frame /\ G \subseteq Frame /\ L \subseteq Frame /\ H \subseteq Frame
    /\ \E role : Shape(m, role) /\ Held(role, R, G, L, H)

Keeps(m, n, R) == \A t \in R, q \in UserPage : Show(n, t, q) = Show(m, t, q)

LEMMA KeepsTrans ==
    ASSUME NEW a, NEW b, NEW c, NEW R, NEW S, Keeps(a, b, R), Keeps(b, c, S), S \subseteq R
    PROVE  Keeps(a, c, S)
BY DEF Keeps

LEMMA ForestTypes ==
    ASSUME NEW m, NEW R, NEW G, NEW L, NEW H, Forest(m, R, G, L, H)
    PROVE  /\ m \in Mem /\ R \cup G \cup L \cup H \subseteq m.taken
           /\ R \subseteq Frame /\ G \subseteq Frame /\ L \subseteq Frame /\ H \subseteq Frame
           /\ R \cap G = {} /\ R \cap L = {} /\ R \cap H = {}
           /\ G \cap L = {} /\ G \cap H = {} /\ L \cap H = {}
BY DEF Forest, Held, Shape

(* Recolouring f, the view of every space included.                        *)
LEMMA RecolourForest ==
    ASSUME NEW m, NEW R, NEW G, NEW L, NEW H, NEW role, Shape(m, role),
           Held(role, R, G, L, H), R \subseteq Frame, NEW n \in Mem,
           NEW f \in Frame, NEW k \in Role, ~InTree(role[f]), ~InTree(k),
           \A g \in Frame : g # f => (g \in n.taken <=> g \in m.taken),
           f \in n.taken <=> k # "free",
           \A g \in Frame : g # f => n.tab[g] = m.tab[g],
           \A g \in Frame : g # f => n.data[g] = m.data[g]
    PROVE  /\ Shape(n, [role EXCEPT ![f] = k])
           /\ Keeps(m, n, R)
<1> DEFINE role2 == [role EXCEPT ![f] = k]
<1>1. role \in [Frame -> Role] /\ \A g \in Frame : g \in m.taken <=> role[g] # "free"
  BY ShapeTypes
<1>2. role2 \in [Frame -> Role] /\ role2[f] = k /\ \A g \in Frame : g # f => role2[g] = role[g]
  BY <1>1
<1> HIDE DEF role2
<1>3. \A g \in Frame : g \in n.taken <=> role2[g] # "free"
  BY <1>1, <1>2
<1>4. \A g \in Frame : InTree(role[g]) \/ InTree(role2[g]) =>
              role2[g] = role[g] /\ n.tab[g] = m.tab[g]
  BY <1>2
<1>5. Shape(n, role2)
  BY <1>2, <1>3, <1>4, Recolour
<1>6. ASSUME NEW t \in R, NEW q \in UserPage
      PROVE  Show(n, t, q) = Show(m, t, q)
  <2>1. t \in Frame /\ role[t] = "root"
    BY DEF Held
  <2>2. SameTables(m, n, role)
    BY DEF InTree, SameTables
  <2>3. Entry(n, t, q) = Entry(m, t, q)
    BY <2>1, <2>2, SameEntry
  <2>4. SamePages(m, n, role)
    BY DEF InTree, ChildRole, SamePages
  <2> QED BY <2>1, <2>3, <2>4, SameShow
<1> QED
  BY <1>5, <1>6 DEF role2, Keeps

(* alloc: the frame is in its caller's hand.                               *)
LEMMA TakeForest ==
    ASSUME NEW m, NEW R, NEW G, NEW L, NEW H, Forest(m, R, G, L, H),
           NEW f \in Frame, f \notin m.taken, NEW n \in Mem,
           n.taken = m.taken \cup {f},
           \A g \in Frame : g # f => n.tab[g] = m.tab[g],
           \A g \in Frame : g # f => n.data[g] = m.data[g]
    PROVE  Forest(n, R, G, L, H \cup {f}) /\ Keeps(m, n, R)
<1>1. PICK role : Shape(m, role) /\ Held(role, R, G, L, H)
  BY DEF Forest
<1>2. R \subseteq Frame /\ G \subseteq Frame /\ L \subseteq Frame /\ H \subseteq Frame
  BY DEF Forest
<1>3. role \in [Frame -> Role] /\ role[f] = "free"
  BY <1>1, ShapeTypes
<1>4. ~InTree("free") /\ ~InTree("hand") /\ "hand" \in Role
  BY DEF InTree, TableRole, ChildRole, Role
<1>5. Shape(n, [role EXCEPT ![f] = "hand"]) /\ Keeps(m, n, R)
  <2>1. /\ \A g \in Frame : g # f => (g \in n.taken <=> g \in m.taken)
        /\ f \in n.taken <=> "hand" # "free"
        /\ ~InTree(role[f])
    BY <1>3, <1>4
  <2> QED BY <1>1, <1>2, <1>4, <2>1, RecolourForest
<1>6. Held([role EXCEPT ![f] = "hand"], R, G, L, H \cup {f})
  BY <1>1, <1>3 DEF Held
<1> QED
  BY <1>2, <1>5, <1>6 DEF Forest

(* A frame in the hand is given back.                                      *)
LEMMA GiveForest ==
    ASSUME NEW m, NEW R, NEW G, NEW L, NEW H, Forest(m, R, G, L, H),
           NEW f \in H \cup G
    PROVE  /\ Forest(Give(m, {f}), R, G \ {f}, L, H \ {f})
           /\ Keeps(m, Give(m, {f}), R)
<1>1. PICK role : Shape(m, role) /\ Held(role, R, G, L, H)
  BY DEF Forest
<1>2. R \subseteq Frame /\ G \subseteq Frame /\ L \subseteq Frame /\ H \subseteq Frame
  BY DEF Forest
<1>3. f \in Frame /\ role \in [Frame -> Role] /\ role[f] \in {"hand", "regs"}
  BY <1>1, <1>2, ShapeTypes DEF Held
<1>4. ~InTree("hand") /\ ~InTree("regs") /\ ~InTree("free") /\ "free" \in Role
  BY DEF InTree, TableRole, ChildRole, Role
<1>5. m \in Mem
  BY <1>1, ShapeTypes
<1> DEFINE n == Give(m, {f})
<1>6. /\ n \in Mem /\ n.taken = m.taken \ {f}
      /\ \A g \in Frame : g # f => n.tab[g] = m.tab[g]
      /\ \A g \in Frame : g # f => n.data[g] = m.data[g]
  <2>1. \A g : g \in {f} <=> g = f
    OBVIOUS
  <2> QED BY <1>5, <2>1, GiveIs
<1> HIDE DEF n
<1>7. Shape(n, [role EXCEPT ![f] = "free"]) /\ Keeps(m, n, R)
  <2>1. /\ \A g \in Frame : g # f => (g \in n.taken <=> g \in m.taken)
        /\ f \in n.taken <=> "free" # "free"
        /\ ~InTree(role[f])
    BY <1>3, <1>4, <1>6
  <2> QED BY ZenonT(40), <1>1, <1>2, <1>3, <1>4, <1>6, <2>1, RecolourForest
<1>8. Held([role EXCEPT ![f] = "free"], R, G \ {f}, L, H \ {f})
  BY <1>1, <1>3 DEF Held
<1> QED
  BY <1>2, <1>7, <1>8 DEF Forest, n

(* A frame in the hand is forgotten, or becomes a register frame.          *)
LEMMA DropForest ==
    ASSUME NEW m, NEW R, NEW G, NEW L, NEW H, Forest(m, R, G, L, H), NEW f \in H
    PROVE  /\ Forest(m, R, G, L \cup {f}, H \ {f})
           /\ Forest(m, R, G \cup {f}, L, H \ {f})
<1>1. PICK role : Shape(m, role) /\ Held(role, R, G, L, H)
  BY DEF Forest
<1>2. R \subseteq Frame /\ G \subseteq Frame /\ L \subseteq Frame /\ H \subseteq Frame
  BY DEF Forest
<1>3. f \in Frame /\ m \in Mem /\ role \in [Frame -> Role] /\ role[f] = "hand" /\ f \in m.taken
  BY <1>1, <1>2, ShapeTypes DEF Held
<1>4. /\ ~InTree("hand") /\ ~InTree("regs") /\ ~InTree("lost")
      /\ "regs" \in Role /\ "lost" \in Role
  BY DEF InTree, TableRole, ChildRole, Role
<1>5. Shape(m, [role EXCEPT ![f] = "lost"])
  BY <1>1, <1>2, <1>3, <1>4, RecolourForest
<1>6. Shape(m, [role EXCEPT ![f] = "regs"])
  BY <1>1, <1>2, <1>3, <1>4, RecolourForest
<1>7. Held([role EXCEPT ![f] = "lost"], R, G, L \cup {f}, H \ {f})
  BY <1>1, <1>3 DEF Held
<1>8. Held([role EXCEPT ![f] = "regs"], R, G \cup {f}, L, H \ {f})
  BY <1>1, <1>3 DEF Held
<1> QED
  BY <1>2, <1>3, <1>5, <1>6, <1>7, <1>8 DEF Forest

(* A store to a page, and the contents a loader gives a fresh frame.       *)
SetData(m, f, v) == [m EXCEPT !.data[f] = v]

LEMMA DataIs ==
    ASSUME NEW m \in Mem, NEW f \in Frame, NEW v \in 0 .. StaleData,
           NEW n, n = SetData(m, f, v)
    PROVE  /\ n \in Mem /\ n.taken = m.taken /\ n.tab = m.tab /\ n.data[f] = v
           /\ \A g \in Frame : g # f => n.data[g] = m.data[g]
<1>1. /\ m.tab \in [Frame -> [Idx -> Pte]] /\ m.data \in [Frame -> 0 .. StaleData]
      /\ m.taken \in SUBSET Frame
  BY DEF Mem
<1>2. n = [tab |-> m.tab, data |-> [m.data EXCEPT ![f] = v], taken |-> m.taken]
  BY DEF Mem, SetData
<1> QED
  BY <1>1, <1>2 DEF Mem

TakeSet(m, f, v) == [Take(m, f) EXCEPT !.data[f] = v]

LEMMA TakeSetIs ==
    ASSUME NEW m \in Mem, NEW f \in Frame, NEW v \in 0 .. StaleData,
           NEW n, n = TakeSet(m, f, v)
    PROVE  /\ n \in Mem /\ n.taken = m.taken \cup {f} /\ n.data[f] = v
           /\ \A i \in Idx : n.tab[f][i] = NoPte
           /\ \A g \in Frame : g # f => n.tab[g] = m.tab[g]
           /\ \A g \in Frame : g # f => n.data[g] = m.data[g]
<1> DEFINE a == Take(m, f)
<1>1. /\ a \in Mem /\ a.taken = m.taken \cup {f}
      /\ \A i \in Idx : a.tab[f][i] = NoPte
      /\ \A g \in Frame : g # f => a.tab[g] = m.tab[g]
      /\ \A g \in Frame : g # f => a.data[g] = m.data[g]
  BY TakeIs
<1>2. n = SetData(a, f, v)
  BY DEF SetData, TakeSet
<1> HIDE DEF a
<1>3. /\ n \in Mem /\ n.taken = a.taken /\ n.tab = a.tab /\ n.data[f] = v
      /\ \A g \in Frame : g # f => n.data[g] = a.data[g]
  BY <1>1, <1>2, DataIs
<1> QED
  BY <1>1, <1>3

LEMMA DataForest ==
    ASSUME NEW m, NEW R, NEW G, NEW L, NEW H, Forest(m, R, G, L, H),
           NEW f \in Frame, NEW v \in 0 .. StaleData
    PROVE  Forest([m EXCEPT !.data[f] = v], R, G, L, H)
<1>1. PICK role : Shape(m, role) /\ Held(role, R, G, L, H)
  BY DEF Forest
<1>2. m \in Mem /\ role \in [Frame -> Role] /\ \A g \in Frame : g \in m.taken <=> role[g] # "free"
  BY <1>1, ShapeTypes
<1> DEFINE n == SetData(m, f, v)
<1>3. n \in Mem /\ n.taken = m.taken /\ n.tab = m.tab
  BY <1>2, DataIs
<1> HIDE DEF n
<1>4. Shape(n, role)
  BY <1>1, <1>2, <1>3, Recolour
<1> QED
  BY <1>1, <1>4 DEF n, Forest, SetData

-----------------------------------------------------------------------------
(* A new root: the frame in the hand gets the kernel's gigapage.           *)
LEMMA RootShape ==
    ASSUME NEW m, NEW role, Shape(m, role), NEW f \in Frame, role[f] = "hand",
           m.tab[f][0] = NoPte, NEW n \in Mem, n.taken = m.taken,
           n.tab[f][0] = NoPte, n.tab[f][1] = KernelPte,
           \A g \in Frame : g # f => n.tab[g] = m.tab[g],
           NEW role2, role2 = [role EXCEPT ![f] = "root"]
    PROVE  Shape(n, role2)
<1>1. /\ role \in [Frame -> Role]
      /\ \A g \in Frame : g \in m.taken <=> role[g] # "free"
  BY ShapeTypes
<1>2. /\ role2 \in [Frame -> Role] /\ role2[f] = "root"
      /\ \A g \in Frame : g # f => role2[g] = role[g]
  BY <1>1 DEF Role
<1>3. \A g \in Frame : g \in n.taken <=> role2[g] # "free"
  BY <1>1, <1>2
<1>4. \A g \in Frame : g # f /\ role2[g] \in TableRole =>
          role[g] \in TableRole /\ role2[g] = role[g] /\ n.tab[g] = m.tab[g]
  BY <1>2
<1>5. \A j \in Idx : n.tab[f][j].to \notin Frame
  BY NoPteTo, KernelPteIs DEF Idx
<1>6. Entries(n, role2)
  <2>1. ASSUME NEW t \in Frame, NEW i \in Idx, role2[t] \in TableRole
        PROVE  Good(role2, role2[t], i, n.tab[t][i])
    <3>1. CASE t = f
      BY <3>1, <1>2 DEF Good, NonLeafTo, Idx
    <3>2. CASE t # f
      <4>1. role[t] \in TableRole /\ role2[t] = role[t] /\ n.tab[t] = m.tab[t]
        BY <1>4, <2>1, <3>2
      <4>2. Good(role, role[t], i, m.tab[t][i])
        BY <4>1 DEF Shape, Entries
      <4>3. m.tab[t][i].to \in Frame => role2[m.tab[t][i].to] = role[m.tab[t][i].to]
        <5>1. "hand" \notin ChildRole
          BY DEF ChildRole
        <5> QED BY <1>2, <4>1, <5>1, ShapeDown
      <4>4. Good(role2, role[t], i, m.tab[t][i])
        BY <4>2, <4>3, GoodStays
      <4> QED BY <4>1, <4>4
    <3> QED BY <3>1, <3>2
  <2> QED BY <2>1 DEF Entries
<1>7. Named(n, role2)
  <2>1. ASSUME NEW g \in Frame, role2[g] \in ChildRole
        PROVE  \E t \in Frame, i \in Idx : role2[t] \in TableRole /\ n.tab[t][i].to = g
    <3>1. role[g] \in ChildRole
      BY <1>2, <2>1 DEF ChildRole
    <3>2. PICK t \in Frame, i \in Idx : role[t] \in TableRole /\ m.tab[t][i].to = g
      BY <3>1 DEF Shape, Named
    <3>3. t # f
      BY <3>2 DEF TableRole
    <3> QED BY <1>2, <3>2, <3>3
  <2> QED BY <2>1 DEF Named
<1>8. Once(n, role2)
  <2>1. Once(m, role)
    BY DEF Shape
  <2> QED BY <1>4, <1>5, <2>1 DEF Once
<1> QED
  BY <1>2, <1>3, <1>6, <1>7, <1>8 DEF Shape

LEMMA MapKernelIs ==
    ASSUME NEW m \in Mem, NEW f \in Frame, NEW n, n = MapKernel(m, f)
    PROVE  /\ n \in Mem /\ n.taken = m.taken /\ n.data = m.data
           /\ n.tab[f][1] = KernelPte /\ n.tab[f][0] = m.tab[f][0]
           /\ \A g \in Frame : g # f => n.tab[g] = m.tab[g]
<1>1. Vpn(KernelPage, 2) = 1 /\ 0 \in Idx /\ 1 \in Idx
  BY VpnIs DEF KernelPage, Page, Idx
<1>2. KernelPte \in Pte
  <2>1. RWX \cup {"G"} \in SUBSET Perm
    BY DEF RWX, Perm
  <2> QED BY <2>1, PteTypes DEF KernelPte
<1>3. n = SetEntry(m, f, 1, KernelPte)
  BY <1>1 DEF MapKernel, KernelPte, SetEntry
<1> QED
  BY <1>1, <1>2, <1>3, EntryIs

LEMMA RootForest ==
    ASSUME NEW m, NEW R, NEW G, NEW L, NEW H, Forest(m, R, G, L, H),
           NEW f \in H, m.tab[f][0] = NoPte
    PROVE  /\ Forest(MapKernel(m, f), R \cup {f}, G, L, H \ {f})
           /\ Keeps(m, MapKernel(m, f), R)
           /\ \A q \in UserPage : Show(MapKernel(m, f), f, q) = {}
<1>1. PICK role : Shape(m, role) /\ Held(role, R, G, L, H)
  BY DEF Forest
<1>2. R \subseteq Frame /\ G \subseteq Frame /\ L \subseteq Frame /\ H \subseteq Frame
  BY DEF Forest
<1>3. f \in Frame /\ m \in Mem /\ role \in [Frame -> Role] /\ role[f] = "hand"
  BY <1>1, <1>2, ShapeTypes DEF Held
<1> DEFINE n == MapKernel(m, f)
<1>4. /\ n \in Mem /\ n.taken = m.taken /\ n.data = m.data
      /\ n.tab[f][1] = KernelPte /\ n.tab[f][0] = NoPte
      /\ \A g \in Frame : g # f => n.tab[g] = m.tab[g]
  BY <1>3, MapKernelIs
<1> HIDE DEF n
<1>5. Shape(n, [role EXCEPT ![f] = "root"])
  BY <1>1, <1>3, <1>4, RootShape
<1>6. Held([role EXCEPT ![f] = "root"], R \cup {f}, G, L, H \ {f})
  BY <1>1, <1>3 DEF Held
<1>7. ASSUME NEW t \in R, NEW q \in UserPage
      PROVE  Show(n, t, q) = Show(m, t, q)
  <2>1. t \in Frame /\ role[t] = "root"
    BY <1>1, <1>2 DEF Held
  <2>2. SameTables(m, n, role)
    BY <1>3, <1>4 DEF TableRole, SameTables
  <2>3. Entry(n, t, q) = Entry(m, t, q)
    BY <1>1, <2>1, <2>2, SameEntry
  <2>4. SamePages(m, n, role)
    BY <1>4 DEF SamePages
  <2> QED BY <1>1, <2>1, <2>3, <2>4, SameShow
<1>8. ASSUME NEW q \in UserPage
      PROVE  Show(n, f, q) = {}
  <2>1. Vpn(q, 2) = 0
    BY UserPageIs
  <2>2. Entry(n, f, q) = NoPte
    BY <1>4, <2>1, NoPteIs DEF Entry
  <2> QED BY <2>2, NoPteIs DEF Show
<1> QED
  BY <1>2, <1>3, <1>5, <1>6, <1>7, <1>8 DEF Forest, Keeps, n

-----------------------------------------------------------------------------
(* An empty entry of a table gets a frame from the hand, or the window.    *)

Attached(role, f, k) == [g \in Frame |-> IF g = f THEN k ELSE role[g]]

Hangable(m, role, t, i, f) ==
    /\ t \in Frame /\ i \in Idx /\ role[t] \in TableRole /\ m.tab[t][i] = NoPte
    /\ f \in Frame => role[f] = "hand"

LEMMA AttachedIs ==
    ASSUME NEW m, NEW role, Shape(m, role), NEW f, NEW k \in ChildRole,
           NEW r2, r2 = Attached(role, f, k)
    PROVE  /\ r2 \in [Frame -> Role]
           /\ f \in Frame => r2[f] = k
           /\ \A g \in Frame : g # f => r2[g] = role[g]
<1>1. k \in Role /\ role \in [Frame -> Role]
  BY ShapeTypes DEF ChildRole, Role
<1> QED BY <1>1 DEF Attached

LEMMA UnderChild ==
    ASSUME NEW k
    PROVE  Under(k) \in ChildRole
BY DEF Under, ChildRole

LEMMA AttachShape ==
    ASSUME NEW m, NEW role, Shape(m, role), NEW t, NEW i, NEW f,
           Hangable(m, role, t, i, f), NEW pte \in Pte, pte.to = f,
           NEW r2, r2 = Attached(role, f, Under(role[t])),
           Good(r2, role[t], i, pte),
           Under(role[t]) \in TableRole =>
              f \in Frame /\ \A j \in Idx : m.tab[f][j] = NoPte,
           NEW n, n = SetEntry(m, t, i, pte)
    PROVE  Shape(n, r2)
<1>0. /\ t \in Frame /\ i \in Idx /\ role[t] \in TableRole /\ m.tab[t][i] = NoPte
      /\ f \in Frame => role[f] = "hand"
  BY DEF Hangable
<1>1. /\ m \in Mem /\ role \in [Frame -> Role]
      /\ \A g \in Frame : g \in m.taken <=> role[g] # "free"
  BY ShapeTypes
<1>2. /\ r2 \in [Frame -> Role]
      /\ f \in Frame => r2[f] = Under(role[t])
      /\ \A g \in Frame : g # f => r2[g] = role[g]
  BY AttachedIs, UnderChild
<1>3. /\ n \in Mem /\ n.taken = m.taken /\ n.tab[t][i] = pte
      /\ \A g \in Frame, j \in Idx : ~(g = t /\ j = i) => n.tab[g][j] = m.tab[g][j]
      /\ \A g \in Frame : g # t => n.tab[g] = m.tab[g]
  BY <1>0, <1>1, EntryIs
<1>4. t # f /\ r2[t] = role[t]
  BY <1>0, <1>2 DEF TableRole
<1>5. Under(role[t]) # "free"
  BY DEF Under
<1>6. \A g \in Frame : g \in n.taken <=> r2[g] # "free"
  BY <1>0, <1>1, <1>2, <1>3, <1>5
(* No entry of a table named f before.                                     *)
<1>7. ASSUME NEW g \in Frame, NEW j \in Idx, role[g] \in TableRole
      PROVE  m.tab[g][j].to \in Frame => m.tab[g][j].to # f
  <2>1. "hand" \notin ChildRole
    BY DEF ChildRole
  <2> QED BY <1>0, <1>7, <2>1, ShapeDown
(* The tables afterwards: those before, and perhaps f, which is blank.     *)
<1>8. \A g \in Frame : r2[g] \in TableRole =>
        \/ g # f /\ role[g] \in TableRole /\ r2[g] = role[g]
        \/ g = f /\ r2[g] = Under(role[t]) /\ Under(role[t]) \in TableRole
  BY <1>2
<1>9. f \in Frame /\ Under(role[t]) \in TableRole =>
        \A j \in Idx : n.tab[f][j] = NoPte
  BY <1>3, <1>4
<1>10. Entries(n, r2)
  <2>1. ASSUME NEW g \in Frame, NEW j \in Idx, r2[g] \in TableRole
        PROVE  Good(r2, r2[g], j, n.tab[g][j])
    <3>1. CASE g = t /\ j = i
      BY <1>3, <1>4, <3>1
    <3>2. CASE g = f
      <4>1. n.tab[g][j] = NoPte /\ r2[g] = Under(role[t]) /\ r2[g] # "root"
        BY <1>8, <1>9, <2>1, <3>2 DEF Under
      <4> QED BY <4>1 DEF Good, NonLeafTo, PageTo
    <3>3. CASE g # f /\ ~(g = t /\ j = i)
      <4>1. role[g] \in TableRole /\ r2[g] = role[g] /\ n.tab[g][j] = m.tab[g][j]
        BY <1>3, <1>8, <2>1, <3>3
      <4>2. Good(role, role[g], j, m.tab[g][j])
        BY <4>1 DEF Shape, Entries
      <4>3. m.tab[g][j].to \in Frame => r2[m.tab[g][j].to] = role[m.tab[g][j].to]
        BY <1>2, <1>7, <4>1
      <4>4. Good(r2, role[g], j, m.tab[g][j])
        BY <4>2, <4>3, GoodStays
      <4> QED BY <4>1, <4>4
    <3> QED BY <3>1, <3>2, <3>3
  <2> QED BY <2>1 DEF Entries
<1>11. Named(n, r2)
  <2>1. ASSUME NEW g \in Frame, r2[g] \in ChildRole
        PROVE  \E s \in Frame, j \in Idx : r2[s] \in TableRole /\ n.tab[s][j].to = g
    <3>1. CASE g = f
      BY <1>0, <1>3, <1>4, <3>1
    <3>2. CASE g # f
      <4>1. role[g] \in ChildRole
        BY <1>2, <2>1, <3>2
      <4>2. PICK s \in Frame, j \in Idx : role[s] \in TableRole /\ m.tab[s][j].to = g
        BY <4>1 DEF Shape, Named
      <4>3. s # f /\ ~(s = t /\ j = i)
        BY <1>0, <4>2, NoPteTo DEF TableRole
      <4>4. r2[s] = role[s] /\ n.tab[s][j] = m.tab[s][j]
        BY <1>2, <1>3, <4>3
      <4> QED BY <4>2, <4>4
    <3> QED BY <3>1, <3>2
  <2> QED BY <2>1 DEF Named
<1>12. Once(n, r2)
  <2>1. ASSUME NEW a \in Frame, NEW b \in Frame, NEW j \in Idx, NEW k \in Idx,
               r2[a] \in TableRole, r2[b] \in TableRole,
               n.tab[a][j].to \in Frame, n.tab[a][j].to = n.tab[b][k].to
        PROVE  a = b /\ j = k
    <3>1. a # f /\ b # f /\ role[a] \in TableRole /\ role[b] \in TableRole
      BY <1>8, <1>9, <2>1, NoPteTo
    <3>2. CASE (a = t /\ j = i) /\ (b = t /\ k = i)
      BY <3>2
    <3>3. CASE (a = t /\ j = i) /\ ~(b = t /\ k = i)
      <4>1. n.tab[a][j].to = f /\ n.tab[b][k] = m.tab[b][k]
        BY <1>3, <3>3
      <4> QED BY <1>7, <2>1, <3>1, <4>1
    <3>4. CASE ~(a = t /\ j = i) /\ (b = t /\ k = i)
      <4>1. n.tab[b][k].to = f /\ n.tab[a][j] = m.tab[a][j]
        BY <1>3, <3>4
      <4> QED BY <1>7, <2>1, <3>1, <4>1
    <3>5. CASE ~(a = t /\ j = i) /\ ~(b = t /\ k = i)
      <4>1. n.tab[b][k] = m.tab[b][k] /\ n.tab[a][j] = m.tab[a][j]
        BY <1>3, <3>5
      <4>2. Once(m, role)
        BY DEF Shape
      <4> QED BY <2>1, <3>1, <4>1, <4>2 DEF Once
    <3> QED BY <3>2, <3>3, <3>4, <3>5
  <2> QED BY <2>1 DEF Once
<1> QED
  BY <1>2, <1>3, <1>6, <1>10, <1>11, <1>12 DEF Shape

-----------------------------------------------------------------------------
(* What a walk returns, from the entries it meets.                         *)

LEMMA EntryOf ==
    ASSUME NEW m, NEW t, NEW q \in UserPage
    PROVE  /\ m.tab[t][0] = NoPte => Entry(m, t, q) = NoPte
           /\ \A f : m.tab[t][0] = NonLeaf(f) /\ m.tab[f][Vpn(q, 1)] = NoPte
                        => Entry(m, t, q) = NoPte
           /\ \A f, z : m.tab[t][0] = NonLeaf(f) /\ m.tab[f][Vpn(q, 1)] = NonLeaf(z)
                        => Entry(m, t, q) = m.tab[z][Vpn(q, 0)]
<1>0. Vpn(q, 2) = 0
  BY UserPageIs
<1>1. m.tab[t][0] = NoPte => Entry(m, t, q) = NoPte
  BY <1>0, NoPteIs DEF Entry
<1>2. ASSUME NEW f, m.tab[t][0] = NonLeaf(f), m.tab[f][Vpn(q, 1)] = NoPte
      PROVE  Entry(m, t, q) = NoPte
  <2>1. m.tab[t][Vpn(q, 2)].to = f /\ IsTable(m.tab[t][Vpn(q, 2)])
    BY <1>0, <1>2, NonLeafIs
  <2> QED BY <1>2, <2>1, NoPteIs DEF Entry
<1>3. ASSUME NEW f, NEW z, m.tab[t][0] = NonLeaf(f), m.tab[f][Vpn(q, 1)] = NonLeaf(z)
      PROVE  Entry(m, t, q) = m.tab[z][Vpn(q, 0)]
  <2>1. m.tab[t][Vpn(q, 2)].to = f /\ IsTable(m.tab[t][Vpn(q, 2)])
    BY <1>0, <1>3, NonLeafIs
  <2>2. m.tab[f][Vpn(q, 1)].to = z /\ IsTable(m.tab[f][Vpn(q, 1)])
    BY <1>3, NonLeafIs
  <2> QED BY <2>1, <2>2 DEF Entry
<1> QED
  BY <1>1, <1>2, <1>3

LEMMA NonLeafNot == \A f : NonLeaf(f) # NoPte
BY DEF NonLeaf, NoPte

(* A fresh blank table below an empty entry: no walk ends differently.     *)
LEMMA LinkEntry ==
    ASSUME NEW m, NEW role, Shape(m, role), NEW t \in Frame, NEW i \in Idx,
           role[t] \in {"root", "one"}, m.tab[t][i] = NoPte,
           NEW f \in Frame, \A j \in Idx : m.tab[f][j] = NoPte, f # t,
           NEW n, n.tab[t][i] = NonLeaf(f),
           \A g \in Frame, j \in Idx : ~(g = t /\ j = i) => n.tab[g][j] = m.tab[g][j],
           NEW r \in Frame, role[r] = "root", NEW q \in UserPage
    PROVE  Entry(n, r, q) = Entry(m, r, q)
<1>0. 0 \in Idx /\ Vpn(q, 1) \in Idx /\ Vpn(q, 0) \in Idx
  BY UserPageIs
<1>1. CASE EndsAtRoot(m, r, q)
  <2>1. m.tab[r][0] = NoPte /\ Entry(m, r, q) = NoPte
    BY <1>1 DEF EndsAtRoot
  <2>2. CASE r = t /\ i = 0
    <3>1. n.tab[r][0] = NonLeaf(f) /\ n.tab[f][Vpn(q, 1)] = NoPte
      BY <1>0, <2>2
    <3> QED BY <2>1, <3>1, EntryOf
  <2>3. CASE ~(r = t /\ i = 0)
    <3>1. n.tab[r][0] = NoPte
      BY <1>0, <2>1, <2>3
    <3> QED BY <2>1, <3>1, EntryOf
  <2> QED BY <2>2, <2>3
<1>2. CASE EndsAtOne(m, role, r, q)
  <2> DEFINE o == One(m, r)
  <2>1. /\ o \in Frame /\ m.tab[r][0] = NonLeaf(o)
        /\ m.tab[o][Vpn(q, 1)] = NoPte /\ Entry(m, r, q) = NoPte
    BY <1>2 DEF EndsAtOne, HasOne
  <2> HIDE DEF o
  <2>2. n.tab[r][0] = NonLeaf(o)
    BY <1>0, <2>1, NonLeafNot
  <2>3. CASE o = t /\ i = Vpn(q, 1)
    <3>1. n.tab[o][Vpn(q, 1)] = NonLeaf(f) /\ n.tab[f][Vpn(q, 0)] = NoPte
      BY <1>0, <2>3
    <3> QED BY <2>1, <2>2, <3>1, EntryOf
  <2>4. CASE ~(o = t /\ i = Vpn(q, 1))
    <3>1. n.tab[o][Vpn(q, 1)] = NoPte
      BY <1>0, <2>1, <2>4
    <3> QED BY <2>1, <2>2, <3>1, EntryOf
  <2> QED BY <2>3, <2>4
<1>3. CASE EndsAtZero(m, role, r, q)
  <2> DEFINE o == One(m, r)
  <2> DEFINE z == Zero(m, r, q)
  <2>1. /\ o \in Frame /\ m.tab[r][0] = NonLeaf(o)
        /\ z \in Frame /\ role[z] = "zero" /\ m.tab[o][Vpn(q, 1)] = NonLeaf(z)
        /\ Entry(m, r, q) = m.tab[z][Vpn(q, 0)]
    BY <1>3 DEF EndsAtZero, HasZero, HasOne
  <2> HIDE DEF o, z
  <2>2. n.tab[r][0] = NonLeaf(o) /\ n.tab[o][Vpn(q, 1)] = NonLeaf(z)
    BY <1>0, <2>1, NonLeafNot
  <2>3. n.tab[z][Vpn(q, 0)] = m.tab[z][Vpn(q, 0)]
    BY <1>0, <2>1
  <2> QED BY <2>1, <2>2, <2>3, EntryOf
<1> QED
  BY <1>1, <1>2, <1>3, PathIs

(* A leaf in an empty entry of a last-level table: the one walk that ends  *)
(* there returns it.                                                       *)
LEMMA LeafEntry ==
    ASSUME NEW m, NEW role, Shape(m, role), NEW t \in Frame, NEW i \in Idx,
           role[t] = "zero", NEW n, NEW pte, n.tab[t][i] = pte,
           \A g \in Frame, j \in Idx : ~(g = t /\ j = i) => n.tab[g][j] = m.tab[g][j],
           NEW r \in Frame, role[r] = "root", NEW q \in UserPage
    PROVE  Entry(n, r, q) = IF HasZero(m, role, r, q) /\ Zero(m, r, q) = t /\ i = Vpn(q, 0)
                            THEN pte ELSE Entry(m, r, q)
<1>0. 0 \in Idx /\ Vpn(q, 1) \in Idx /\ Vpn(q, 0) \in Idx
  BY UserPageIs
<1>1. \A g \in Frame, j \in Idx : role[g] # "zero" => n.tab[g][j] = m.tab[g][j]
  OBVIOUS
<1>2. CASE EndsAtRoot(m, r, q)
  <2>1. m.tab[r][0] = NoPte /\ Entry(m, r, q) = NoPte
    BY <1>2 DEF EndsAtRoot
  <2>2. ~HasZero(m, role, r, q)
    BY <2>1, NonLeafNot DEF HasZero, HasOne
  <2>3. n.tab[r][0] = NoPte
    BY <1>0, <1>1, <2>1
  <2> QED BY <2>1, <2>2, <2>3, EntryOf
<1>3. CASE EndsAtOne(m, role, r, q)
  <2> DEFINE o == One(m, r)
  <2>1. /\ o \in Frame /\ role[o] = "one" /\ m.tab[r][0] = NonLeaf(o)
        /\ m.tab[o][Vpn(q, 1)] = NoPte /\ Entry(m, r, q) = NoPte
    BY <1>3 DEF EndsAtOne, HasOne
  <2>2. ~HasZero(m, role, r, q)
    BY <2>1, NonLeafNot DEF HasZero
  <2> HIDE DEF o
  <2>3. n.tab[r][0] = NonLeaf(o) /\ n.tab[o][Vpn(q, 1)] = NoPte
    BY <1>0, <1>1, <2>1
  <2> QED BY <2>1, <2>2, <2>3, EntryOf
<1>4. CASE EndsAtZero(m, role, r, q)
  <2> DEFINE o == One(m, r)
  <2> DEFINE z == Zero(m, r, q)
  <2>1. /\ o \in Frame /\ role[o] = "one" /\ m.tab[r][0] = NonLeaf(o)
        /\ z \in Frame /\ role[z] = "zero" /\ m.tab[o][Vpn(q, 1)] = NonLeaf(z)
        /\ Entry(m, r, q) = m.tab[z][Vpn(q, 0)] /\ HasZero(m, role, r, q)
    BY <1>4 DEF EndsAtZero, HasZero, HasOne
  <2> HIDE DEF o, z
  <2>2. n.tab[r][0] = NonLeaf(o) /\ n.tab[o][Vpn(q, 1)] = NonLeaf(z)
    BY <1>0, <1>1, <2>1
  <2>3. Entry(n, r, q) = n.tab[z][Vpn(q, 0)]
    BY <2>2, EntryOf
  <2>4. n.tab[z][Vpn(q, 0)] = IF z = t /\ i = Vpn(q, 0) THEN pte ELSE m.tab[z][Vpn(q, 0)]
    BY <1>0, <2>1
  <2> QED BY <2>1, <2>3, <2>4 DEF z
<1> QED
  BY <1>2, <1>3, <1>4, PathIs

(* Two walks that end at the same frame of the pool are the same walk.     *)
LEMMA OneWalk ==
    ASSUME NEW m, NEW role, Shape(m, role),
           NEW r \in Frame, role[r] = "root", NEW q \in UserPage,
           NEW s \in Frame, role[s] = "root", NEW p \in UserPage,
           HasZero(m, role, r, q), HasZero(m, role, s, p),
           Zero(m, r, q) = Zero(m, s, p), Vpn(q, 0) = Vpn(p, 0)
    PROVE  r = s /\ q = p
<1>0. /\ 0 \in Idx /\ Vpn(q, 1) \in Idx /\ Vpn(q, 0) \in Idx
      /\ Vpn(p, 1) \in Idx /\ Vpn(p, 0) \in Idx
  BY UserPageIs
<1> DEFINE o == One(m, r)
<1> DEFINE u == One(m, s)
<1>1. /\ o \in Frame /\ role[o] = "one" /\ m.tab[r][0] = NonLeaf(o)
      /\ m.tab[o][Vpn(q, 1)] = NonLeaf(Zero(m, r, q)) /\ Zero(m, r, q) \in Frame
  BY DEF HasZero, HasOne
<1>2. /\ u \in Frame /\ role[u] = "one" /\ m.tab[s][0] = NonLeaf(u)
      /\ m.tab[u][Vpn(p, 1)] = NonLeaf(Zero(m, r, q))
  BY DEF HasZero, HasOne
<1> HIDE DEF o, u
<1>3. \A a, b \in Frame, i, j \in Idx :
        /\ role[a] \in TableRole /\ role[b] \in TableRole
        /\ m.tab[a][i].to \in Frame /\ m.tab[a][i].to = m.tab[b][j].to
        => a = b /\ i = j
  BY DEF Shape, Once
<1>4. /\ m.tab[o][Vpn(q, 1)].to = Zero(m, r, q) /\ m.tab[u][Vpn(p, 1)].to = Zero(m, r, q)
      /\ m.tab[r][0].to = o /\ m.tab[s][0].to = u
  BY <1>1, <1>2, NonLeafIs
<1>5. o = u /\ Vpn(q, 1) = Vpn(p, 1)
  BY <1>0, <1>1, <1>2, <1>3, <1>4 DEF TableRole
<1>6. r = s
  BY <1>0, <1>1, <1>3, <1>4, <1>5 DEF TableRole
<1>7. q \in 0 .. 3 /\ p \in 0 .. 3
  BY DEF UserPage, KernelPage
<1> QED
  BY <1>5, <1>6, <1>7, VpnApart

-----------------------------------------------------------------------------
(* map_page on the way down.  A memory extends another when only free      *)
(* frames have become tables and only empty entries have been filled,      *)
(* without any effect on what a space maps.                                *)

Extends(m, role, n, role2) ==
    /\ Shape(n, role2)
    /\ \A g \in Frame : role[g] # "free" => role2[g] = role[g] /\ n.data[g] = m.data[g]
    /\ \A g \in Frame : role[g] = "free" => role2[g] \in {"free", "one", "zero"}
    /\ \A t \in Frame, i \in Idx : role[t] \in TableRole /\ m.tab[t][i] # NoPte
          => n.tab[t][i] = m.tab[t][i]
    /\ \A r \in Frame, q \in UserPage : role[r] = "root"
          => Entry(n, r, q) = Entry(m, r, q)

LEMMA ExtendsSelf ==
    ASSUME NEW m, NEW role, Shape(m, role)
    PROVE  Extends(m, role, m, role)
BY DEF Extends

LEMMA ExtendsTrans ==
    ASSUME NEW a, NEW ra, NEW b, NEW rb, NEW c, NEW rc,
           Extends(a, ra, b, rb), Extends(b, rb, c, rc)
    PROVE  Extends(a, ra, c, rc)
<1>1. Shape(c, rc)
  BY DEF Extends
<1>2. \A g \in Frame : ra[g] # "free" => rc[g] = ra[g] /\ c.data[g] = a.data[g]
  BY DEF Extends
<1>3. \A g \in Frame : ra[g] = "free" => rc[g] \in {"free", "one", "zero"}
  BY DEF Extends
<1>4. ASSUME NEW t \in Frame, NEW i \in Idx, ra[t] \in TableRole, a.tab[t][i] # NoPte
      PROVE  c.tab[t][i] = a.tab[t][i]
  <2>1. rb[t] = ra[t]
    BY <1>4 DEF Extends, TableRole
  <2>2. b.tab[t][i] = a.tab[t][i]
    BY <1>4 DEF Extends
  <2>3. c.tab[t][i] = b.tab[t][i]
    BY <1>4, <2>1, <2>2 DEF Extends
  <2> QED BY <2>2, <2>3
<1>5. ASSUME NEW r \in Frame, NEW q \in UserPage, ra[r] = "root"
      PROVE  Entry(c, r, q) = Entry(a, r, q)
  <2>1. rb[r] = "root"
    BY <1>5 DEF Extends
  <2> QED BY <1>5, <2>1 DEF Extends
<1> QED
  BY <1>1, <1>2, <1>3, <1>4, <1>5 DEF Extends

LEMMA LinkExtends ==
    ASSUME NEW m, NEW role, Shape(m, role), NEW t \in Frame, NEW i \in Idx,
           role[t] \in {"root", "one"}, m.tab[t][i] = NoPte,
           NEW f \in Frame, f \notin m.taken,
           NEW n, n = SetEntry(Take(m, f), t, i, NonLeaf(f))
    PROVE  \E role2 : /\ Extends(m, role, n, role2)
                      /\ role2[f] = Under(role[t]) /\ n.tab[t][i] = NonLeaf(f)
<1>1. /\ m \in Mem /\ role \in [Frame -> Role] /\ role[f] = "free"
      /\ \A g \in Frame : g \in m.taken <=> role[g] # "free"
  BY ShapeTypes
<1> DEFINE a == Take(m, f)
<1> DEFINE ra == [role EXCEPT ![f] = "hand"]
<1>2. /\ a \in Mem /\ a.taken = m.taken \cup {f}
      /\ \A j \in Idx : a.tab[f][j] = NoPte
      /\ \A g \in Frame : g # f => a.tab[g] = m.tab[g]
      /\ \A g \in Frame : g # f => a.data[g] = m.data[g]
  BY <1>1, TakeIs
<1>3. /\ ra \in [Frame -> Role] /\ ra[f] = "hand"
      /\ \A g \in Frame : g # f => ra[g] = role[g]
  BY <1>1 DEF Role
<1> HIDE DEF a, ra
<1>4. Shape(a, ra)
  <2>1. \A g \in Frame : g \in a.taken <=> ra[g] # "free"
    BY <1>1, <1>2, <1>3
  <2>2. ~InTree("free") /\ ~InTree("hand")
    BY DEF InTree, TableRole, ChildRole
  <2>3. \A g \in Frame : InTree(role[g]) \/ InTree(ra[g]) =>
            ra[g] = role[g] /\ a.tab[g] = m.tab[g]
    BY <1>1, <1>2, <1>3, <2>2
  <2> QED BY <1>2, <1>3, <2>1, <2>3, Recolour
<1>5. f # t /\ ra[t] = role[t] /\ a.tab[t] = m.tab[t]
  BY <1>1, <1>2, <1>3
<1>6. Hangable(a, ra, t, i, f)
  BY <1>3, <1>5 DEF Hangable, TableRole
<1>7. NonLeaf(f) \in Pte /\ NonLeaf(f).to = f
  BY PteTypes, NonLeafIs
<1> DEFINE k == Under(role[t])
<1> DEFINE r2 == Attached(ra, f, k)
<1>8. k \in {"one", "zero"} /\ k \in ChildRole /\ k \in TableRole
  BY DEF Under, ChildRole, TableRole
<1>9. /\ r2 \in [Frame -> Role] /\ r2[f] = k
      /\ \A g \in Frame : g # f => r2[g] = ra[g]
  <2> HIDE DEF k
  <2> QED BY <1>4, <1>8, AttachedIs
<1>10. Good(r2, role[t], i, NonLeaf(f))
  <2>1. role[t] = "root" => i # 1
    <3>1. role[t] = "root" => Good(role, "root", i, m.tab[t][i])
      BY DEF Shape, Entries, TableRole
    <3>2. KernelPte # NoPte
      BY KernelPteIs, NoPteIs
    <3> QED BY <3>1, <3>2 DEF Good
  <2>2. NonLeafTo(r2, k, NonLeaf(f))
    BY <1>9 DEF NonLeafTo
  <2> HIDE DEF r2
  <2> QED BY <2>1, <2>2 DEF Good, Under
<1>11. n = SetEntry(a, t, i, NonLeaf(f))
  BY DEF a
<1>12. Shape(n, r2)
  <2>1. r2 = Attached(ra, f, Under(ra[t])) /\ Good(r2, ra[t], i, NonLeaf(f))
    BY <1>5, <1>10
  <2>2. \A j \in Idx : a.tab[f][j] = NoPte
    BY <1>2
  <2> HIDE DEF r2, k
  <2> QED BY <1>4, <1>6, <1>7, <1>11, <2>1, <2>2, AttachShape
<1>13. /\ n.data = a.data /\ n.tab[t][i] = NonLeaf(f)
       /\ \A g \in Frame, j \in Idx : ~(g = t /\ j = i) => n.tab[g][j] = a.tab[g][j]
  BY <1>2, <1>7, <1>11, EntryIs
<1> HIDE DEF r2, k
<1>14. \A g \in Frame : role[g] # "free" => r2[g] = role[g] /\ n.data[g] = m.data[g]
  BY <1>1, <1>2, <1>3, <1>9, <1>13
<1>15. \A g \in Frame : role[g] = "free" => r2[g] \in {"free", "one", "zero"}
  BY <1>1, <1>3, <1>8, <1>9
<1>16. ASSUME NEW s \in Frame, NEW j \in Idx, role[s] \in TableRole, m.tab[s][j] # NoPte
       PROVE  n.tab[s][j] = m.tab[s][j]
  <2>1. s # f /\ ~(s = t /\ j = i)
    BY <1>1, <1>16 DEF TableRole
  <2> QED BY <1>2, <1>13, <2>1
<1>17. ASSUME NEW r \in Frame, NEW q \in UserPage, role[r] = "root"
       PROVE  Entry(n, r, q) = Entry(m, r, q)
  <2>1. ra[r] = "root" /\ ra[t] \in {"root", "one"} /\ a.tab[t][i] = NoPte
    BY <1>1, <1>3, <1>5, <1>17
  <2>2. \A j \in Idx : a.tab[f][j] = NoPte
    BY <1>2
  <2>3. Entry(n, r, q) = Entry(a, r, q)
    BY <1>4, <1>5, <1>13, <2>1, <2>2, LinkEntry
  <2>4. SameTables(m, a, role)
    BY <1>1, <1>2 DEF TableRole, SameTables
  <2>5. Entry(a, r, q) = Entry(m, r, q)
    BY <1>17, <2>4, SameEntry
  <2> QED BY <2>3, <2>5
<1>18. Extends(m, role, n, r2)
  BY <1>12, <1>14, <1>15, <1>16, <1>17 DEF Extends
<1> QED
  BY <1>9, <1>13, <1>18 DEF k

(* One level down.                                                         *)
LEMMA DescendIs ==
    ASSUME NEW m, NEW t, NEW page, NEW level
    PROVE  LET x == [m |-> m, t |-> t, ok |-> TRUE]
               y == Descend(x, page, level)
               i == Vpn(page, level)
               pte == m.tab[t][i]
               f == Pick(Free(m))
           IN  \/ IsLeaf(pte) /\ y.ok = FALSE /\ y.m = m
               \/ IsTable(pte) /\ y.ok = TRUE /\ y.m = m /\ y.t = pte.to
               \/ ~pte.v /\ Free(m) = {} /\ y.ok = FALSE /\ y.m = m
               \/ /\ ~IsLeaf(pte) /\ ~IsTable(pte) /\ ~(~pte.v /\ Free(m) = {})
                  /\ y.ok = TRUE /\ y.t = f /\ y.m = SetEntry(Take(m, f), t, i, NonLeaf(f))
BY DEF Descend, SetEntry, IsLeaf, IsTable

At(m, t) == [m |-> m, t |-> t, ok |-> TRUE]

LEMMA StepDown ==
    ASSUME NEW m, NEW role, Shape(m, role), NEW t \in Frame,
           role[t] \in {"root", "one"}, NEW page, NEW level, Vpn(page, level) \in Idx,
           NEW y, y = Descend(At(m, t), page, level)
    PROVE  \E role2 : /\ Extends(m, role, y.m, role2)
                      /\ y.ok \in BOOLEAN
                      /\ y.ok => /\ y.t \in Frame /\ role2[y.t] = Under(role[t])
                                 /\ y.m.tab[t][Vpn(page, level)] = NonLeaf(y.t)
<1> DEFINE i == Vpn(page, level)
<1> DEFINE pte == m.tab[t][i]
<1> DEFINE f == Pick(Free(m))
<1>1. \/ IsLeaf(pte) /\ y.ok = FALSE /\ y.m = m
      \/ IsTable(pte) /\ y.ok = TRUE /\ y.m = m /\ y.t = pte.to
      \/ ~pte.v /\ Free(m) = {} /\ y.ok = FALSE /\ y.m = m
      \/ /\ ~IsLeaf(pte) /\ ~IsTable(pte) /\ ~(~pte.v /\ Free(m) = {})
         /\ y.ok = TRUE /\ y.t = f /\ y.m = SetEntry(Take(m, f), t, i, NonLeaf(f))
  BY ZenonT(40), DescendIs DEF At
<1>2. Good(role, role[t], i, pte)
  BY DEF Shape, Entries, TableRole
<1>3. \/ pte = KernelPte
      \/ NonLeafTo(role, Under(role[t]), pte)
  BY <1>2 DEF Good, Under
<1>4. CASE y.ok = FALSE /\ y.m = m
  BY <1>4, ExtendsSelf
<1>5. CASE IsTable(pte) /\ y.ok = TRUE /\ y.m = m /\ y.t = pte.to
  <2>1. PICK g \in Frame : role[g] = Under(role[t]) /\ pte = NonLeaf(g)
    BY <1>3, <1>5, KernelPteIs, NoPteIs DEF NonLeafTo
  <2>2. y.t = g
    BY <1>5, <2>1, NonLeafIs
  <2> QED BY <1>5, <2>1, <2>2, ExtendsSelf
<1>6. CASE /\ ~IsLeaf(pte) /\ ~IsTable(pte) /\ ~(~pte.v /\ Free(m) = {})
           /\ y.ok = TRUE /\ y.t = f /\ y.m = SetEntry(Take(m, f), t, i, NonLeaf(f))
  <2>1. pte = NoPte
    BY <1>3, <1>6, KernelPteIs, NonLeafIs DEF NonLeafTo
  <2>2. Free(m) # {}
    BY <1>6, <2>1, NoPteTo
  <2>3. f \in Frame /\ f \notin m.taken
    BY <2>2, PickIn
  <2> HIDE DEF f, i
  <2>4. i \in Idx
    BY DEF i
  <2>5. \E role2 : /\ Extends(m, role, y.m, role2)
                   /\ role2[f] = Under(role[t]) /\ y.m.tab[t][i] = NonLeaf(f)
    BY <1>6, <2>1, <2>3, <2>4, LinkExtends
  <2> QED BY <1>6, <2>3, <2>5 DEF i
<1> QED
  BY <1>1, <1>4, <1>5, <1>6

LEMMA WalkIs ==
    ASSUME NEW m, NEW role, Shape(m, role), NEW top \in Frame, role[top] = "root",
           NEW page \in Page, NEW y, y = Walk(m, top, page)
    PROVE  \E role2 : /\ Extends(m, role, y.m, role2)
                      /\ y.ok \in BOOLEAN
                      /\ y.ok => /\ page \in UserPage /\ y.t = Zero(y.m, top, page)
                                 /\ HasZero(y.m, role2, top, page)
<1> DEFINE x == Descend(At(m, top), page, 2)
<1>0. Vpn(page, 2) \in Idx /\ Vpn(page, 1) \in Idx
  BY VpnIs DEF Idx
<1>1. y = Descend(x, page, 1)
  BY DEF Walk, At
<1>2. PICK ra : /\ Extends(m, role, x.m, ra) /\ x.ok \in BOOLEAN
                /\ x.ok => /\ x.t \in Frame /\ ra[x.t] = Under(role[top])
                           /\ x.m.tab[top][Vpn(page, 2)] = NonLeaf(x.t)
  <2>1. role[top] \in {"root", "one"}
    OBVIOUS
  <2> QED BY <1>0, <2>1, StepDown
<1>3. x.ok => x = At(x.m, x.t)
  BY DescendIs, <1>2 DEF At, Descend
<1> HIDE DEF x
<1>4. CASE ~x.ok
  <2>1. y = x
    BY <1>1, <1>4 DEF Descend
  <2> QED BY <1>2, <1>4, <2>1
<1>5. CASE x.ok
  <2>1. ra[x.t] = "one" /\ x.t \in Frame /\ x.m.tab[top][Vpn(page, 2)] = NonLeaf(x.t)
    BY <1>2, <1>5 DEF Under
  <2>2. ra[top] = "root" /\ Shape(x.m, ra)
    BY <1>2 DEF Extends
  <2>3. page \in UserPage
    <3>1. CASE Vpn(page, 2) = 1
      <4>1. Good(ra, "root", 1, x.m.tab[top][1])
        BY <2>2, <3>1 DEF Shape, Entries, TableRole, Idx
      <4>2. KernelPte = NonLeaf(x.t)
        BY <2>1, <3>1, <4>1 DEF Good
      <4> QED BY <4>2, KernelPteIs, NonLeafIs
    <3>2. CASE Vpn(page, 2) # 1
      <4>1. page < KernelPage
        BY <3>2, VpnIs
      <4> QED BY <4>1 DEF UserPage, Page, KernelPage
    <3> QED BY <3>1, <3>2
  <2>4. PICK rb : /\ Extends(x.m, ra, y.m, rb) /\ y.ok \in BOOLEAN
                  /\ y.ok => /\ y.t \in Frame /\ rb[y.t] = Under(ra[x.t])
                             /\ y.m.tab[x.t][Vpn(page, 1)] = NonLeaf(y.t)
    <3>1. ra[x.t] \in {"root", "one"} /\ y = Descend(At(x.m, x.t), page, 1)
      BY <1>1, <1>3, <1>5, <2>1
    <3> QED BY <1>0, <2>1, <2>2, <3>1, StepDown
  <2>5. Extends(m, role, y.m, rb)
    BY <1>2, <2>4, ExtendsTrans
  <2>6. ASSUME y.ok
        PROVE  y.t = Zero(y.m, top, page) /\ HasZero(y.m, rb, top, page)
    <3>1. /\ y.t \in Frame /\ rb[y.t] = "zero"
          /\ y.m.tab[x.t][Vpn(page, 1)] = NonLeaf(y.t)
      BY <2>1, <2>4, <2>6 DEF Under
    <3>2. Vpn(page, 2) = 0 /\ 0 \in Idx
      BY <2>3, UserPageIs
    <3>3. y.m.tab[top][0] = NonLeaf(x.t)
      BY <2>1, <2>2, <2>4, <3>2, NonLeafNot DEF Extends, TableRole
    <3>4. One(y.m, top) = x.t
      BY <3>3, NonLeafIs DEF One
    <3>5. Zero(y.m, top, page) = y.t
      BY <3>1, <3>4, NonLeafIs DEF Zero
    <3>6. rb[x.t] = "one"
      BY <2>1, <2>4 DEF Extends
    <3> QED BY <2>1, <3>1, <3>3, <3>4, <3>5, <3>6 DEF HasZero, HasOne
  <2> QED BY <2>3, <2>4, <2>5, <2>6
<1> QED BY <1>4, <1>5

LEMMA ExtendsForest ==
    ASSUME NEW m, NEW R, NEW G, NEW L, NEW H, Forest(m, R, G, L, H), NEW role,
           Shape(m, role), Held(role, R, G, L, H), NEW n, NEW role2,
           Extends(m, role, n, role2)
    PROVE  Held(role2, R, G, L, H) /\ Forest(n, R, G, L, H) /\ Keeps(m, n, R)
<1>1. R \subseteq Frame /\ G \subseteq Frame /\ L \subseteq Frame /\ H \subseteq Frame
  BY DEF Forest
<1>2. Held(role2, R, G, L, H)
  BY DEF Held, Extends
<1>3. ASSUME NEW t \in R, NEW q \in UserPage
      PROVE  Show(n, t, q) = Show(m, t, q)
  <2>1. t \in Frame /\ role[t] = "root"
    BY <1>1 DEF Held
  <2>2. Entry(n, t, q) = Entry(m, t, q)
    BY <2>1 DEF Extends
  <2>3. SamePages(m, n, role)
    BY DEF Extends, SamePages
  <2> QED BY <2>1, <2>2, <2>3, SameShow
<1> QED
  BY <1>1, <1>2, <1>3 DEF Forest, Keeps, Extends

(* What a leaf shows.                                                      *)
LeafShow(m, f, p) ==
    IF p \cap RWX # {} THEN {<<IF f \in Frame THEN m.data[f] ELSE f, p>>} ELSE {}

(* The leaf goes in: the walk to its page shows it, every other walk shows *)
(* what it showed.                                                         *)
LEMMA LeafShape ==
    ASSUME NEW m, NEW role, Shape(m, role), NEW top \in Frame, role[top] = "root",
           NEW page \in UserPage, HasZero(m, role, top, page),
           NEW f, NEW perms, Fit(f, perms), f \in Frame => role[f] = "hand",
           NEW z, z = Zero(m, top, page), ~m.tab[z][Vpn(page, 0)].v,
           NEW n, n = SetEntry(m, z, Vpn(page, 0), LeafPte(f, perms)),
           NEW role2, role2 = Attached(role, f, "page")
    PROVE  /\ Shape(n, role2) /\ n.data = m.data
           /\ \A t \in Frame, q \in UserPage : role[t] = "root" =>
                 Show(n, t, q) = IF t = top /\ q = page THEN LeafShow(m, f, perms)
                                 ELSE Show(m, t, q)
<1> DEFINE i == Vpn(page, 0)
<1> DEFINE pte == LeafPte(f, perms)
<1>0. i \in Idx
  BY UserPageIs
<1>1. z \in Frame /\ role[z] = "zero" /\ m \in Mem /\ role \in [Frame -> Role]
  BY ShapeTypes DEF HasZero
<1>2. m.tab[z][i] = NoPte
  <2>1. Good(role, "zero", i, m.tab[z][i])
    BY <1>0, <1>1 DEF Shape, Entries, TableRole
  <2>2. PageTo(role, m.tab[z][i])
    BY <2>1 DEF Good
  <2> QED BY <2>2, LeafIs DEF PageTo
<1>3. Hangable(m, role, z, i, f)
  BY <1>0, <1>1, <1>2 DEF Hangable, TableRole
<1>4. perms \in SUBSET Perm /\ f \in Frame \cup {Window}
  BY DEF Fit, Perm, RWX
<1>5. pte \in Pte /\ pte.to = f
  BY <1>4, PteTypes, LeafIs
<1>6. Under(role[z]) = "page" /\ "page" \notin TableRole /\ "page" \in ChildRole
  BY <1>1 DEF Under, TableRole, ChildRole
<1>7. /\ f \in Frame => role2[f] = "page"
      /\ \A g \in Frame : g # f => role2[g] = role[g]
  BY <1>6, AttachedIs
<1>8. Good(role2, role[z], i, pte)
  <2>1. PageTo(role2, pte)
    BY <1>4, <1>7 DEF PageTo
  <2> QED BY <1>1, <2>1 DEF Good
<1> HIDE DEF i, pte
<1>9. n = SetEntry(m, z, i, pte)
  BY DEF i, pte
<1>10. Shape(n, role2)
  BY <1>3, <1>5, <1>6, <1>8, <1>9, AttachShape
<1>11. /\ n.data = m.data /\ n.tab[z][i] = pte
       /\ \A g \in Frame, j \in Idx : ~(g = z /\ j = i) => n.tab[g][j] = m.tab[g][j]
  BY <1>0, <1>1, <1>5, <1>9, EntryIs
<1>12. ASSUME NEW t \in Frame, NEW q \in UserPage, role[t] = "root"
       PROVE  Show(n, t, q) = IF t = top /\ q = page THEN LeafShow(m, f, perms)
                              ELSE Show(m, t, q)
  <2>1. Entry(n, t, q) = IF HasZero(m, role, t, q) /\ Zero(m, t, q) = z /\ i = Vpn(q, 0)
                         THEN pte ELSE Entry(m, t, q)
    BY <1>0, <1>1, <1>11, <1>12, LeafEntry
  <2>2. CASE t = top /\ q = page
    <3>1. Entry(n, t, q) = pte
      BY <2>1, <2>2 DEF i
    <3>2. Show(n, t, q) = LeafShow(m, f, perms)
      <4>1. /\ pte.to = f /\ pte.p = perms
            /\ IsLeaf(pte) <=> perms \cap RWX # {}
        BY LeafIs DEF pte
      <4>2. n.data = m.data
        BY <1>11
      <4> QED BY <3>1, <4>1, <4>2 DEF Show, LeafShow
    <3> QED BY <2>2, <3>2
  <2>3. CASE ~(t = top /\ q = page)
    <3>1. ~(HasZero(m, role, t, q) /\ Zero(m, t, q) = z /\ i = Vpn(q, 0))
      BY <1>12, <2>3, OneWalk DEF i
    <3>2. Entry(n, t, q) = Entry(m, t, q)
      BY <2>1, <3>1
    <3>3. SamePages(m, n, role)
      BY <1>11 DEF SamePages
    <3>4. Show(n, t, q) = Show(m, t, q)
      BY <1>12, <3>2, <3>3, SameShow
    <3> QED BY <2>3, <3>4
  <2> QED BY <2>2, <2>3
<1> QED
  BY <1>10, <1>11, <1>12

Mapped(m, R, G, L, H, top, page, f, perms, n) ==
    /\ Forest(n, R, G, L, H \ {f}) /\ page \in UserPage
    /\ \A t \in R, q \in UserPage :
          Show(n, t, q) = IF t = top /\ q = page THEN LeafShow(m, f, perms)
                          ELSE Show(m, t, q)

(* map_page: it maps the page and nothing else, or leaves tables behind.   *)
LEMMA MapForest ==
    ASSUME NEW m, NEW R, NEW G, NEW L, NEW H, Forest(m, R, G, L, H),
           NEW top \in R, NEW page \in Page, NEW f \in H \cup {Window},
           NEW perms, Fit(f, perms), NEW y, y = MapPage(m, top, page, f, perms)
    PROVE  /\ y.ok \in BOOLEAN
           /\ ~y.ok => Forest(y.m, R, G, L, H) /\ Keeps(m, y.m, R)
           /\ y.ok => Mapped(m, R, G, L, H, top, page, f, perms, y.m)
<1>1. PICK role : Shape(m, role) /\ Held(role, R, G, L, H)
  BY DEF Forest
<1>2. R \subseteq Frame /\ G \subseteq Frame /\ L \subseteq Frame /\ H \subseteq Frame
  BY DEF Forest
<1>3. top \in Frame /\ role[top] = "root"
  BY <1>1, <1>2 DEF Held
<1>4. f \in Frame => f \in H /\ role[f] = "hand"
  BY <1>1, Outside DEF Held
<1> DEFINE x == Walk(m, top, page)
<1>5. PICK ra : /\ Extends(m, role, x.m, ra) /\ x.ok \in BOOLEAN
                /\ x.ok => /\ page \in UserPage /\ x.t = Zero(x.m, top, page)
                           /\ HasZero(x.m, ra, top, page)
  BY <1>1, <1>3, WalkIs
<1>6. y = IF ~x.ok \/ x.m.tab[x.t][Vpn(page, 0)].v THEN [m |-> x.m, ok |-> FALSE]
          ELSE [m |-> SetEntry(x.m, x.t, Vpn(page, 0), LeafPte(f, perms)), ok |-> TRUE]
  BY DEF MapPage, SetEntry
<1> HIDE DEF x
<1>7. Held(ra, R, G, L, H) /\ Forest(x.m, R, G, L, H) /\ Keeps(m, x.m, R)
  BY <1>1, <1>5, ExtendsForest
<1>8. CASE ~x.ok \/ x.m.tab[x.t][Vpn(page, 0)].v
  <2>1. y.ok = FALSE /\ y.m = x.m
    BY <1>6, <1>8
  <2> QED BY <1>7, <2>1
<1>9. CASE ~(~x.ok \/ x.m.tab[x.t][Vpn(page, 0)].v)
  <2>1. y.ok = TRUE /\ y.m = SetEntry(x.m, x.t, Vpn(page, 0), LeafPte(f, perms))
    BY <1>6, <1>9
  <2>2. /\ page \in UserPage /\ x.t = Zero(x.m, top, page)
        /\ HasZero(x.m, ra, top, page) /\ ~x.m.tab[x.t][Vpn(page, 0)].v
    BY <1>5, <1>9
  <2>3. Shape(x.m, ra) /\ ra[top] = "root" /\ (f \in Frame => ra[f] = "hand")
    BY <1>3, <1>4, <1>5 DEF Extends
  <2> DEFINE rb == Attached(ra, f, "page")
  <2>4. /\ Shape(y.m, rb)
        /\ \A t \in Frame, q \in UserPage : ra[t] = "root" =>
              Show(y.m, t, q) = IF t = top /\ q = page THEN LeafShow(x.m, f, perms)
                                ELSE Show(x.m, t, q)
    BY <1>3, <2>1, <2>2, <2>3, LeafShape
  <2>5. Held(rb, R, G, L, H \ {f})
    <3>1. \A g \in Frame : rb[g] = IF g = f THEN "page" ELSE ra[g]
      BY DEF Attached
    <3> HIDE DEF rb
    <3> QED BY <1>7, <2>3, <3>1 DEF Held
  <2>6. Forest(y.m, R, G, L, H \ {f})
    BY <1>2, <2>4, <2>5 DEF Forest
  <2>7. LeafShow(x.m, f, perms) = LeafShow(m, f, perms)
    <3>1. f \in Frame => x.m.data[f] = m.data[f]
      BY <1>4, <1>5 DEF Extends
    <3> QED BY <3>1 DEF LeafShow
  <2>8. ASSUME NEW t \in R, NEW q \in UserPage
        PROVE  Show(y.m, t, q) = IF t = top /\ q = page THEN LeafShow(m, f, perms)
                                 ELSE Show(m, t, q)
    <3>1. t \in Frame /\ ra[t] = "root" /\ Show(x.m, t, q) = Show(m, t, q)
      BY <1>2, <1>7 DEF Held, Keeps
    <3> QED BY <2>4, <2>7, <3>1
  <2>9. Mapped(m, R, G, L, H, top, page, f, perms, y.m)
    BY <2>2, <2>6, <2>8 DEF Mapped
  <2> QED BY <2>1, <2>9
<1> QED BY <1>8, <1>9

-----------------------------------------------------------------------------
(* The tree under a root.                                                  *)

LEMMA TablesIs ==
    ASSUME NEW m, NEW S, NEW g
    PROVE  /\ g \in Tables(m, S) <=>
                 \E s \in S, i \in Idx : IsTable(m.tab[s][i]) /\ m.tab[s][i].to = g
           /\ g \in Leaves(m, S) <=>
                 \E s \in S, i \in Idx : IsLeaf(m.tab[s][i]) /\ m.tab[s][i].to = g
<1>1. ASSUME NEW x
      PROVE  x \in Below(m, S) <=> \E s \in S, i \in Idx : x = m.tab[s][i]
  <2>1. x \in Below(m, S) <=> \E u \in S \X Idx : x = m.tab[u[1]][u[2]]
    BY DEF Below
  <2>2. \A s \in S, i \in Idx :
            <<s, i>> \in S \X Idx /\ <<s, i>>[1] = s /\ <<s, i>>[2] = i
    OBVIOUS
  <2>3. \A u \in S \X Idx : u[1] \in S /\ u[2] \in Idx
    OBVIOUS
  <2>4. ASSUME x \in Below(m, S)
        PROVE  \E s \in S, i \in Idx : x = m.tab[s][i]
    <3>1. PICK u \in S \X Idx : x = m.tab[u[1]][u[2]]
      BY <2>1, <2>4
    <3>2. u[1] \in S /\ u[2] \in Idx
      BY <2>3
    <3> QED BY <3>1, <3>2
  <2>5. ASSUME NEW s \in S, NEW i \in Idx, x = m.tab[s][i]
        PROVE  x \in Below(m, S)
    <3>1. <<s, i>> \in S \X Idx /\ x = m.tab[<<s, i>>[1]][<<s, i>>[2]]
      BY <2>2, <2>5
    <3> QED BY <2>1, <3>1
  <2> QED BY <2>4, <2>5
<1>2. g \in Tables(m, S) <=> \E x \in Below(m, S) : IsTable(x) /\ x.to = g
  BY DEF Tables
<1>3. g \in Leaves(m, S) <=> \E x \in Below(m, S) : IsLeaf(x) /\ x.to = g
  BY DEF Leaves
<1> QED
  BY <1>1, <1>2, <1>3

(* What the entries of a table of each level can be.                       *)
LEMMA KindsIs ==
    ASSUME NEW m, NEW role, Shape(m, role), NEW t \in Frame, NEW i \in Idx,
           role[t] \in TableRole
    PROVE  /\ role[t] \in {"root", "one"} =>
                /\ IsTable(m.tab[t][i]) <=> m.tab[t][i].to \in Frame
                /\ m.tab[t][i].to \in Frame => ~IsLeaf(m.tab[t][i])
           /\ role[t] = "zero" => (m.tab[t][i].to \in Frame =>
                                      IsTable(m.tab[t][i]) \/ IsLeaf(m.tab[t][i]))
           /\ role[t] = "zero" => (IsTable(m.tab[t][i]) => m.tab[t][i].to \in Frame)
           /\ ~(IsTable(m.tab[t][i]) /\ IsLeaf(m.tab[t][i]))
<1> DEFINE pte == m.tab[t][i]
<1>1. Good(role, role[t], i, pte)
  BY DEF Shape, Entries
<1>2. ~(IsTable(pte) /\ IsLeaf(pte))
  BY DEF IsTable, IsLeaf
<1>3. ASSUME role[t] \in {"root", "one"}
      PROVE  /\ IsTable(pte) <=> pte.to \in Frame
             /\ pte.to \in Frame => ~IsLeaf(pte)
  <2>1. pte = KernelPte \/ pte = NoPte \/ \E f \in Frame : pte = NonLeaf(f)
    BY <1>1, <1>3 DEF Good, NonLeafTo
  <2> QED BY <2>1, KernelPteIs, NoPteIs, NoPteTo, NonLeafIs
<1>4. ASSUME role[t] = "zero"
      PROVE  /\ pte.to \in Frame => IsTable(pte) \/ IsLeaf(pte)
             /\ IsTable(pte) => pte.to \in Frame
  <2>1. PageTo(role, pte)
    BY <1>1, <1>4 DEF Good
  <2>2. CASE pte = NoPte
    BY <2>2, NoPteTo, NoPteIs
  <2>3. ASSUME NEW f \in Frame \cup {Window}, NEW p, Fit(f, p), pte = LeafPte(f, p)
        PROVE  /\ pte.to \in Frame => IsTable(pte) \/ IsLeaf(pte)
               /\ IsTable(pte) => pte.to \in Frame
    <3>1. f = Window => "R" \in p \cap RWX
      BY <2>3 DEF Fit, RWX
    <3> QED BY <2>3, <3>1, LeafIs
  <2> QED BY <2>1, <2>2, <2>3 DEF PageTo
<1> QED
  BY <1>2, <1>3, <1>4

LEMMA LevelsIs ==
    ASSUME NEW m, NEW role, Shape(m, role), NEW top \in Frame, role[top] = "root"
    PROVE  /\ \A g : g \in Level1(m, top) <=>
                        g \in Frame /\ \E i \in Idx : m.tab[top][i].to = g
           /\ \A g \in Level1(m, top) : role[g] = "one"
           /\ \A g : g \in Level0(m, top) <=>
                        g \in Frame /\ \E t \in Level1(m, top), i \in Idx : m.tab[t][i].to = g
           /\ \A g \in Level0(m, top) : role[g] = "zero"
<1>1. ASSUME NEW g
      PROVE  g \in Level1(m, top) <=> g \in Frame /\ \E i \in Idx : m.tab[top][i].to = g
  <2>1. \A i \in Idx : IsTable(m.tab[top][i]) <=> m.tab[top][i].to \in Frame
    BY KindsIs DEF TableRole
  <2>2. g \in Level1(m, top) <=>
          \E s \in {top}, i \in Idx : IsTable(m.tab[s][i]) /\ m.tab[s][i].to = g
    BY TablesIs DEF Level1
  <2> QED BY <2>1, <2>2
<1>2. ASSUME NEW g \in Level1(m, top)
      PROVE  role[g] = "one" /\ g \in Frame
  <2>1. PICK i \in Idx : m.tab[top][i].to = g /\ g \in Frame
    BY <1>1
  <2>2. role[m.tab[top][i].to] = Under("root")
    BY <2>1, ShapeDown DEF TableRole
  <2> QED BY <2>1, <2>2 DEF Under
<1>3. ASSUME NEW g
      PROVE  g \in Level0(m, top) <=>
                g \in Frame /\ \E t \in Level1(m, top), i \in Idx : m.tab[t][i].to = g
  <2>1. \A t \in Level1(m, top), i \in Idx :
            IsTable(m.tab[t][i]) <=> m.tab[t][i].to \in Frame
    BY <1>2, KindsIs DEF TableRole
  <2>2. g \in Level0(m, top) <=>
          \E s \in Level1(m, top), i \in Idx : IsTable(m.tab[s][i]) /\ m.tab[s][i].to = g
    BY TablesIs DEF Level0
  <2> QED BY <2>1, <2>2
<1>4. ASSUME NEW g \in Level0(m, top)
      PROVE  role[g] = "zero"
  <2>1. PICK t \in Level1(m, top), i \in Idx : m.tab[t][i].to = g /\ g \in Frame
    BY <1>3
  <2>2. role[m.tab[t][i].to] = Under("one")
    BY <1>2, <2>1, ShapeDown DEF TableRole
  <2> QED BY <2>1, <2>2 DEF Under
<1> QED
  BY <1>1, <1>2, <1>3, <1>4

(* The last level: what destroy frees there and what it steps over.        *)
LEMMA PagesIs ==
    ASSUME NEW m, NEW role, Shape(m, role), NEW top \in Frame, role[top] = "root"
    PROVE  /\ \A g : g \in Unreadable(m, top) <=>
                \E t \in Level0(m, top), i \in Idx : IsTable(m.tab[t][i]) /\ m.tab[t][i].to = g
           /\ \A g : g \in Destroyed(m, top) <=>
                \/ g = top
                \/ g \in Level1(m, top)
                \/ g \in Level0(m, top)
                \/ /\ g \in Frame
                   /\ \E t \in Level0(m, top), i \in Idx : IsLeaf(m.tab[t][i]) /\ m.tab[t][i].to = g
<1>0. /\ \A g \in Level1(m, top) : g \in Frame /\ role[g] = "one"
      /\ \A g \in Level0(m, top) : g \in Frame /\ role[g] = "zero"
  BY LevelsIs
<1>1. \A g : g \in Unreadable(m, top) <=>
         \E t \in Level0(m, top), i \in Idx : IsTable(m.tab[t][i]) /\ m.tab[t][i].to = g
  BY TablesIs DEF Unreadable
<1>2. ASSUME NEW g
      PROVE  g \in Leaves(m, Level1(m, top) \cup Level0(m, top)) /\ g \in Frame <=>
                /\ g \in Frame
                /\ \E t \in Level0(m, top), i \in Idx : IsLeaf(m.tab[t][i]) /\ m.tab[t][i].to = g
  <2>1. \A t \in Level1(m, top), i \in Idx : m.tab[t][i].to \in Frame => ~IsLeaf(m.tab[t][i])
    BY <1>0, KindsIs DEF TableRole
  <2>2. g \in Leaves(m, Level1(m, top) \cup Level0(m, top)) <=>
           \E t \in Level1(m, top) \cup Level0(m, top), i \in Idx :
              IsLeaf(m.tab[t][i]) /\ m.tab[t][i].to = g
    BY TablesIs
  <2> QED BY <2>1, <2>2
<1>3. ASSUME NEW g
      PROVE  g \in Destroyed(m, top) <=>
                \/ g = top
                \/ g \in Level1(m, top)
                \/ g \in Level0(m, top)
                \/ g \in Leaves(m, Level1(m, top) \cup Level0(m, top)) /\ g \in Frame
  BY <1>0 DEF Destroyed, TableFrames
<1> QED
  BY <1>1, <1>2, <1>3

(* A tree is closed: an entry of one of its tables leads into it, and no   *)
(* entry of another table does.                                            *)
Closed(m, role, top, D, U) ==
    /\ D \subseteq Frame /\ U \subseteq Frame /\ D \cap U = {} /\ top \in D
    /\ \A g \in D \cup U : role[g] \in ChildRole \/ g = top
    /\ \A t \in Frame, i \in Idx :
          role[t] \in TableRole /\ m.tab[t][i].to \in Frame =>
             (t \in D \cup U <=> m.tab[t][i].to \in D \cup U)

LEMMA TreeClosed ==
    ASSUME NEW m, NEW role, Shape(m, role), NEW top \in Frame, role[top] = "root"
    PROVE  Closed(m, role, top, Destroyed(m, top), Unreadable(m, top))
<1> DEFINE A == Level1(m, top)
<1> DEFINE B == Level0(m, top)
<1> DEFINE D == Destroyed(m, top)
<1> DEFINE U == Unreadable(m, top)
<1>1. /\ \A g : g \in A <=> g \in Frame /\ \E i \in Idx : m.tab[top][i].to = g
      /\ \A g \in A : role[g] = "one"
      /\ \A g : g \in B <=> g \in Frame /\ \E t \in A, i \in Idx : m.tab[t][i].to = g
      /\ \A g \in B : role[g] = "zero"
  BY LevelsIs
<1>2. /\ \A g : g \in U <=>
            \E t \in B, i \in Idx : IsTable(m.tab[t][i]) /\ m.tab[t][i].to = g
      /\ \A g : g \in D <=>
            \/ g = top \/ g \in A \/ g \in B
            \/ g \in Frame /\ \E t \in B, i \in Idx : IsLeaf(m.tab[t][i]) /\ m.tab[t][i].to = g
  BY PagesIs
<1> HIDE DEF A, B, D, U
<1>3. ASSUME NEW t \in B, NEW i \in Idx
      PROVE  /\ t \in Frame /\ role[t] \in TableRole
             /\ IsTable(m.tab[t][i]) => m.tab[t][i].to \in Frame
             /\ m.tab[t][i].to \in Frame => role[m.tab[t][i].to] = "page"
             /\ m.tab[t][i].to \in Frame => IsTable(m.tab[t][i]) \/ IsLeaf(m.tab[t][i])
             /\ ~(IsTable(m.tab[t][i]) /\ IsLeaf(m.tab[t][i]))
  <2>1. t \in Frame /\ role[t] = "zero" /\ role[t] \in TableRole
    BY <1>1 DEF TableRole
  <2>2. m.tab[t][i].to \in Frame => role[m.tab[t][i].to] = "page"
    BY <2>1, ShapeDown DEF Under
  <2> QED BY <2>1, <2>2, KindsIs
<1>4. Once(m, role)
  BY DEF Shape
<1>5. D \subseteq Frame /\ U \subseteq Frame /\ top \in D
  BY <1>1, <1>2, <1>3
<1>6. \A g \in U : role[g] = "page"
  BY <1>2, <1>3
<1>7. \A g \in D : g = top \/ role[g] \in ChildRole
  BY <1>1, <1>2, <1>3 DEF ChildRole
<1>8. D \cap U = {}
  <2>1. ASSUME NEW g \in D, g \in U
        PROVE  FALSE
    <3>1. PICK t \in B, i \in Idx : IsTable(m.tab[t][i]) /\ m.tab[t][i].to = g
      BY <1>2, <2>1
    <3>2. role[g] = "page" /\ g \in Frame
      BY <1>5, <1>6, <2>1
    <3>3. PICK s \in B, j \in Idx : IsLeaf(m.tab[s][j]) /\ m.tab[s][j].to = g
      BY <1>1, <1>2, <2>1, <3>2
    <3>4. s = t /\ i = j
      BY <1>3, <1>4, <3>1, <3>2, <3>3 DEF Once
    <3> QED BY <1>3, <3>1, <3>3, <3>4
  <2> QED BY <2>1
<1>9. ASSUME NEW t \in Frame, NEW i \in Idx, role[t] \in TableRole,
             m.tab[t][i].to \in Frame, t \in D \cup U
      PROVE  m.tab[t][i].to \in D \cup U
  <2>1. role[t] # "page"
    BY <1>9 DEF TableRole
  <2>2. t = top \/ t \in A \/ t \in B
    BY <1>2, <1>3, <1>6, <1>9, <2>1
  <2>3. CASE t = top
    BY <1>1, <1>2, <1>9, <2>3
  <2>4. CASE t \in A
    BY <1>1, <1>2, <1>9, <2>4
  <2>5. CASE t \in B
    BY <1>2, <1>3, <1>9, <2>5
  <2> QED BY <2>2, <2>3, <2>4, <2>5
<1>10. ASSUME NEW t \in Frame, NEW i \in Idx, role[t] \in TableRole,
              m.tab[t][i].to \in Frame, m.tab[t][i].to \in D \cup U
       PROVE  t \in D \cup U
  <2> DEFINE g == m.tab[t][i].to
  <2>1. role[g] \in ChildRole
    BY <1>10, ShapeDown
  <2>2. g # top
    BY <2>1 DEF ChildRole
  <2>3. \A s \in Frame, j \in Idx : role[s] \in TableRole /\ m.tab[s][j].to = g => s = t
    BY <1>4, <1>10 DEF Once
  <2>4. \/ g \in A
        \/ g \in B
        \/ \E s \in B, j \in Idx : m.tab[s][j].to = g
    BY <1>2, <1>10, <2>2
  <2> HIDE DEF g
  <2>5. CASE g \in A
    <3>1. PICK j \in Idx : m.tab[top][j].to = g
      BY <1>1, <2>5
    <3>2. top = t
      BY <2>3, <3>1 DEF TableRole
    <3> QED BY <1>5, <3>2
  <2>6. CASE g \in B
    <3>1. PICK s \in A, j \in Idx : m.tab[s][j].to = g
      BY <1>1, <2>6
    <3>2. s = t
      BY <1>1, <2>3, <3>1 DEF TableRole
    <3> QED BY <1>2, <3>2
  <2>7. CASE \E s \in B, j \in Idx : m.tab[s][j].to = g
    <3>1. PICK s \in B, j \in Idx : m.tab[s][j].to = g
      BY <2>7
    <3>2. s = t
      BY <1>3, <2>3, <3>1
    <3> QED BY <1>2, <3>2
  <2> QED BY <2>4, <2>5, <2>6, <2>7
<1>11. Closed(m, role, top, D, U)
  BY <1>5, <1>6, <1>7, <1>8, <1>9, <1>10 DEF Closed, ChildRole
<1> QED
  BY <1>11 DEF D, U

Cut(role, D, U) ==
    [g \in Frame |-> IF g \in D THEN "free" ELSE IF g \in U THEN "lost" ELSE role[g]]

LEMMA CutShape ==
    ASSUME NEW m, NEW role, Shape(m, role), NEW top, role[top] = "root", NEW D, NEW U,
           Closed(m, role, top, D, U), NEW n, n = Give(m, D),
           NEW role2, role2 = Cut(role, D, U)
    PROVE  Shape(n, role2)
<1>1. /\ m \in Mem /\ role \in [Frame -> Role]
      /\ \A g \in Frame : g \in m.taken <=> role[g] # "free"
  BY ShapeTypes
<1>2. /\ n \in Mem /\ n.taken = m.taken \ D
      /\ \A g \in Frame : g \notin D => n.tab[g] = m.tab[g]
  BY <1>1, GiveIs
<1>3. /\ D \subseteq Frame /\ U \subseteq Frame /\ D \cap U = {}
      /\ \A g \in D \cup U : role[g] \in ChildRole \/ role[g] = "root"
      /\ \A t \in Frame, i \in Idx :
            role[t] \in TableRole /\ m.tab[t][i].to \in Frame =>
               (t \in D \cup U <=> m.tab[t][i].to \in D \cup U)
  BY DEF Closed
<1>4. role2 \in [Frame -> Role]
  BY <1>1 DEF Cut, Role
<1>5. \A g \in Frame : role2[g] = IF g \in D THEN "free" ELSE IF g \in U THEN "lost" ELSE role[g]
  BY DEF Cut
<1>6. \A g \in Frame : g \in n.taken <=> role2[g] # "free"
  BY <1>1, <1>2, <1>3, <1>5 DEF ChildRole
<1>7. \A g \in Frame : InTree(role2[g]) => g \notin D \cup U /\ role2[g] = role[g]
  BY <1>5 DEF InTree, TableRole, ChildRole
<1>8. Entries(n, role2)
  <2>1. ASSUME NEW t \in Frame, NEW i \in Idx, role2[t] \in TableRole
        PROVE  Good(role2, role2[t], i, n.tab[t][i])
    <3>1. t \notin D \cup U /\ role2[t] = role[t] /\ n.tab[t] = m.tab[t] /\ role[t] \in TableRole
      BY <1>2, <1>7, <2>1 DEF InTree
    <3>2. Good(role, role[t], i, m.tab[t][i])
      BY <3>1 DEF Shape, Entries
    <3>3. m.tab[t][i].to \in Frame => role2[m.tab[t][i].to] = role[m.tab[t][i].to]
      BY <1>3, <1>5, <3>1
    <3>4. Good(role2, role[t], i, m.tab[t][i])
      BY <3>2, <3>3, GoodStays
    <3> QED BY <3>1, <3>4
  <2> QED BY <2>1 DEF Entries
<1>9. Named(n, role2)
  <2>1. ASSUME NEW g \in Frame, role2[g] \in ChildRole
        PROVE  \E t \in Frame, i \in Idx : role2[t] \in TableRole /\ n.tab[t][i].to = g
    <3>1. g \notin D \cup U /\ role[g] \in ChildRole
      BY <1>7, <2>1 DEF InTree
    <3>2. PICK t \in Frame, i \in Idx : role[t] \in TableRole /\ m.tab[t][i].to = g
      BY <3>1 DEF Shape, Named
    <3>3. t \notin D \cup U
      BY <1>3, <3>1, <3>2
    <3>4. role2[t] = role[t] /\ n.tab[t] = m.tab[t]
      BY <1>2, <1>5, <3>3
    <3> QED BY <3>2, <3>4
  <2> QED BY <2>1 DEF Named
<1>10. Once(n, role2)
  <2>1. \A t \in Frame : role2[t] \in TableRole =>
            role[t] \in TableRole /\ n.tab[t] = m.tab[t]
    BY <1>2, <1>7 DEF InTree
  <2>2. Once(m, role)
    BY DEF Shape
  <2> QED BY <2>1, <2>2 DEF Once
<1> QED
  BY <1>2, <1>4, <1>6, <1>8, <1>9, <1>10 DEF Shape

(* destroy: the other spaces show what they showed, and only the frames    *)
(* behind entries without R, W or X are lost.                              *)
LEMMA CutForest ==
    ASSUME NEW m, NEW R, NEW G, NEW L, NEW H, Forest(m, R, G, L, H), NEW top \in R,
           NEW n, n = Give(m, Destroyed(m, top))
    PROVE  /\ Forest(n, R \ {top}, G, L \cup Unreadable(m, top), H)
           /\ Keeps(m, n, R \ {top})
<1>1. PICK role : Shape(m, role) /\ Held(role, R, G, L, H)
  BY DEF Forest
<1>2. R \subseteq Frame /\ G \subseteq Frame /\ L \subseteq Frame /\ H \subseteq Frame
  BY DEF Forest
<1>3. top \in Frame /\ role[top] = "root"
  BY <1>1, <1>2 DEF Held
<1> DEFINE D == Destroyed(m, top)
<1> DEFINE U == Unreadable(m, top)
<1>4. Closed(m, role, top, D, U)
  BY <1>1, <1>3, TreeClosed
<1>5. n = Give(m, D)
  OBVIOUS
<1> HIDE DEF D, U
<1> DEFINE role2 == Cut(role, D, U)
<1>6. Shape(n, role2)
  BY <1>1, <1>3, <1>4, <1>5, CutShape
<1>7. \A g \in Frame : role2[g] = IF g \in D THEN "free" ELSE IF g \in U THEN "lost" ELSE role[g]
  BY DEF Cut
<1> HIDE DEF role2
<1>8. /\ D \subseteq Frame /\ U \subseteq Frame /\ D \cap U = {} /\ top \in D
      /\ \A g \in D \cup U : role[g] \in ChildRole \/ g = top
  BY <1>4 DEF Closed
<1>9. Held(role2, R \ {top}, G, L \cup U, H)
  BY <1>1, <1>3, <1>7, <1>8 DEF Held, ChildRole
<1>10. /\ \A g \in Frame : g \notin D => n.tab[g] = m.tab[g]
       /\ \A g \in Frame : g \notin D => n.data[g] = m.data[g]
  BY <1>1, <1>5, ShapeTypes, GiveIs
<1>11. ASSUME NEW t \in R \ {top}, NEW q \in UserPage
       PROVE  Show(n, t, q) = Show(m, t, q)
  <2>1. t \in Frame /\ role2[t] = "root"
    BY <1>2, <1>9 DEF Held
  <2>2. SameTables(n, m, role2)
    BY <1>7, <1>10 DEF TableRole, SameTables
  <2>3. Entry(m, t, q) = Entry(n, t, q)
    BY <1>6, <2>1, <2>2, SameEntry
  <2>4. SamePages(n, m, role2)
    BY <1>7, <1>10 DEF SamePages
  <2>5. Show(m, t, q) = Show(n, t, q)
    BY <1>6, <2>1, <2>3, <2>4, SameShow
  <2> QED BY <2>5
<1> QED
  BY <1>2, <1>6, <1>8, <1>9, <1>11 DEF Forest, Keeps, U

-----------------------------------------------------------------------------
(* What a forest promises.                                                 *)

(* A frame of the pool that is not free has an owner.                      *)
LEMMA ForestAccounts ==
    ASSUME NEW m, NEW R, NEW G, NEW L, Forest(m, R, G, L, {})
    PROVE  m.taken = (UNION {Owned(m, t) : t \in R}) \cup G \cup L
<1>1. PICK role : Shape(m, role) /\ Held(role, R, G, L, {})
  BY DEF Forest
<1>2. R \subseteq Frame /\ G \subseteq Frame /\ L \subseteq Frame
  BY DEF Forest
<1>3. /\ m \in Mem /\ role \in [Frame -> Role] /\ m.taken \subseteq Frame
      /\ \A g \in Frame : g \in m.taken <=> role[g] # "free"
  BY <1>1, ShapeTypes DEF Mem
<1>4. ASSUME NEW t \in R
      PROVE  t \in Frame /\ role[t] = "root"
  BY <1>1, <1>2 DEF Held
<1>5. ASSUME NEW t \in R, NEW g \in Owned(m, t)
      PROVE  g \in m.taken
  <2>1. Closed(m, role, t, Destroyed(m, t), Unreadable(m, t))
    BY <1>1, <1>4, TreeClosed
  <2>2. g \in Frame /\ (role[g] \in ChildRole \/ g = t)
    BY <2>1 DEF Closed, Owned
  <2> QED BY <1>3, <1>4, <2>2 DEF ChildRole
<1>6. ASSUME NEW g \in Frame, role[g] \in TableRole
      PROVE  \E t \in R : g \in Owned(m, t) /\ (role[g] = "one" => g \in Level1(m, t))
                                /\ (role[g] = "zero" => g \in Level0(m, t))
  <2>1. CASE role[g] = "root"
    <3>1. g \in R
      BY <1>1, <2>1 DEF Held
    <3>2. g \in Owned(m, g)
      BY <1>1, <2>1, PagesIs DEF Owned
    <3> QED BY <2>1, <3>1, <3>2
  <2>2. ASSUME NEW h \in Frame, role[h] = "one"
        PROVE  \E t \in R : h \in Level1(m, t)
    <3>1. PICK t \in Frame, i \in Idx : role[t] \in TableRole /\ m.tab[t][i].to = h
      BY <1>1, <2>2 DEF Shape, Named, ChildRole
    <3>2. Under(role[t]) = "one"
      BY <1>1, <2>2, <3>1, ShapeDown
    <3>3. role[t] = "root"
      BY <3>1, <3>2 DEF Under, TableRole
    <3>4. t \in R
      BY <1>1, <3>3 DEF Held
    <3>5. h \in Level1(m, t)
      BY <1>1, <3>1, <3>3, LevelsIs
    <3> QED BY <3>4, <3>5
  <2>3. CASE role[g] = "one"
    <3>1. PICK t \in R : g \in Level1(m, t)
      BY <2>2, <2>3
    <3>2. g \in Owned(m, t)
      BY <1>1, <1>4, <3>1, PagesIs DEF Owned
    <3> QED BY <2>3, <3>1, <3>2
  <2>4. CASE role[g] = "zero"
    <3>1. PICK h \in Frame, i \in Idx : role[h] \in TableRole /\ m.tab[h][i].to = g
      BY <1>1, <2>4 DEF Shape, Named, ChildRole
    <3>2. Under(role[h]) = "zero"
      BY <1>1, <2>4, <3>1, ShapeDown
    <3>3. role[h] = "one"
      BY <3>1, <3>2 DEF Under, TableRole
    <3>4. PICK t \in R : h \in Level1(m, t)
      BY <2>2, <3>3
    <3>5. g \in Level0(m, t)
      BY <1>1, <1>4, <3>1, <3>4, LevelsIs
    <3>6. g \in Owned(m, t)
      BY <1>1, <1>4, <3>5, PagesIs DEF Owned
    <3> QED BY <2>4, <3>5, <3>6
  <2> QED BY <1>6, <2>1, <2>3, <2>4 DEF TableRole
<1>7. ASSUME NEW g \in Frame, role[g] = "page"
      PROVE  \E t \in R : g \in Owned(m, t)
  <2>1. PICK z \in Frame, i \in Idx : role[z] \in TableRole /\ m.tab[z][i].to = g
    BY <1>1, <1>7 DEF Shape, Named, ChildRole
  <2>2. Under(role[z]) = "page"
    BY <1>1, <1>7, <2>1, ShapeDown
  <2>3. role[z] = "zero"
    BY <2>1, <2>2 DEF Under, TableRole
  <2>4. PICK t \in R : z \in Level0(m, t)
    BY <1>6, <2>1, <2>3
  <2>5. IsTable(m.tab[z][i]) \/ IsLeaf(m.tab[z][i])
    BY <1>1, <2>1, <2>3, KindsIs
  <2>6. g \in Owned(m, t)
    BY <1>1, <1>4, <2>1, <2>4, <2>5, PagesIs DEF Owned
  <2> QED BY <2>6
<1>8. ASSUME NEW g \in m.taken
      PROVE  g \in (UNION {Owned(m, t) : t \in R}) \cup G \cup L
  <2>1. g \in Frame /\ role[g] # "free" /\ role[g] \in Role /\ role[g] # "hand"
    BY <1>1, <1>3 DEF Held
  <2>2. CASE role[g] \in TableRole \/ role[g] = "page"
    BY <1>6, <1>7, <2>1, <2>2
  <2>3. CASE role[g] \in {"regs", "lost"}
    <3>1. g \in G \/ g \in L
      BY <1>1, <2>1, <2>3 DEF Held
    <3> QED BY <3>1
  <2> QED BY <2>1, <2>2, <2>3 DEF Role, TableRole
<1>9. ASSUME NEW g \in G \cup L
      PROVE  g \in m.taken
  BY <1>1, <1>2, <1>3 DEF Held
<1> DEFINE All == UNION {Owned(m, t) : t \in R}
<1>10. \A g \in All : g \in m.taken
  BY <1>5
<1>11. \A g \in m.taken : g \in All \cup G \cup L
  BY <1>8
<1> HIDE DEF All
<1>12. m.taken = All \cup G \cup L
  BY <1>9, <1>10, <1>11
<1> QED
  BY <1>12 DEF All

Used(m, R) == {s \in (UNION {TableFrames(m, t) : t \in R}) \X Idx :
                  m.tab[s[1]][s[2]].to \in Frame}
To(m, s) == m.tab[s[1]][s[2]].to

(* An entry of the tables under the roots, by role.                        *)
LEMMA UsedIs ==
    ASSUME NEW m, NEW R, NEW role, Shape(m, role), R \subseteq Frame,
           \A t \in R : role[t] = "root", NEW s \in Used(m, R)
    PROVE  /\ s[1] \in Frame /\ s[2] \in Idx /\ role[s[1]] \in TableRole
           /\ To(m, s) \in Frame /\ role[To(m, s)] \in ChildRole
           /\ s = <<s[1], s[2]>>
<1>1. /\ s[1] \in UNION {TableFrames(m, t) : t \in R} /\ s[2] \in Idx
      /\ s = <<s[1], s[2]>> /\ To(m, s) \in Frame
  BY DEF Used, To
<1>2. PICK t \in R : s[1] \in TableFrames(m, t)
  BY <1>1
<1>3. t \in Frame /\ role[t] = "root"
  OBVIOUS
<1>4. s[1] = t \/ s[1] \in Level1(m, t) \/ s[1] \in Level0(m, t)
  BY <1>2 DEF TableFrames
<1>5. s[1] \in Frame /\ role[s[1]] \in TableRole
  BY <1>3, <1>4, LevelsIs DEF TableRole
<1>6. role[To(m, s)] \in ChildRole
  BY <1>1, <1>5, ShapeDown DEF To
<1> QED
  BY <1>1, <1>5, <1>6

LEMMA ForestOnce ==
    ASSUME NEW m, NEW R, NEW G, NEW L, Forest(m, R, G, L, {})
    PROVE  /\ \A s, t \in Used(m, R) : To(m, s) = To(m, t) => s = t
           /\ \A s \in Used(m, R) : To(m, s) \notin R \cup G \cup L
           /\ R \cap G = {}
<1>1. PICK role : Shape(m, role) /\ Held(role, R, G, L, {})
  BY DEF Forest
<1>2. R \subseteq Frame /\ \A t \in R : role[t] = "root"
  BY <1>1 DEF Forest, Held
<1>3. ASSUME NEW s \in Used(m, R)
      PROVE  /\ s[1] \in Frame /\ s[2] \in Idx /\ role[s[1]] \in TableRole
             /\ To(m, s) \in Frame /\ role[To(m, s)] \in ChildRole
             /\ s = <<s[1], s[2]>>
  BY <1>1, <1>2, UsedIs
<1>4. ASSUME NEW s \in Used(m, R), NEW t \in Used(m, R), To(m, s) = To(m, t)
      PROVE  s = t
  <2>1. s[1] = t[1] /\ s[2] = t[2]
    <3>1. Once(m, role)
      BY <1>1 DEF Shape
    <3>2. m.tab[s[1]][s[2]].to \in Frame /\ m.tab[s[1]][s[2]].to = m.tab[t[1]][t[2]].to
      BY <1>3, <1>4 DEF To
    <3> QED BY <1>3, <3>1, <3>2 DEF Once
  <2> QED BY <1>3, <2>1
<1>5. ASSUME NEW s \in Used(m, R)
      PROVE  To(m, s) \notin R \cup G \cup L
  BY <1>1, <1>3 DEF Held, ChildRole
<1>6. R \cap G = {}
  BY ForestTypes
<1> QED
  BY <1>4, <1>5, <1>6

(* What a payload reaches.                                                 *)
LEMMA ForestReach ==
    ASSUME NEW m, NEW R, NEW G, NEW L, Forest(m, R, G, L, {}), NEW t \in R, NEW page \in Page
    PROVE  LET pte == Entry(m, t, page)
           IN  /\ KernelRam \notin Translate(m, t, page, {"U", "R"})
               /\ IsLeaf(pte) /\ "U" \in pte.p =>
                   /\ ~({"W", "X"} \subseteq pte.p)
                   /\ pte.to \notin Frame => "W" \notin pte.p
<1>1. PICK role : Shape(m, role) /\ Held(role, R, G, L, {})
  BY DEF Forest
<1>2. t \in Frame /\ role[t] = "root"
  BY <1>1 DEF Forest, Held
<1> DEFINE pte == Entry(m, t, page)
<1>3. Translate(m, t, page, {"U", "R"})
         \subseteq IF IsLeaf(pte) /\ "U" \in pte.p THEN {pte.to} ELSE {}
  BY DEF Translate
<1>4. CASE page < KernelPage
  <2>1. page \in UserPage
    BY <1>4 DEF UserPage, Page, KernelPage
  <2>2. PageTo(role, pte)
    BY <1>1, <1>2, <2>1, EntryPage
  <2> HIDE DEF pte
  <2>3. CASE pte = NoPte
    BY <1>3, <2>3, NoPteIs DEF pte
  <2>4. ASSUME NEW f \in Frame \cup {Window}, NEW p, Fit(f, p), pte = LeafPte(f, p)
        PROVE  /\ pte.to # KernelRam /\ ~({"W", "X"} \subseteq pte.p)
               /\ pte.to \notin Frame => "W" \notin pte.p
    <3>1. pte.to = f /\ pte.p = p
      BY <2>4, LeafIs
    <3> QED BY <2>4, <3>1, Outside DEF Fit
  <2>5. CASE pte # NoPte
    <3>1. /\ pte.to # KernelRam /\ ~({"W", "X"} \subseteq pte.p)
          /\ pte.to \notin Frame => "W" \notin pte.p
      BY <2>2, <2>4, <2>5 DEF PageTo
    <3> QED BY <1>3, <3>1 DEF pte
  <2> QED BY <2>3, <2>5
<1>5. CASE ~(page < KernelPage)
  <2>1. pte = KernelPte
    BY <1>1, <1>2, <1>5, EntryKernel
  <2>2. "U" \notin pte.p
    BY <2>1, KernelPteIs
  <2> QED BY <1>3, <2>2
<1> QED BY <1>4, <1>5

(* A store reaches the page of one space only.                             *)
LEMMA WriteForest ==
    ASSUME NEW m, NEW R, NEW G, NEW L, Forest(m, R, G, L, {}), NEW r \in R,
           NEW page \in Page, NEW f \in Translate(m, r, page, {"U", "W"}),
           NEW n, n = SetData(m, f, 2)
    PROVE  Forest(n, R, G, L, {}) /\ Keeps(m, n, R \ {r})
<1>1. PICK role : Shape(m, role) /\ Held(role, R, G, L, {})
  BY DEF Forest
<1>2. R \subseteq Frame /\ \A t \in R : role[t] = "root"
  BY <1>1 DEF Forest, Held
<1> DEFINE pte == Entry(m, r, page)
<1>3. IsLeaf(pte) /\ "U" \in pte.p /\ "W" \in pte.p /\ f = pte.to
  BY DEF Translate
<1>4. page \in UserPage
  <2>1. ~(page < KernelPage) => pte = KernelPte
    BY <1>1, <1>2, EntryKernel
  <2>2. page < KernelPage
    BY <1>3, <2>1, KernelPteIs
  <2> QED BY <2>2 DEF UserPage, Page, KernelPage
<1>5. f \in Frame
  <2>1. PageTo(role, pte)
    BY <1>1, <1>2, <1>4, EntryPage
  <2>2. PICK g \in Frame \cup {Window}, p \in SUBSET Perm : Fit(g, p) /\ pte = LeafPte(g, p)
    BY <1>3, <2>1, NoPteIs DEF PageTo
  <2>3. pte.to = g /\ pte.p = p
    BY <2>2, LeafIs
  <2> QED BY <1>3, <2>2, <2>3 DEF Fit
<1>6. m \in Mem /\ 2 \in 0 .. StaleData
  BY <1>1, ShapeTypes DEF StaleData
<1>7. n.tab = m.tab /\ \A g \in Frame : g # f => n.data[g] = m.data[g]
  BY <1>5, <1>6, DataIs
<1>8. Forest(n, R, G, L, {})
  BY <1>5, <1>6, DataForest DEF SetData
<1>9. EndsAtZero(m, role, r, page)
  BY <1>1, <1>2, <1>3, <1>4, PathIs, NoPteIs DEF EndsAtRoot, EndsAtOne
<1>10. ASSUME NEW t \in R \ {r}, NEW q \in UserPage
       PROVE  Show(n, t, q) = Show(m, t, q)
  <2>1. t \in Frame /\ role[t] = "root" /\ r \in Frame /\ role[r] = "root"
    BY <1>2
  <2>2. Entry(n, t, q) = Entry(m, t, q)
    <3>1. SameTables(m, n, role)
      BY <1>7 DEF SameTables
    <3> QED BY <1>1, <2>1, <3>1, SameEntry
  <2>3. CASE IsLeaf(Entry(m, t, q))
    <3>1. EndsAtZero(m, role, t, q)
      BY <1>1, <2>1, <2>3, PathIs, NoPteIs DEF EndsAtRoot, EndsAtOne
    <3>2. Entry(m, t, q).to # f
      <4>1. ASSUME Entry(m, t, q).to = f
            PROVE  FALSE
        <5>1. /\ Vpn(page, 0) \in Idx /\ Vpn(q, 0) \in Idx
          BY <1>4, UserPageIs
        <5>2. /\ Zero(m, r, page) \in Frame /\ role[Zero(m, r, page)] \in TableRole
              /\ m.tab[Zero(m, r, page)][Vpn(page, 0)].to = f
          BY <1>3, <1>9 DEF EndsAtZero, HasZero, TableRole
        <5>3. /\ Zero(m, t, q) \in Frame /\ role[Zero(m, t, q)] \in TableRole
              /\ m.tab[Zero(m, t, q)][Vpn(q, 0)].to = f
          BY <3>1, <4>1 DEF EndsAtZero, HasZero, TableRole
        <5>4. Zero(m, t, q) = Zero(m, r, page) /\ Vpn(q, 0) = Vpn(page, 0)
          <6>1. Once(m, role)
            BY <1>1 DEF Shape
          <6> QED BY <1>5, <5>1, <5>2, <5>3, <6>1 DEF Once
        <5>5. HasZero(m, role, t, q) /\ HasZero(m, role, r, page)
          BY <1>9, <3>1 DEF EndsAtZero
        <5>6. t = r
          BY <1>1, <1>4, <2>1, <5>4, <5>5, OneWalk
        <5> QED BY <5>6
      <4> QED BY <4>1
    <3> QED BY <1>7, <2>2, <3>2 DEF Show
  <2>4. CASE ~IsLeaf(Entry(m, t, q))
    BY <2>2, <2>4 DEF Show
  <2> QED BY <2>3, <2>4
<1> QED
  BY <1>8, <1>10 DEF Keeps

-----------------------------------------------------------------------------
(* The inductive invariant.                                                *)

Ops == {"none", "load", "entry", "window", "copy", "regs"}

JobType ==
    [op : Ops, owner : Owner \cup {NoFrame}, from : Owner \cup {NoFrame},
     top : Frame \cup {NoFrame}, segs : Seq(Segment), seg : Nat, page : Page,
     entry : Page, window : Page \cup {NoPage}]

(* Only a job has a root of its own; it reads a living space and builds    *)
(* for an owner that has none.                                             *)
JobInv ==
    /\ job \in JobType
    /\ job.op = "none" <=> job.top = NoFrame
    /\ job.op = "none" => job = NoJob
    /\ job.op = "load" =>
          /\ job.seg \in 1 .. Len(job.segs)
          /\ \A i \in 1 .. Len(job.segs) : job.segs[i].first <= job.segs[i].last
          /\ job.page \in job.segs[job.seg].first .. job.segs[job.seg].last
    /\ job.op = "copy" => job.from # NoFrame /\ job.page \in UserPage
    /\ job.op \in {"load", "entry", "window"} => job.from = NoFrame
    /\ job.from # NoFrame => root[job.from] # NoFrame
    /\ job.owner # NoFrame => root[job.owner] = NoFrame
    /\ job.owner \in Snap => job.from # NoFrame

OwnerInv ==
    /\ root \in [Owner -> Frame \cup {NoFrame}]
    /\ regs \in [Owner -> Frame \cup {NoFrame}]
    /\ \A o \in Owner : root[o] = NoFrame <=> regs[o] = NoFrame
    /\ \A o, p \in Owner : root[o] = root[p] /\ root[o] # NoFrame => o = p
    /\ \A o, p \in Owner : regs[o] = regs[p] /\ regs[o] # NoFrame => o = p
    /\ \A o \in Owner : root[o] = job.top => root[o] = NoFrame

SpaceInv == Forest(mem, Roots, RegFrames, leaked, {})

(* The copy agrees with its source up to the page under way, and maps      *)
(* nothing behind it.                                                      *)
CopyInv ==
    /\ job.op = "copy" =>
          \A q \in UserPage :
             Show(mem, job.top, q) =
                IF q < job.page THEN Show(mem, root[job.from], q) ELSE {}
    /\ job.op = "regs" /\ job.from # NoFrame =>
          \A q \in UserPage : Show(mem, job.top, q) = Show(mem, root[job.from], q)

KeptInv ==
    /\ kept = [s \in Snap |-> kept[s]]
    /\ \A s \in Snap : root[s] # NoFrame => View(mem, root[s]) = kept[s]

AddressInv == JobInv /\ OwnerInv /\ SpaceInv /\ CopyInv /\ KeptInv

LEMMA AddressTypes ==
    ASSUME AddressInv
    PROVE  TypeOK
<1>1. /\ mem \in Mem /\ leaked \subseteq Frame
  BY ForestTypes DEF AddressInv, SpaceInv
<1>2. /\ mem.tab \in [Frame -> [Idx -> Pte]]
      /\ mem.data \in [Frame -> 0 .. StaleData] /\ mem.taken \subseteq Frame
  BY <1>1 DEF Mem
<1>3. /\ job.op \in Ops /\ job.owner \in Owner \cup {NoFrame} /\ job.page \in Page
      /\ job.from \in Owner \cup {NoFrame} /\ job.top \in Frame \cup {NoFrame}
      /\ job.op = "load" =>
            job.page \in job.segs[job.seg].first .. job.segs[job.seg].last
  BY DEF AddressInv, JobInv, JobType
<1>4. /\ root \in [Owner -> Frame \cup {NoFrame}]
      /\ regs \in [Owner -> Frame \cup {NoFrame}]
  BY DEF AddressInv, OwnerInv
<1> QED
  BY <1>1, <1>2, <1>3, <1>4 DEF TypeOK, Ops

LEMMA AddressFrames ==
    ASSUME AddressInv
    PROVE  FramesAccounted /\ OwnedOnce /\ UserReach
<1>1. Forest(mem, Roots, RegFrames, leaked, {})
  BY DEF AddressInv, SpaceInv
<1>2. FramesAccounted
  BY <1>1, ForestAccounts DEF FramesAccounted
<1>3. OwnedOnce
  <2>1. /\ \A s, t \in Used(mem, Roots) : To(mem, s) = To(mem, t) => s = t
        /\ \A s \in Used(mem, Roots) : To(mem, s) \notin Roots \cup RegFrames \cup leaked
        /\ Roots \cap RegFrames = {}
    BY <1>1, ForestOnce
  <2> QED BY <2>1 DEF OwnedOnce, Used, To
<1>4. UserReach
  BY <1>1, ForestReach DEF UserReach
<1> QED
  BY <1>2, <1>3, <1>4

LEMMA AddressCopies ==
    ASSUME AddressInv
    PROVE  CheckpointFaithful
<1>1. ASSUME job.op = "regs", job.from # NoFrame
      PROVE  View(mem, job.top) = View(mem, root[job.from])
  <2>1. \A q \in UserPage : Show(mem, job.top, q) = Show(mem, root[job.from], q)
    BY <1>1 DEF AddressInv, CopyInv
  <2> QED BY <2>1, ViewSame
<1> QED
  BY <1>1 DEF AddressInv, KeptInv, CheckpointFaithful

LEMMA AddressInit ==
    ASSUME Init
    PROVE  AddressInv
<1>1. /\ root = [o \in Owner |-> NoFrame] /\ regs = [o \in Owner |-> NoFrame]
      /\ job = NoJob /\ leaked = {} /\ kept = [s \in Snap |-> <<>>]
  BY DEF Init, Nobody
<1>2. JobInv
  <2>1. NoJob \in JobType
    <3>1. <<>> \in Seq(Segment) /\ 0 \in Nat /\ 0 \in Page /\ "none" \in Ops
      BY DEF Page, Ops
    <3> QED BY <3>1 DEF NoJob, JobType
  <2> QED BY <1>1, <2>1, Outside DEF JobInv, NoJob, Owner
<1>3. OwnerInv
  BY <1>1 DEF OwnerInv
<1>4. Roots = {} /\ RegFrames = {}
  BY <1>1 DEF Roots, RegFrames, NoJob
<1>5. SpaceInv
  <2> DEFINE role == [f \in Frame |-> "free"]
  <2>1. /\ mem.tab = [f \in Frame |-> Stale] /\ mem.data = [f \in Frame |-> StaleData]
        /\ mem.taken = {}
        /\ mem = [tab |-> mem.tab, data |-> mem.data, taken |-> mem.taken]
    BY DEF Init
  <2>2. mem \in Mem
    <3>1. StaleData \in 0 .. StaleData
      BY DEF StaleData
    <3> QED BY <2>1, <3>1, BlankTypes DEF Mem
  <2>3. /\ role \in [Frame -> Role] /\ \A f \in Frame : role[f] = "free"
        /\ "free" \notin TableRole /\ "free" \notin ChildRole
    BY DEF Role, TableRole, ChildRole
  <2> HIDE DEF role
  <2>4. Shape(mem, role)
    BY <2>1, <2>2, <2>3 DEF Shape, Entries, Named, Once
  <2>5. Held(role, {}, {}, {}, {})
    BY <2>3 DEF Held
  <2> QED BY <1>1, <1>4, <2>4, <2>5 DEF SpaceInv, Forest
<1>6. CopyInv
  BY <1>1 DEF CopyInv, NoJob
<1>7. KeptInv
  BY <1>1 DEF KeptInv, Owner
<1> QED
  BY <1>2, <1>3, <1>5, <1>6, <1>7 DEF AddressInv

-----------------------------------------------------------------------------
(* The steps.                                                              *)

LEMMA RootsAre ==
    ASSUME AddressInv
    PROVE  /\ Roots \subseteq Frame /\ RegFrames \subseteq Frame /\ mem \in Mem
           /\ \A t : t \in Roots <=> t # NoFrame /\ (t = job.top \/ \E o \in Owner : root[o] = t)
           /\ \A t : t \in RegFrames <=> t # NoFrame /\ \E o \in Owner : regs[o] = t
           /\ Roots \subseteq mem.taken /\ RegFrames \subseteq mem.taken
<1>1. Forest(mem, Roots, RegFrames, leaked, {})
  BY DEF AddressInv, SpaceInv
<1>2. \A t : t \in Roots <=> t # NoFrame /\ (t = job.top \/ \E o \in Owner : root[o] = t)
  BY DEF Roots
<1>3. \A t : t \in RegFrames <=> t # NoFrame /\ \E o \in Owner : regs[o] = t
  BY DEF RegFrames
<1> QED
  BY <1>1, <1>2, <1>3, ForestTypes

(* Checkpoints keep showing what they showed while their trees stay.       *)
LEMMA KeptStays ==
    ASSUME AddressInv, NEW S, Keeps(mem, mem', S), kept' = kept, root' = root,
           \A s \in Snap : root[s] # NoFrame => root[s] \in S
    PROVE  KeptInv'
<1>1. ASSUME NEW s \in Snap, root[s] # NoFrame
      PROVE  View(mem', root[s]) = kept[s]
  <2>1. \A q \in UserPage : Show(mem', root[s], q) = Show(mem, root[s], q)
    BY <1>1 DEF Keeps
  <2>2. View(mem', root[s]) = View(mem, root[s])
    BY <2>1, ViewSame
  <2>3. View(mem, root[s]) = kept[s]
    BY <1>1 DEF AddressInv, KeptInv
  <2> QED BY <2>2, <2>3
<1> QED
  BY <1>1 DEF KeptInv, AddressInv

JobOK(j) ==
    /\ j \in JobType
    /\ j.op = "load" =>
          /\ j.seg \in 1 .. Len(j.segs)
          /\ \A i \in 1 .. Len(j.segs) : j.segs[i].first <= j.segs[i].last
          /\ j.page \in j.segs[j.seg].first .. j.segs[j.seg].last
    /\ j.op = "copy" => j.from # NoFrame /\ j.page \in UserPage
    /\ j.op \in {"load", "entry", "window"} => j.from = NoFrame
    /\ j.owner \in Snap => j.from # NoFrame

JobFits(j) ==
    /\ j.from # NoFrame => root[j.from] # NoFrame
    /\ j.owner # NoFrame => root[j.owner] = NoFrame

LEMMA JobOwners ==
    ASSUME JobInv, root' = root, JobOK(job'), JobFits(job)',
           job'.op # "none", job'.top # NoFrame
    PROVE  JobInv'
BY DEF JobInv, JobOK, JobFits

LEMMA NewSpaceStep ==
    ASSUME AddressInv, NEW next, JobOK(next), JobFits(next), next.op \in {"load", "entry", "copy"},
           next.op = "copy" => next.page = 0, NewSpace(next)
    PROVE  AddressInv'
<1> DEFINE f == Pick(Free(mem))
<1> DEFINE a == Take(mem, f)
<1> DEFINE n == MapKernel(a, f)
<1>1. /\ job.op = "none" /\ Free(mem) # {} /\ mem' = n /\ job' = [next EXCEPT !.top = f]
      /\ root' = root /\ regs' = regs /\ leaked' = leaked /\ kept' = kept
  BY DEF NewSpace, Proceed
<1>2. f \in Frame /\ f \notin mem.taken
  BY <1>1, PickIn
<1>3. job.top = NoFrame
  BY <1>1 DEF AddressInv, JobInv
<1>4. Forest(mem, Roots, RegFrames, leaked, {}) /\ mem \in Mem
  BY RootsAre DEF AddressInv, SpaceInv
<1> HIDE DEF f
<1>5. /\ a \in Mem /\ a.taken = mem.taken \cup {f} /\ \A i \in Idx : a.tab[f][i] = NoPte
      /\ \A g \in Frame : g # f => a.tab[g] = mem.tab[g]
      /\ \A g \in Frame : g # f => a.data[g] = mem.data[g]
  BY <1>2, <1>4, TakeIs
<1> HIDE DEF a
<1>6. Forest(a, Roots, RegFrames, leaked, {} \cup {f}) /\ Keeps(mem, a, Roots)
  BY <1>2, <1>4, <1>5, TakeForest
<1>7. f \in {} \cup {f} /\ a.tab[f][0] = NoPte
  BY <1>5 DEF Idx
<1>8. /\ Forest(n, Roots \cup {f}, RegFrames, leaked, ({} \cup {f}) \ {f})
      /\ Keeps(a, n, Roots) /\ \A q \in UserPage : Show(n, f, q) = {}
  BY <1>6, <1>7, RootForest
<1> HIDE DEF n
<1>9. Keeps(mem, n, Roots)
  BY <1>6, <1>8, KeepsTrans
<1>10. f # NoFrame /\ f \notin Roots
  BY <1>2, Outside, RootsAre
<1>11. next \in JobType
  BY DEF JobOK
<1>12. /\ job' \in JobType /\ job'.top = f /\ job'.op = next.op /\ job'.from = next.from
       /\ job'.owner = next.owner /\ job'.page = next.page /\ job'.seg = next.seg
       /\ job'.segs = next.segs
  BY <1>1, <1>2, <1>11 DEF JobType
<1>13. JobInv'
  <2>1. JobOK(job')
    BY <1>12 DEF JobOK
  <2>2. JobFits(job)'
    BY <1>1, <1>12 DEF JobFits
  <2> QED BY <1>1, <1>10, <1>12, <2>1, <2>2, JobOwners DEF AddressInv
<1>14. OwnerInv'
  <2>1. \A o \in Owner : root[o] # NoFrame => root[o] \in Roots
    BY RootsAre
  <2>2. \A o \in Owner : root[o] # f
    BY <1>10, <2>1
  <2> QED BY <1>1, <1>12, <2>2 DEF AddressInv, OwnerInv
<1>15. Roots' = Roots \cup {f} /\ RegFrames' = RegFrames
  BY <1>1, <1>3, <1>10, <1>12 DEF Roots, RegFrames
<1>16. SpaceInv'
  <2>1. ({} \cup {f}) \ {f} = {}
    OBVIOUS
  <2> QED BY <1>1, <1>8, <1>15, <2>1 DEF SpaceInv
<1>17. CopyInv'
  <2>1. ~(job'.op = "regs")
    BY <1>12
  <2>2. ASSUME job'.op = "copy"
        PROVE  job'.page = 0 /\ mem' = n /\ job'.top = f
    BY <1>1, <1>12, <2>2
  <2>3. \A q \in UserPage : ~(q < 0)
    BY DEF UserPage, KernelPage
  <2> QED BY <1>8, <2>1, <2>2, <2>3 DEF CopyInv
<1>18. KeptInv'
  <2>1. \A s \in Snap : root[s] # NoFrame => root[s] \in Roots
    BY RootsAre DEF Owner
  <2>2. Keeps(mem, mem', Roots)
    BY <1>1, <1>9
  <2> QED BY <1>1, <2>1, <2>2, KeptStays
<1> QED
  BY <1>13, <1>14, <1>16, <1>17, <1>18 DEF AddressInv

(* A failed construction.                                                  *)
LEMMA AbandonStep ==
    ASSUME AddressInv, job.op # "none", NEW m, NEW lost,
           Forest(m, Roots, RegFrames, leaked \cup lost, {}),
           Keeps(mem, m, Roots \ {job.top}), Abandon(m, lost)
    PROVE  AddressInv'
<1> DEFINE top == job.top
<1>1. /\ mem' = Give(m, Destroyed(m, top)) /\ job' = NoJob
      /\ leaked' = leaked \cup lost \cup Unreadable(m, top)
      /\ root' = root /\ regs' = regs /\ kept' = kept
  BY DEF Abandon
<1>2. top # NoFrame /\ top \in Roots
  BY RootsAre DEF AddressInv, JobInv
<1>3. \A o \in Owner : root[o] # top
  BY <1>2 DEF AddressInv, OwnerInv
<1>4. /\ Forest(mem', Roots \ {top}, RegFrames, leaked \cup lost \cup Unreadable(m, top), {})
      /\ Keeps(m, mem', Roots \ {top})
  BY <1>1, <1>2, CutForest
<1>5. Roots' = Roots \ {top} /\ RegFrames' = RegFrames
  BY <1>1, <1>3 DEF Roots, RegFrames, NoJob
<1>6. SpaceInv'
  BY <1>1, <1>4, <1>5 DEF SpaceInv
<1>7. OwnerInv'
  BY <1>1 DEF AddressInv, OwnerInv, NoJob
<1>8. JobInv'
  <2>1. NoJob \in JobType
    <3>1. <<>> \in Seq(Segment) /\ 0 \in Nat /\ 0 \in Page /\ "none" \in Ops
      BY DEF Page, Ops
    <3> QED BY <3>1 DEF NoJob, JobType
  <2>2. NoFrame \notin Snap
    BY Outside DEF Owner
  <2> QED BY <1>1, <2>1, <2>2 DEF JobInv, NoJob
<1>9. CopyInv'
  BY <1>1 DEF CopyInv, NoJob
<1>10. KeptInv'
  <2>1. \A s \in Snap : root[s] # NoFrame => root[s] \in Roots \ {top}
    BY <1>3, RootsAre DEF Owner
  <2>2. Keeps(mem, mem', Roots \ {top})
    BY <1>4, KeepsTrans
  <2> QED BY <1>1, <2>1, <2>2, KeptStays
<1> QED
  BY <1>6, <1>7, <1>8, <1>9, <1>10 DEF AddressInv

(* A construction goes on.                                                 *)
LEMMA ProceedStep ==
    ASSUME AddressInv, job.op # "none", NEW m, NEW next, Proceed(m, next),
           Forest(m, Roots, RegFrames, leaked, {}), Keeps(mem, m, Roots \ {job.top}),
           JobOK(next), next.op # "none", next.top = job.top,
           next.owner = job.owner, next.from = job.from
    PROVE  JobInv' /\ OwnerInv' /\ SpaceInv' /\ KeptInv'
<1>1. /\ mem' = m /\ job' = next /\ root' = root /\ regs' = regs
      /\ leaked' = leaked /\ kept' = kept
  BY DEF Proceed
<1>2. job.top # NoFrame /\ \A o \in Owner : root[o] # job.top
  BY DEF AddressInv, JobInv, OwnerInv
<1>3. JobInv'
  <2>1. JobFits(job)'
    BY <1>1 DEF JobFits, AddressInv, JobInv
  <2> QED BY <1>1, <1>2, <2>1, JobOwners DEF AddressInv
<1>4. OwnerInv'
  BY <1>1 DEF AddressInv, OwnerInv
<1>5. Roots' = Roots /\ RegFrames' = RegFrames
  BY <1>1 DEF Roots, RegFrames
<1>6. SpaceInv'
  BY <1>1, <1>5 DEF SpaceInv
<1>7. KeptInv'
  <2>1. \A s \in Snap : root[s] # NoFrame => root[s] \in Roots \ {job.top}
    BY <1>2, RootsAre DEF Owner
  <2>2. Keeps(mem, mem', Roots \ {job.top})
    BY <1>1
  <2> QED BY <1>1, <2>1, <2>2, KeptStays
<1> QED
  BY <1>3, <1>4, <1>6, <1>7

LEMMA JobIsOK ==
    ASSUME AddressInv
    PROVE  JobOK(job) /\ job.page \in Page /\ job.entry \in Page
           /\ job.window \in Page \cup {NoPage}
BY DEF AddressInv, JobInv, JobOK, JobType

LEMMA NoJobIs ==
    /\ NoJob \in JobType /\ NoJob.from = NoFrame /\ NoJob.top = NoFrame
    /\ NoJob.owner = NoFrame /\ NoJob.page = 0
<1>1. <<>> \in Seq(Segment) /\ 0 \in Nat /\ 0 \in Page /\ "none" \in Ops
  BY DEF Page, Ops
<1> QED BY <1>1 DEF NoJob, JobType

LEMMA StartLoadStep ==
    ASSUME AddressInv, NEW o \in Proc, NEW img \in Images, StartLoad(o, img)
    PROVE  AddressInv'
<1> DEFINE fresh == [NoJob EXCEPT !.owner = o, !.entry = img.entry, !.window = img.window]
<1> DEFINE bare == [fresh EXCEPT !.op = "entry"]
<1> DEFINE full == [fresh EXCEPT !.op = "load", !.segs = img.segs, !.seg = 1,
                                 !.page = img.segs[1].first]
<1>1. /\ root[o] = NoFrame
      /\ IF img.segs = <<>> THEN NewSpace(bare) ELSE NewSpace(full)
  BY DEF StartLoad
<1>2. /\ img.segs \in Seq(Segment) /\ img.entry \in Page
      /\ img.window \in Page \cup {NoPage}
      /\ \A i \in DOMAIN img.segs : img.segs[i].first <= img.segs[i].last
  BY LoadAssumption
<1>3. o \in Owner /\ o \notin Snap /\ o # NoFrame
  BY LoadAssumption DEF Owner
<1>4. <<>> \in Seq(Segment) /\ 0 \in Nat /\ 0 \in Page /\ "entry" \in Ops /\ "load" \in Ops
  BY DEF Page, Ops
<1>5. fresh \in JobType /\ fresh.owner = o /\ fresh.from = NoFrame /\ fresh.top = NoFrame
  BY <1>2, <1>3, NoJobIs DEF JobType
<1> HIDE DEF fresh
<1>6. CASE img.segs = <<>>
  <2>1. /\ bare \in JobType /\ bare.op = "entry" /\ bare.owner = o
        /\ bare.from = NoFrame
    BY <1>4, <1>5 DEF JobType
  <2> HIDE DEF bare
  <2>3. JobOK(bare) /\ JobFits(bare) /\ bare.op = "entry"
    BY <1>1, <1>3, <2>1 DEF JobOK, JobFits
  <2> QED BY <1>1, <1>6, <2>3, NewSpaceStep
<1>7. CASE img.segs # <<>>
  <2>2. Len(img.segs) \in Nat /\ Len(img.segs) # 0 /\ DOMAIN img.segs = 1 .. Len(img.segs)
    BY <1>2, <1>7
  <2>3. 1 \in 1 .. Len(img.segs)
    BY <2>2
  <2>4. img.segs[1] \in Segment
    BY <1>2, <2>3
  <2>5. /\ img.segs[1].first \in Page /\ img.segs[1].last \in Page
        /\ img.segs[1].first <= img.segs[1].last
    BY <1>2, <2>2, <2>3, <2>4 DEF Segment
  <2>6. img.segs[1].first \in img.segs[1].first .. img.segs[1].last
    BY <2>5 DEF Page
  <2>7. /\ full \in JobType /\ full.op = "load" /\ full.owner = o /\ full.from = NoFrame
        /\ full.segs = img.segs /\ full.seg = 1 /\ full.page = img.segs[1].first
    BY <1>2, <1>4, <1>5, <2>5 DEF JobType
  <2> HIDE DEF full
  <2>8. JobOK(full) /\ JobFits(full) /\ full.op = "load"
    BY <1>1, <1>2, <1>3, <2>2, <2>3, <2>6, <2>7 DEF JobOK, JobFits
  <2> QED BY <1>1, <1>7, <2>8, NewSpaceStep
<1> QED BY <1>6, <1>7

LEMMA CopyJobIs ==
    ASSUME NEW from \in Owner, NEW j, NEW o \in Owner \cup {NoFrame},
           \/ j = CopyJob(from) /\ o = NoFrame
           \/ j = [CopyJob(from) EXCEPT !.owner = o]
    PROVE  JobOK(j) /\ j.op = "copy" /\ j.page = 0 /\ j.from = from /\ j.owner = o
<1>1. "copy" \in Ops /\ 0 \in UserPage /\ from # NoFrame
  BY Outside DEF Ops, UserPage, KernelPage
<1>2. /\ CopyJob(from) \in JobType /\ CopyJob(from).op = "copy" /\ CopyJob(from).page = 0
      /\ CopyJob(from).from = from /\ CopyJob(from).owner = NoFrame
  BY <1>1, NoJobIs DEF JobType, CopyJob
<1>3. j \in JobType /\ j.op = "copy" /\ j.page = 0 /\ j.from = from /\ j.owner = o
  BY <1>2 DEF JobType
<1> QED BY <1>1, <1>3 DEF JobOK

LEMMA StartCopyStep ==
    ASSUME AddressInv, NEW p \in Proc, NEW s \in Snap, StartSnapshot(p, s)
    PROVE  AddressInv'
<1> DEFINE j == [CopyJob(p) EXCEPT !.owner = s]
<1>1. root[p] # NoFrame /\ root[s] = NoFrame /\ NewSpace(j)
  BY DEF StartSnapshot
<1>2. p \in Owner /\ s \in Owner \cup {NoFrame}
  BY DEF Owner
<1>3. JobOK(j) /\ j.op = "copy" /\ j.page = 0 /\ j.from = p /\ j.owner = s
  BY <1>2, CopyJobIs
<1> HIDE DEF j
<1>4. JobFits(j)
  BY <1>1, <1>3 DEF JobFits
<1> QED BY <1>1, <1>3, <1>4, NewSpaceStep

LEMMA StartRestoreStep ==
    ASSUME AddressInv, NEW s \in Snap, StartRestore(s)
    PROVE  AddressInv'
<1> DEFINE j == CopyJob(s)
<1>1. root[s] # NoFrame /\ NewSpace(j)
  BY DEF StartRestore
<1>2. s \in Owner /\ NoFrame \in Owner \cup {NoFrame}
  BY DEF Owner
<1>3. JobOK(j) /\ j.op = "copy" /\ j.page = 0 /\ j.from = s /\ j.owner = NoFrame
  BY <1>2, CopyJobIs
<1> HIDE DEF j
<1>4. JobFits(j)
  BY <1>1, <1>3 DEF JobFits
<1> QED BY <1>1, <1>3, <1>4, NewSpaceStep

(* The loader's cursor moves on inside its segments.                       *)
LEMMA AdvanceOK ==
    ASSUME NEW j, JobOK(j), j.op = "load"
    PROVE  /\ JobOK(Advance(j)) /\ Advance(j).op \in {"load", "entry"}
           /\ Advance(j).top = j.top /\ Advance(j).owner = j.owner
           /\ Advance(j).from = j.from
<1>1. /\ j \in JobType /\ j.segs \in Seq(Segment) /\ j.seg \in 1 .. Len(j.segs)
      /\ \A i \in 1 .. Len(j.segs) : j.segs[i].first <= j.segs[i].last
      /\ j.page \in j.segs[j.seg].first .. j.segs[j.seg].last /\ j.page \in Page
      /\ j.from = NoFrame
      /\ j.owner \in Snap => j.from # NoFrame
  BY DEF JobOK, JobType
<1> DEFINE n == Len(j.segs)
<1>2. n \in Nat
  BY <1>1
<1>3. \A i \in 1 .. n : j.segs[i] \in Segment
  BY <1>1
<1>4. \A i \in 1 .. n : j.segs[i].first \in Page /\ j.segs[i].last \in Page
  BY <1>3 DEF Segment
<1> DEFINE s == j.segs[j.seg]
<1>5. s.first \in Page /\ s.last \in Page /\ j.page \in s.first .. s.last
  BY <1>1, <1>4
<1>6. "load" \in Ops /\ "entry" \in Ops
  BY DEF Ops
<1> HIDE DEF s
<1>7. CASE j.page < s.last
  <2>1. Advance(j) = [j EXCEPT !.page = j.page + 1]
    BY <1>7 DEF Advance, s
  <2>2. j.page + 1 \in s.first .. s.last /\ j.page + 1 \in Page
    BY <1>5, <1>7, <1>1 DEF Page
  <2> DEFINE k == [j EXCEPT !.page = j.page + 1]
  <2>3. /\ k \in JobType /\ k.page = j.page + 1 /\ k.op = "load" /\ k.segs = j.segs
        /\ k.seg = j.seg /\ k.top = j.top /\ k.owner = j.owner /\ k.from = j.from
    BY <1>1, <2>2 DEF JobType
  <2> HIDE DEF k
  <2>4. JobOK(k)
    BY <1>1, <2>2, <2>3 DEF JobOK, s
  <2> QED BY <2>1, <2>3, <2>4 DEF k
<1>8. CASE ~(j.page < s.last) /\ j.seg < n
  <2> DEFINE t == j.segs[j.seg + 1]
  <2>1. Advance(j) = [j EXCEPT !.seg = j.seg + 1, !.page = t.first]
    BY <1>8 DEF Advance, s
  <2>2. j.seg + 1 \in 1 .. n /\ j.seg + 1 \in Nat
    BY <1>1, <1>2, <1>8
  <2>3. t.first \in Page /\ t.last \in Page /\ t.first <= t.last
    BY <1>1, <1>4, <2>2
  <2>4. t.first \in t.first .. t.last
    BY <2>3 DEF Page
  <2> HIDE DEF t
  <2> DEFINE k == [j EXCEPT !.seg = j.seg + 1, !.page = t.first]
  <2>5. /\ k \in JobType /\ k.page = t.first /\ k.op = "load" /\ k.segs = j.segs
        /\ k.seg = j.seg + 1 /\ k.top = j.top /\ k.owner = j.owner /\ k.from = j.from
    BY <1>1, <2>2, <2>3 DEF JobType
  <2> HIDE DEF k
  <2>6. JobOK(k)
    BY <1>1, <2>2, <2>4, <2>5 DEF JobOK, t
  <2> QED BY <2>1, <2>5, <2>6 DEF k
<1>9. CASE ~(j.page < s.last) /\ ~(j.seg < n)
  <2> DEFINE k == [j EXCEPT !.op = "entry"]
  <2>1. Advance(j) = k
    BY <1>9 DEF Advance, s
  <2>2. /\ k \in JobType /\ k.op = "entry" /\ k.top = j.top /\ k.owner = j.owner
        /\ k.from = j.from
    BY <1>1, <1>6 DEF JobType
  <2> HIDE DEF k
  <2>3. JobOK(k)
    BY <1>1, <2>2 DEF JobOK
  <2> QED BY <2>1, <2>2, <2>3
<1> QED BY <1>7, <1>8, <1>9

(* Going on to another stage.                                              *)
LEMMA StageOK ==
    ASSUME NEW j, JobOK(j), NEW op \in {"entry", "window", "regs"},
           op # "regs" => j.from = NoFrame, NEW k, k = [j EXCEPT !.op = op]
    PROVE  /\ JobOK(k) /\ k.op = op /\ k.top = j.top /\ k.owner = j.owner
           /\ k.from = j.from
<1>1. j \in JobType /\ op \in Ops
  BY DEF JobOK, Ops
<1>2. /\ k \in JobType /\ k.op = op /\ k.top = j.top /\ k.owner = j.owner
      /\ k.from = j.from
  BY <1>1 DEF JobType
<1> QED BY <1>2 DEF JobOK

Filled(m, n, R, top, page, show) ==
    /\ page \in UserPage
    /\ \A t \in R, q \in UserPage :
          Show(n, t, q) = IF t = top /\ q = page THEN show ELSE Show(m, t, q)

FreshShow(v, perms) == IF perms \cap RWX # {} THEN {<<v, perms>>} ELSE {}

(* A frame is allocated, filled and mapped; when map_page fails it goes    *)
(* back to the pool.                                                       *)
LEMMA MapFresh ==
    ASSUME NEW m, NEW R, NEW G, NEW L, Forest(m, R, G, L, {}), NEW top \in R,
           NEW f \in Frame, f \notin m.taken, NEW v \in 0 .. StaleData,
           NEW page \in Page, NEW perms, Fit(f, perms),
           NEW a, a = TakeSet(m, f, v), NEW y, y = MapPage(a, top, page, f, perms)
    PROVE  /\ y.ok \in BOOLEAN
           /\ ~y.ok => Forest(Give(y.m, {f}), R, G, L, {}) /\ Keeps(m, Give(y.m, {f}), R)
           /\ y.ok => /\ Forest(y.m, R, G, L, {})
                      /\ Filled(m, y.m, R, top, page, FreshShow(v, perms))
<1>1. m \in Mem /\ f \notin G
  BY ForestTypes
<1>2. /\ a \in Mem /\ a.taken = m.taken \cup {f} /\ a.data[f] = v
      /\ \A g \in Frame : g # f => a.tab[g] = m.tab[g]
      /\ \A g \in Frame : g # f => a.data[g] = m.data[g]
  BY <1>1, TakeSetIs
<1> DEFINE H == {} \cup {f}
<1>3. Forest(a, R, G, L, H) /\ Keeps(m, a, R)
  BY <1>2, TakeForest
<1>4. f \in H \cup {Window} /\ f \in H \cup G /\ H \ {f} = {} /\ G \ {f} = G
  BY <1>1
<1> HIDE DEF H
<1>5. /\ y.ok \in BOOLEAN
      /\ ~y.ok => Forest(y.m, R, G, L, H) /\ Keeps(a, y.m, R)
      /\ y.ok => Mapped(a, R, G, L, H, top, page, f, perms, y.m)
  BY <1>3, <1>4, MapForest
<1>6. ASSUME ~y.ok
      PROVE  Forest(Give(y.m, {f}), R, G, L, {}) /\ Keeps(m, Give(y.m, {f}), R)
  <2>1. /\ Forest(Give(y.m, {f}), R, G \ {f}, L, H \ {f})
        /\ Keeps(y.m, Give(y.m, {f}), R)
    BY <1>4, <1>5, <1>6, GiveForest
  <2>2. Keeps(m, y.m, R)
    BY <1>3, <1>5, <1>6, KeepsTrans
  <2>3. Keeps(m, Give(y.m, {f}), R)
    BY <2>1, <2>2, KeepsTrans
  <2> QED BY <1>4, <2>1, <2>3
<1>7. ASSUME y.ok
      PROVE  /\ Forest(y.m, R, G, L, {})
             /\ Filled(m, y.m, R, top, page, FreshShow(v, perms))
  <2>1. LeafShow(a, f, perms) = FreshShow(v, perms)
    BY <1>2 DEF LeafShow, FreshShow
  <2>2. /\ Forest(y.m, R, G, L, H \ {f}) /\ page \in UserPage
        /\ \A t \in R, q \in UserPage :
              Show(y.m, t, q) = IF t = top /\ q = page THEN LeafShow(a, f, perms)
                                ELSE Show(a, t, q)
    BY <1>5, <1>7 DEF Mapped
  <2>3. \A t \in R, q \in UserPage : Show(a, t, q) = Show(m, t, q)
    BY <1>3 DEF Keeps
  <2> QED BY <1>4, <2>1, <2>2, <2>3 DEF Filled
<1> QED BY <1>5, <1>6, <1>7

LEMMA KeepsSelf == \A m, R : Keeps(m, m, R)
BY DEF Keeps

LEMMA KeepsFewer ==
    ASSUME NEW m, NEW n, NEW R, NEW t, Keeps(m, n, R)
    PROVE  Keeps(m, n, R \ {t})
BY DEF Keeps

LEMMA FilledKeeps ==
    ASSUME NEW m, NEW n, NEW R, NEW top, NEW page, NEW show, Filled(m, n, R, top, page, show)
    PROVE  Keeps(m, n, R \ {top})
BY DEF Filled, Keeps

(* The job's root.                                                         *)
LEMMA JobRoot ==
    ASSUME AddressInv, job.op # "none"
    PROVE  /\ job.top \in Roots /\ job.top # NoFrame
           /\ Forest(mem, Roots, RegFrames, leaked, {}) /\ mem \in Mem
           /\ leaked \cup {} = leaked
BY RootsAre DEF AddressInv, JobInv, SpaceInv

(* A construction that fails without having touched the memory.            *)
LEMMA AbandonEarly ==
    ASSUME AddressInv, job.op # "none", Abandon(mem, {})
    PROVE  AddressInv'
<1>1. Forest(mem, Roots, RegFrames, leaked \cup {}, {})
  BY JobRoot
<1>2. Keeps(mem, mem, Roots \ {job.top})
  BY KeepsSelf
<1> QED BY <1>1, <1>2, AbandonStep

LEMMA LoadPageStep ==
    ASSUME AddressInv, LoadPage
    PROVE  AddressInv'
<1> DEFINE s == job.segs[job.seg]
<1> DEFINE f == Pick(Free(mem))
<1> DEFINE perms == s.perms \cup {"U"}
<1> DEFINE a == TakeSet(mem, f, 1)
<1> DEFINE r == MapPage(a, job.top, job.page, f, perms)
<1>1. /\ job.op = "load"
      /\ \/ /\ WxViolation(s) \/ Free(mem) = {}
            /\ Abandon(mem, {})
         \/ /\ ~WxViolation(s) /\ Free(mem) # {} /\ job.page >= s.hole
            /\ Abandon(Take(mem, f), {f})
         \/ /\ ~WxViolation(s) /\ Free(mem) # {} /\ job.page < s.hole /\ ~r.ok
            /\ Abandon(Give(r.m, {f}), {})
         \/ /\ ~WxViolation(s) /\ Free(mem) # {} /\ job.page < s.hole /\ r.ok
            /\ Proceed(r.m, Advance(job))
  BY DEF LoadPage, TakeSet
<1>2. job.op # "none"
  BY <1>1
<1>3. /\ job.top \in Roots /\ Forest(mem, Roots, RegFrames, leaked, {}) /\ mem \in Mem
      /\ leaked \cup {} = leaked
  BY <1>2, JobRoot
<1>4. JobOK(job) /\ job.page \in Page
  BY JobIsOK
<1>5. s.perms \subseteq RWX
  <2>1. job.segs \in Seq(Segment) /\ job.seg \in 1 .. Len(job.segs)
    BY <1>1, <1>4 DEF JobOK, JobType
  <2>2. s \in Segment
    BY <2>1
  <2> HIDE DEF s
  <2> QED BY <2>2 DEF Segment
<1>6. CASE Abandon(mem, {})
  BY <1>2, <1>6, AbandonEarly
<1>7. CASE /\ ~WxViolation(s) /\ Free(mem) # {} /\ job.page >= s.hole
           /\ Abandon(Take(mem, f), {f})
  <2>1. f \in Frame /\ f \notin mem.taken
    BY <1>7, PickIn
  <2> HIDE DEF f, s
  <2> DEFINE b == Take(mem, f)
  <2> DEFINE H == {} \cup {f}
  <2>2. /\ b \in Mem /\ b.taken = mem.taken \cup {f}
        /\ \A g \in Frame : g # f => b.tab[g] = mem.tab[g]
        /\ \A g \in Frame : g # f => b.data[g] = mem.data[g]
    BY <1>3, <2>1, TakeIs
  <2> HIDE DEF b
  <2>3. Forest(b, Roots, RegFrames, leaked, H) /\ Keeps(mem, b, Roots)
    BY <1>3, <2>1, <2>2, TakeForest
  <2>4. f \in H /\ H \ {f} = {}
    OBVIOUS
  <2> HIDE DEF H
  <2>5. Forest(b, Roots, RegFrames, leaked \cup {f}, {})
    <3>1. Forest(b, Roots, RegFrames, leaked \cup {f}, H \ {f})
      BY <2>3, <2>4, DropForest
    <3> QED BY <2>4, <3>1
  <2>6. Keeps(mem, b, Roots \ {job.top})
    BY <2>3, KeepsFewer
  <2>7. Abandon(b, {f})
    BY <1>7 DEF b
  <2> QED BY <1>2, <2>5, <2>6, <2>7, AbandonStep
<1>8. CASE /\ ~WxViolation(s) /\ Free(mem) # {}
           /\ \/ ~r.ok /\ Abandon(Give(r.m, {f}), {})
              \/ r.ok /\ Proceed(r.m, Advance(job))
  <2>1. f \in Frame /\ f \notin mem.taken
    BY <1>8, PickIn
  <2>2. Fit(f, perms)
    BY <1>5, <1>8, <2>1, Outside DEF Fit, RWX, WxViolation
  <2>3. 1 \in 0 .. StaleData
    BY DEF StaleData
  <2> HIDE DEF f, s, perms, a
  <2> DEFINE show == FreshShow(1, perms)
  <2>0. a = TakeSet(mem, f, 1) /\ r = MapPage(a, job.top, job.page, f, perms)
    BY DEF a
  <2> HIDE DEF r
  <2>4. /\ ~r.ok => /\ Forest(Give(r.m, {f}), Roots, RegFrames, leaked, {})
                    /\ Keeps(mem, Give(r.m, {f}), Roots)
        /\ r.ok => /\ Forest(r.m, Roots, RegFrames, leaked, {})
                   /\ Filled(mem, r.m, Roots, job.top, job.page, show)
    BY <1>3, <1>4, <2>0, <2>1, <2>2, <2>3, MapFresh
  <2> HIDE DEF show
  <2>5. CASE ~r.ok /\ Abandon(Give(r.m, {f}), {})
    <3>1. Keeps(mem, Give(r.m, {f}), Roots \ {job.top})
      BY <2>4, <2>5, KeepsFewer
    <3>2. Forest(Give(r.m, {f}), Roots, RegFrames, leaked \cup {}, {})
      BY <1>3, <2>4, <2>5
    <3> QED BY <1>2, <2>5, <3>1, <3>2, AbandonStep
  <2>6. CASE r.ok /\ Proceed(r.m, Advance(job))
    <3>1. Keeps(mem, r.m, Roots \ {job.top})
      BY <2>4, <2>6, FilledKeeps
    <3>2. /\ JobOK(Advance(job)) /\ Advance(job).op \in {"load", "entry"}
          /\ Advance(job).top = job.top /\ Advance(job).owner = job.owner
          /\ Advance(job).from = job.from
      BY <1>1, <1>4, AdvanceOK
    <3>3. JobInv' /\ OwnerInv' /\ SpaceInv' /\ KeptInv'
      <4>1. Advance(job).op # "none"
        BY <3>2
      <4>2. Forest(r.m, Roots, RegFrames, leaked, {})
        BY <2>4, <2>6
      <4> QED BY <1>2, <2>6, <3>1, <3>2, <4>1, <4>2, ProceedStep
    <3>4. job'.op \in {"load", "entry"}
      BY <2>6, <3>2 DEF Proceed
    <3>5. CopyInv'
      BY <3>4 DEF CopyInv
    <3> QED BY <3>3, <3>5 DEF AddressInv
  <2> QED BY <1>8, <2>5, <2>6
<1> HIDE DEF s, f, perms, a, r
<1> QED BY <1>1, <1>6, <1>7, <1>8

LEMMA LoadEntryStep ==
    ASSUME AddressInv, LoadEntry
    PROVE  AddressInv'
<1> DEFINE next == [job EXCEPT !.op = "window"]
<1>1. job.op = "entry" /\ job.op # "none" /\ (Abandon(mem, {}) \/ Proceed(mem, next))
  BY DEF LoadEntry
<1>2. CASE Abandon(mem, {})
  BY <1>1, <1>2, AbandonEarly
<1>3. CASE Proceed(mem, next)
  <2>1. job.from = NoFrame /\ JobOK(job)
    BY <1>1, JobIsOK DEF JobOK
  <2>2. /\ JobOK(next) /\ next.op = "window" /\ next.top = job.top
        /\ next.owner = job.owner /\ next.from = job.from
    BY <2>1, StageOK
  <2> HIDE DEF next
  <2>3. Forest(mem, Roots, RegFrames, leaked, {}) /\ Keeps(mem, mem, Roots \ {job.top})
    BY <1>1, JobRoot, KeepsSelf
  <2>4. next.op # "none"
    BY <2>2
  <2>5. JobInv' /\ OwnerInv' /\ SpaceInv' /\ KeptInv'
    BY <1>1, <1>3, <2>2, <2>3, <2>4, ProceedStep
  <2>6. job'.op = "window"
    BY <1>3, <2>2 DEF Proceed
  <2>7. CopyInv'
    BY <2>6 DEF CopyInv
  <2> QED BY <2>5, <2>7 DEF AddressInv
<1> QED BY <1>1, <1>2, <1>3

(* The frame of a window is not the pool's: nothing is in the hand.        *)
LEMMA MapForeign ==
    ASSUME NEW m, NEW R, NEW G, NEW L, Forest(m, R, G, L, {}), NEW top \in R,
           NEW page \in Page, NEW perms, Fit(Window, perms),
           NEW y, y = MapPage(m, top, page, Window, perms)
    PROVE  /\ y.ok \in BOOLEAN /\ Forest(y.m, R, G, L, {})
           /\ ~y.ok => Keeps(m, y.m, R)
           /\ y.ok => Filled(m, y.m, R, top, page, LeafShow(m, Window, perms))
<1>1. Window \in {} \cup {Window} /\ {} \ {Window} = {}
  OBVIOUS
<1>2. /\ y.ok \in BOOLEAN
      /\ ~y.ok => Forest(y.m, R, G, L, {}) /\ Keeps(m, y.m, R)
      /\ y.ok => Mapped(m, R, G, L, {}, top, page, Window, perms, y.m)
  BY <1>1, MapForest
<1>3. y.ok => Forest(y.m, R, G, L, {} \ {Window})
  BY <1>2 DEF Mapped
<1>4. y.ok => Filled(m, y.m, R, top, page, LeafShow(m, Window, perms))
  BY <1>2 DEF Mapped, Filled
<1> QED BY <1>1, <1>2, <1>3, <1>4

LEMMA MapWindowStep ==
    ASSUME AddressInv, MapWindow
    PROVE  AddressInv'
<1> DEFINE perms == {"R", "U"}
<1> DEFINE r == MapPage(mem, job.top, job.window, Window, perms)
<1> DEFINE next == [job EXCEPT !.op = "regs"]
<1>1. /\ job.op = "window" /\ job.op # "none"
      /\ \/ job.window = NoPage /\ Proceed(mem, next)
         \/ job.window # NoPage /\ r.ok /\ Proceed(r.m, next)
         \/ job.window # NoPage /\ ~r.ok /\ Abandon(r.m, {})
  BY DEF MapWindow
<1>2. JobOK(job) /\ job.from = NoFrame /\ job.window \in Page \cup {NoPage}
  BY <1>1, JobIsOK DEF JobOK
<1>3. /\ JobOK(next) /\ next.op = "regs" /\ next.top = job.top
      /\ next.owner = job.owner /\ next.from = job.from
  BY <1>2, StageOK
<1> HIDE DEF next
<1>4. /\ job.top \in Roots /\ Forest(mem, Roots, RegFrames, leaked, {})
      /\ leaked \cup {} = leaked
  BY <1>1, JobRoot
<1>5. ASSUME NEW m, Forest(m, Roots, RegFrames, leaked, {}),
             Keeps(mem, m, Roots \ {job.top}), Proceed(m, next)
      PROVE  AddressInv'
  <2>1. next.op # "none"
    BY <1>3
  <2>2. JobInv' /\ OwnerInv' /\ SpaceInv' /\ KeptInv'
    BY <1>1, <1>3, <1>5, <2>1, ProceedStep
  <2>3. job'.op = "regs" /\ job'.from = NoFrame
    BY <1>2, <1>3, <1>5 DEF Proceed
  <2>4. CopyInv'
    BY <2>3 DEF CopyInv
  <2> QED BY <2>2, <2>4 DEF AddressInv
<1>6. CASE job.window = NoPage /\ Proceed(mem, next)
  BY <1>4, <1>5, <1>6, KeepsSelf
<1>7. CASE job.window # NoPage
  <2>1. job.window \in Page
    BY <1>2, <1>7
  <2>2. Fit(Window, perms)
    BY DEF Fit, RWX
  <2> HIDE DEF perms
  <2>3. /\ Forest(r.m, Roots, RegFrames, leaked, {})
        /\ ~r.ok => Keeps(mem, r.m, Roots)
        /\ r.ok => Filled(mem, r.m, Roots, job.top, job.window, LeafShow(mem, Window, perms))
    BY <1>4, <2>1, <2>2, MapForeign
  <2>4. Keeps(mem, r.m, Roots \ {job.top})
    <3> HIDE DEF r
    <3>1. CASE r.ok
      BY <2>3, <3>1, FilledKeeps
    <3>2. CASE ~r.ok
      BY <2>3, <3>2, KeepsFewer
    <3> QED BY <3>1, <3>2
  <2> HIDE DEF r
  <2>5. CASE Proceed(r.m, next)
    BY <1>5, <2>3, <2>4, <2>5
  <2>6. CASE Abandon(r.m, {})
    <3>1. Forest(r.m, Roots, RegFrames, leaked \cup {}, {})
      BY <1>4, <2>3
    <3> QED BY <1>1, <2>4, <2>6, <3>1, AbandonStep
  <2> QED BY <1>1, <1>7, <2>5, <2>6
<1> QED BY <1>1, <1>6, <1>7

(* What deep_copy reads of its source.                                     *)
LEMMA SourceIs ==
    ASSUME NEW m, NEW R, NEW G, NEW L, NEW H, Forest(m, R, G, L, H), NEW t \in R,
           NEW q \in UserPage, NEW e, e = Entry(m, t, q)
    PROVE  /\ ~IsLeaf(e) => Show(m, t, q) = {}
           /\ IsLeaf(e) =>
                /\ "U" \in e.p /\ Fit(e.to, e.p) /\ CopyPerms(e.p) = e.p
                /\ e.to \in Frame => Show(m, t, q) = FreshShow(m.data[e.to], e.p)
                /\ e.to \notin Frame => /\ e.to = Window
                                        /\ Show(m, t, q) = LeafShow(m, Window, e.p)
<1>1. PICK role : Shape(m, role) /\ Held(role, R, G, L, H)
  BY DEF Forest
<1>2. t \in Frame /\ role[t] = "root"
  BY <1>1 DEF Forest, Held
<1>3. PageTo(role, e)
  BY <1>1, <1>2, EntryPage
<1>4. ~IsLeaf(e) => Show(m, t, q) = {}
  BY DEF Show
<1>5. ASSUME IsLeaf(e)
      PROVE  /\ "U" \in e.p /\ Fit(e.to, e.p) /\ CopyPerms(e.p) = e.p
             /\ e.to \in Frame => Show(m, t, q) = FreshShow(m.data[e.to], e.p)
             /\ e.to \notin Frame => /\ e.to = Window
                                     /\ Show(m, t, q) = LeafShow(m, Window, e.p)
  <2>1. PICK f \in Frame \cup {Window}, p \in SUBSET Perm : Fit(f, p) /\ e = LeafPte(f, p)
    BY <1>3, <1>5, NoPteIs DEF PageTo
  <2>2. e.to = f /\ e.p = p
    BY <2>1, LeafIs
  <2>3. "U" \in e.p /\ Fit(e.to, e.p) /\ CopyPerms(e.p) = e.p
    BY <2>1, <2>2 DEF Fit, CopyPerms
  <2>4. e.p \cap RWX # {}
    BY <1>5 DEF IsLeaf
  <2>5. Show(m, t, q) = {<<IF e.to \in Frame THEN m.data[e.to] ELSE e.to, e.p>>}
    BY <1>5 DEF Show
  <2>6. e.to \notin Frame => e.to = Window
    BY <2>2
  <2> QED BY <2>3, <2>4, <2>5, <2>6 DEF FreshShow, LeafShow
<1> QED BY <1>4, <1>5

(* The page has been copied: the copy agrees with its source there too.    *)
LEMMA CopyAdvance ==
    ASSUME AddressInv, job.op = "copy", NEW m, NEW next, Proceed(m, next),
           next = IF job.page = KernelPage - 1 THEN [job EXCEPT !.op = "regs"]
                  ELSE [job EXCEPT !.page = @ + 1],
           Forest(m, Roots, RegFrames, leaked, {}),
           Filled(mem, m, Roots, job.top, job.page, Show(mem, root[job.from], job.page))
    PROVE  AddressInv'
<1> DEFINE top == job.top
<1> DEFINE src == root[job.from]
<1> DEFINE page == job.page
<1>1. /\ JobOK(job) /\ job.from \in Owner /\ page \in UserPage /\ src # NoFrame
      /\ job \in JobType
  BY DEF AddressInv, JobInv, JobOK, JobType
<1>2. top \in Roots /\ src \in Roots /\ src # top
  <2>1. job.op # "none"
    OBVIOUS
  <2> QED BY <1>1, <2>1, JobRoot, RootsAre DEF AddressInv, OwnerInv
<1>3. \A q \in UserPage : Show(mem, top, q) = IF q < page THEN Show(mem, src, q) ELSE {}
  BY DEF AddressInv, CopyInv
<1>4. \A t \in Roots, q \in UserPage :
        Show(m, t, q) = IF t = top /\ q = page THEN Show(mem, src, page) ELSE Show(mem, t, q)
  BY DEF Filled
<1>5. ASSUME NEW q \in UserPage
      PROVE  /\ Show(m, src, q) = Show(mem, src, q)
             /\ Show(m, top, q) = IF q < page THEN Show(mem, src, q)
                                  ELSE IF q = page THEN Show(mem, src, q) ELSE {}
  <2> HIDE DEF top, src, page
  <2>1. Show(m, src, q) = Show(mem, src, q)
    BY <1>2, <1>4
  <2>2. ~(page < page)
    BY <1>1 DEF UserPage, KernelPage
  <2>3. CASE q = page
    BY <1>2, <1>4, <2>1, <2>2, <2>3
  <2>4. CASE q # page
    BY <1>2, <1>3, <1>4, <2>1, <2>4
  <2> QED BY <2>1, <2>3, <2>4
<1>6. Keeps(mem, m, Roots \ {top})
  BY FilledKeeps
<1>7. /\ mem' = m /\ job' = next /\ root' = root
  BY DEF Proceed
<1>8. CASE page = KernelPage - 1
  <2>1. next = [job EXCEPT !.op = "regs"]
    BY <1>8
  <2>2. /\ JobOK(next) /\ next.op = "regs" /\ next.top = job.top
        /\ next.owner = job.owner /\ next.from = job.from
    BY ZenonT(40), <1>1, <2>1, StageOK
  <2>3. next.op # "none" /\ job.op # "none"
    BY <2>2
  <2>4. JobInv' /\ OwnerInv' /\ SpaceInv' /\ KeptInv'
    BY <1>6, <2>2, <2>3, ProceedStep
  <2>5. \A q \in UserPage : q < page \/ q = page
    BY <1>8 DEF UserPage, KernelPage
  <2>6. \A q \in UserPage : Show(m, top, q) = Show(m, src, q)
    <3> HIDE DEF top, src, page
    <3> QED BY <1>5, <2>5
  <2>7. /\ job'.op = "regs" /\ job'.top = top /\ root'[job'.from] = src
    BY <1>7, <2>2
  <2>8. CopyInv'
    BY <1>7, <2>6, <2>7 DEF CopyInv
  <2> QED BY <2>4, <2>8 DEF AddressInv
<1>9. CASE page # KernelPage - 1
  <2>1. next = [job EXCEPT !.page = page + 1]
    BY <1>9
  <2>2. page + 1 \in UserPage /\ page + 1 \in Page
    BY <1>1, <1>9 DEF UserPage, KernelPage, Page
  <2>3. /\ next \in JobType /\ next.op = "copy" /\ next.top = job.top /\ next.page = page + 1
        /\ next.owner = job.owner /\ next.from = job.from
    BY <1>1, <2>1, <2>2 DEF JobType
  <2>4. JobOK(next)
    BY <1>1, <2>2, <2>3 DEF JobOK
  <2>5. next.op # "none" /\ job.op # "none"
    BY <2>3
  <2>6. JobInv' /\ OwnerInv' /\ SpaceInv' /\ KeptInv'
    BY <1>6, <2>3, <2>4, <2>5, ProceedStep
  <2>7. \A q \in UserPage : q < page + 1 <=> q < page \/ q = page
    BY <1>1 DEF UserPage, KernelPage
  <2>8. \A q \in UserPage : Show(m, top, q) = IF q < page + 1 THEN Show(m, src, q) ELSE {}
    <3> HIDE DEF top, src, page
    <3> QED BY <1>5, <2>7
  <2>9. /\ job'.op = "copy" /\ job'.top = top /\ root'[job'.from] = src
        /\ job'.page = page + 1
    BY <1>7, <2>3
  <2>10. CopyInv'
    <3>1. \A q \in UserPage : Show(mem', job'.top, q) =
             IF q < job'.page THEN Show(mem', root'[job'.from], q) ELSE {}
      <4> HIDE DEF top, src, page
      <4> QED BY <1>7, <2>8, <2>9
    <3>2. job'.op # "regs"
      BY <2>9
    <3> QED BY <3>1, <3>2 DEF CopyInv
  <2> QED BY <2>6, <2>10 DEF AddressInv
<1> QED BY <1>8, <1>9

LEMMA CopyPageStep ==
    ASSUME AddressInv, CopyPage
    PROVE  AddressInv'
<1> DEFINE src == root[job.from]
<1> DEFINE e == Entry(mem, src, job.page)
<1> DEFINE f == Pick(Free(mem))
<1> DEFINE own == IsLeaf(e) /\ "U" \in e.p
<1> DEFINE p == CopyPerms(e.p)
<1> DEFINE a == TakeSet(mem, f, mem.data[e.to])
<1> DEFINE copy == MapPage(a, job.top, job.page, f, p)
<1> DEFINE link == MapPage(mem, job.top, job.page, e.to, p)
<1> DEFINE next == IF job.page = KernelPage - 1 THEN [job EXCEPT !.op = "regs"]
                   ELSE [job EXCEPT !.page = @ + 1]
<1>1. /\ job.op = "copy"
      /\ \/ ~own /\ Proceed(mem, next)
         \/ own /\ e.to \notin Frame /\ link.ok /\ Proceed(link.m, next)
         \/ own /\ e.to \notin Frame /\ ~link.ok /\ Abandon(link.m, {})
         \/ own /\ e.to \in Frame /\ Free(mem) = {} /\ Abandon(mem, {})
         \/ own /\ e.to \in Frame /\ Free(mem) # {} /\ copy.ok /\ Proceed(copy.m, next)
         \/ own /\ e.to \in Frame /\ Free(mem) # {} /\ ~copy.ok /\ Abandon(Give(copy.m, {f}), {})
  BY DEF CopyPage, TakeSet, Aliased
<1> HIDE DEF next
<1>2. /\ job.from \in Owner /\ job.page \in UserPage /\ src # NoFrame /\ job.page \in Page
      /\ job.op # "none"
  BY <1>1 DEF AddressInv, JobInv, JobType
<1>3. /\ job.top \in Roots /\ Forest(mem, Roots, RegFrames, leaked, {}) /\ mem \in Mem
      /\ leaked \cup {} = leaked
  BY <1>2, JobRoot
<1>4. src \in Roots
  BY <1>2, RootsAre
<1>5. ASSUME NEW m, Proceed(m, next), Forest(m, Roots, RegFrames, leaked, {}),
             Filled(mem, m, Roots, job.top, job.page, Show(mem, src, job.page))
      PROVE  AddressInv'
  BY <1>1, <1>5, CopyAdvance DEF next
<1> HIDE DEF src
<1>6. /\ ~IsLeaf(e) => Show(mem, src, job.page) = {}
      /\ IsLeaf(e) =>
           /\ "U" \in e.p /\ Fit(e.to, e.p) /\ p = e.p
           /\ e.to \in Frame => Show(mem, src, job.page) = FreshShow(mem.data[e.to], e.p)
           /\ e.to \notin Frame => /\ e.to = Window
                                   /\ Show(mem, src, job.page) = LeafShow(mem, Window, e.p)
  BY <1>2, <1>3, <1>4, SourceIs
<1> HIDE DEF e, p
<1>7. CASE ~own /\ Proceed(mem, next)
  <2>1. Show(mem, src, job.page) = {}
    BY <1>6, <1>7
  <2>2. Show(mem, job.top, job.page) = {}
    <3>1. ~(job.page < job.page)
      BY <1>2 DEF Page
    <3> QED BY <1>1, <1>2, <3>1 DEF AddressInv, CopyInv
  <2>3. Filled(mem, mem, Roots, job.top, job.page, Show(mem, src, job.page))
    BY <1>2, <2>1, <2>2 DEF Filled
  <2> QED BY <1>3, <1>5, <1>7, <2>3
<1>8. CASE /\ own /\ e.to \notin Frame
           /\ \/ link.ok /\ Proceed(link.m, next)
              \/ ~link.ok /\ Abandon(link.m, {})
  <2>1. /\ e.to = Window /\ p = e.p /\ Fit(Window, p)
        /\ Show(mem, src, job.page) = LeafShow(mem, Window, p)
    BY <1>6, <1>8
  <2>2. link = MapPage(mem, job.top, job.page, Window, p)
    BY <2>1
  <2> HIDE DEF link
  <2>3. /\ Forest(link.m, Roots, RegFrames, leaked, {})
        /\ ~link.ok => Keeps(mem, link.m, Roots)
        /\ link.ok => Filled(mem, link.m, Roots, job.top, job.page, LeafShow(mem, Window, p))
    BY <1>2, <1>3, <2>1, <2>2, MapForeign
  <2>4. CASE link.ok /\ Proceed(link.m, next)
    <3>1. Filled(mem, link.m, Roots, job.top, job.page, Show(mem, src, job.page))
      BY <2>1, <2>3, <2>4
    <3> QED BY <1>5, <2>3, <2>4, <3>1
  <2>5. CASE ~link.ok /\ Abandon(link.m, {})
    <3>1. Keeps(mem, link.m, Roots \ {job.top})
      BY <2>3, <2>5, KeepsFewer
    <3>2. Forest(link.m, Roots, RegFrames, leaked \cup {}, {})
      BY <1>3, <2>3
    <3> QED BY <1>2, <2>5, <3>1, <3>2, AbandonStep
  <2> QED BY <1>8, <2>4, <2>5
<1>9. CASE Abandon(mem, {})
  BY <1>2, <1>9, AbandonEarly
<1>10. CASE /\ own /\ e.to \in Frame /\ Free(mem) # {}
            /\ \/ copy.ok /\ Proceed(copy.m, next)
               \/ ~copy.ok /\ Abandon(Give(copy.m, {f}), {})
  <2>1. f \in Frame /\ f \notin mem.taken
    BY <1>10, PickIn
  <2>2. /\ p = e.p /\ Fit(e.to, p)
        /\ Show(mem, src, job.page) = FreshShow(mem.data[e.to], p)
    BY <1>6, <1>10
  <2>3. Fit(f, p)
    BY <2>1, <2>2, Outside DEF Fit
  <2>4. mem.data[e.to] \in 0 .. StaleData
    BY <1>3, <1>10 DEF Mem
  <2> DEFINE v == mem.data[e.to]
  <2>5. a = TakeSet(mem, f, v) /\ copy = MapPage(a, job.top, job.page, f, p)
    OBVIOUS
  <2> HIDE DEF f, v, a, copy
  <2>6. v \in 0 .. StaleData
    BY <2>4 DEF v
  <2>7. /\ ~copy.ok => /\ Forest(Give(copy.m, {f}), Roots, RegFrames, leaked, {})
                       /\ Keeps(mem, Give(copy.m, {f}), Roots)
        /\ copy.ok => /\ Forest(copy.m, Roots, RegFrames, leaked, {})
                      /\ Filled(mem, copy.m, Roots, job.top, job.page, FreshShow(v, p))
    BY <1>2, <1>3, <2>1, <2>3, <2>5, <2>6, MapFresh
  <2>8. CASE copy.ok /\ Proceed(copy.m, next)
    <3>1. Filled(mem, copy.m, Roots, job.top, job.page, Show(mem, src, job.page))
      BY <2>2, <2>7, <2>8 DEF v
    <3> QED BY <1>5, <2>7, <2>8, <3>1
  <2>9. CASE ~copy.ok /\ Abandon(Give(copy.m, {f}), {})
    <3>1. Keeps(mem, Give(copy.m, {f}), Roots \ {job.top})
      BY <2>7, <2>9, KeepsFewer
    <3>2. Forest(Give(copy.m, {f}), Roots, RegFrames, leaked \cup {}, {})
      BY <1>3, <2>7, <2>9
    <3> QED BY <1>2, <2>9, <3>1, <3>2, AbandonStep
  <2> QED BY <1>10, <2>8, <2>9
<1> HIDE DEF own, link, copy, a, f
<1> QED BY <1>1, <1>7, <1>8, <1>9, <1>10

(* The space is handed to its owner.                                       *)
LEMMA FinishStep ==
    ASSUME AddressInv, Finish
    PROVE  AddressInv'
<1> DEFINE f == Pick(Free(mem))
<1> DEFINE top == job.top
<1> DEFINE src == root[job.from]
<1>1. job.op = "regs" /\ job.op # "none"
  BY DEF Finish
<1>2. CASE Abandon(mem, {})
  BY <1>1, <1>2, AbandonEarly
<1>3. ASSUME NEW o \in Slots, Free(mem) # {}, mem' = Take(mem, f),
             regs' = [regs EXCEPT ![o] = f], root' = [root EXCEPT ![o] = top],
             kept' = IF o \in Snap THEN [kept EXCEPT ![o] = View(mem, src)] ELSE kept,
             job' = NoJob, leaked' = leaked
      PROVE  AddressInv'
  <2>1. /\ root \in [Owner -> Frame \cup {NoFrame}] /\ regs \in [Owner -> Frame \cup {NoFrame}]
        /\ \A x \in Owner : root[x] = NoFrame <=> regs[x] = NoFrame
        /\ \A x, y \in Owner : root[x] = root[y] /\ root[x] # NoFrame => x = y
        /\ \A x, y \in Owner : regs[x] = regs[y] /\ regs[x] # NoFrame => x = y
        /\ \A x \in Owner : root[x] = top => root[x] = NoFrame
    BY DEF AddressInv, OwnerInv
  <2>2. /\ job.owner \in Owner \cup {NoFrame} /\ (job.owner # NoFrame => root[job.owner] = NoFrame)
        /\ job.owner \in Snap => job.from # NoFrame
    BY DEF AddressInv, JobInv, JobType
  <2>3. /\ top \in Roots /\ top # NoFrame /\ mem \in Mem
        /\ Forest(mem, Roots, RegFrames, leaked, {})
    BY <1>1, JobRoot
  <2>4. o \in Owner /\ root[o] = NoFrame /\ regs[o] = NoFrame /\ (o \in Snap => job.from # NoFrame)
    <3>1. o \in Owner /\ root[o] = NoFrame /\ (o \in Snap => job.owner = o)
      BY <2>2, LoadAssumption DEF Slots, Owner
    <3> QED BY <2>1, <2>2, <3>1
  <2>5. f \in Frame /\ f \notin mem.taken
    BY <1>3, PickIn
  <2> HIDE DEF f
  <2>6. f # NoFrame /\ \A x \in Owner : regs[x] # f
    <3>1. f # NoFrame /\ f \notin RegFrames
      BY <2>5, Outside, RootsAre
    <3> QED BY <3>1, RootsAre
  <2>7. /\ mem' \in Mem /\ mem'.taken = mem.taken \cup {f}
        /\ \A g \in Frame : g # f => mem'.tab[g] = mem.tab[g]
        /\ \A g \in Frame : g # f => mem'.data[g] = mem.data[g]
    BY <1>3, <2>3, <2>5, TakeIs
  <2> DEFINE H == {} \cup {f}
  <2>8. Forest(mem', Roots, RegFrames, leaked, H) /\ Keeps(mem, mem', Roots)
    BY <2>3, <2>5, <2>7, TakeForest
  <2>9. f \in H /\ H \ {f} = {}
    OBVIOUS
  <2> HIDE DEF H
  <2>10. Forest(mem', Roots, RegFrames \cup {f}, leaked, {})
    <3>1. Forest(mem', Roots, RegFrames \cup {f}, leaked, H \ {f})
      BY <2>8, <2>9, DropForest
    <3> QED BY <2>9, <3>1
  <2>11. /\ root'[o] = top /\ \A x \in Owner : x # o => root'[x] = root[x]
         /\ regs'[o] = f /\ \A x \in Owner : x # o => regs'[x] = regs[x]
         /\ root' \in [Owner -> Frame \cup {NoFrame}]
         /\ regs' \in [Owner -> Frame \cup {NoFrame}]
    <3>1. top \in Frame
      BY <2>3, RootsAre
    <3> HIDE DEF top
    <3> QED BY <1>3, <2>1, <2>4, <2>5, <3>1
  <2>12. job'.top = NoFrame
    BY <1>3 DEF NoJob
  <2>13. OwnerInv'
    <3> HIDE DEF top
    <3> QED BY <2>1, <2>3, <2>4, <2>6, <2>11, <2>12 DEF OwnerInv
  <2>14. Roots' = Roots
    <3> HIDE DEF top
    <3>1. \A t : t \in Roots <=> t # NoFrame /\ (t = top \/ \E x \in Owner : root[x] = t)
      BY RootsAre DEF top
    <3>2. \A t : t \in Roots' <=> t # NoFrame /\ \E x \in Owner : root'[x] = t
      BY <2>12 DEF Roots
    <3>3. \A t : t \in Roots <=> t \in Roots'
      BY <2>3, <2>4, <2>11, <3>1, <3>2
    <3> QED BY <3>3
  <2>15. RegFrames' = RegFrames \cup {f}
    <3>1. \A t : t \in RegFrames <=> t # NoFrame /\ \E x \in Owner : regs[x] = t
      BY RootsAre
    <3>2. \A t : t \in RegFrames' <=> t # NoFrame /\ \E x \in Owner : regs'[x] = t
      BY DEF RegFrames
    <3>3. \A t : t \in RegFrames' <=> t \in RegFrames \/ t = f
      BY <2>4, <2>6, <2>11, <3>1, <3>2
    <3> QED BY <3>3
  <2>16. SpaceInv'
    BY <1>3, <2>10, <2>14, <2>15 DEF SpaceInv
  <2>17. JobInv'
    <3>1. NoFrame \notin Snap /\ NoFrame \notin Owner
      BY Outside DEF Owner
    <3> QED BY <1>3, <3>1, NoJobIs DEF JobInv, NoJob
  <2>18. CopyInv'
    BY <1>3 DEF CopyInv, NoJob
  <2>19. KeptInv'
    <3>1. kept = [s \in Snap |-> kept[s]]
      BY DEF AddressInv, KeptInv
    <3>2. kept' = [s \in Snap |-> kept'[s]]
      BY <1>3, <3>1
    <3>3. ASSUME NEW s \in Snap, root'[s] # NoFrame
          PROVE  View(mem', root'[s]) = kept'[s]
      <4>1. s \in Owner
        BY DEF Owner
      <4>2. CASE s = o
        <5>1. \A q \in UserPage : Show(mem, top, q) = Show(mem, src, q)
          BY <1>1, <2>4, <4>2 DEF AddressInv, CopyInv
        <5>2. \A q \in UserPage : Show(mem', top, q) = Show(mem, src, q)
          BY <2>3, <2>8, <5>1 DEF Keeps
        <5>3. View(mem', top) = View(mem, src)
          BY <5>2, ViewSame
        <5>4. kept'[o] = View(mem, src)
          BY <1>3, <3>1, <4>2
        <5> QED BY <2>11, <4>2, <5>3, <5>4
      <4>3. CASE s # o
        <5>1. root'[s] = root[s] /\ root[s] \in Roots
          BY <2>11, <3>3, <4>1, <4>3, RootsAre
        <5>2. kept'[s] = kept[s]
          BY <1>3, <3>1, <4>3
        <5>3. \A q \in UserPage : Show(mem', root[s], q) = Show(mem, root[s], q)
          BY <2>8, <5>1 DEF Keeps
        <5>4. View(mem', root[s]) = View(mem, root[s])
          BY <5>3, ViewSame
        <5>5. View(mem, root[s]) = kept[s]
          BY <3>3, <5>1 DEF AddressInv, KeptInv
        <5> QED BY <5>1, <5>2, <5>4, <5>5
      <4> QED BY <4>2, <4>3
    <3> QED BY <3>2, <3>3 DEF KeptInv
  <2> QED BY <2>13, <2>16, <2>17, <2>18, <2>19 DEF AddressInv
<1> QED
  BY <1>2, <1>3 DEF Finish

Both(S, X, T) == T = S \cup X
Gave(m, S, n) == n = Give(m, S)

LEMMA GiveTwice ==
    ASSUME NEW m, NEW S, NEW X, NEW T, Both(S, X, T), NEW a, Gave(m, S, a),
           NEW n, Gave(m, T, n)
    PROVE  Gave(a, X, n)
<1>1. /\ a.tab = [g \in Frame |-> IF g \in S THEN Stale ELSE m.tab[g]]
      /\ a.data = [g \in Frame |-> IF g \in S THEN StaleData ELSE m.data[g]]
      /\ a.taken = m.taken \ S
  BY DEF Give, Gave
<1>2. [g \in Frame |-> IF g \in X THEN Stale ELSE a.tab[g]]
        = [g \in Frame |-> IF g \in T THEN Stale ELSE m.tab[g]]
  BY <1>1 DEF Both
<1>3. [g \in Frame |-> IF g \in X THEN StaleData ELSE a.data[g]]
        = [g \in Frame |-> IF g \in T THEN StaleData ELSE m.data[g]]
  BY <1>1 DEF Both
<1>4. a.taken \ X = m.taken \ T
  BY <1>1 DEF Both
<1> QED
  BY <1>2, <1>3, <1>4 DEF Give, Gave

(* reap_terminated and free_snapshots.                                     *)
LEMMA DestroyStep ==
    ASSUME AddressInv, NEW o \in Owner, Destroy(o)
    PROVE  AddressInv'
<1> DEFINE t == root[o]
<1> DEFINE x == regs[o]
<1> DEFINE D == Destroyed(mem, t)
<1> DEFINE U == Unreadable(mem, t)
<1>1. /\ job.op = "none" /\ t # NoFrame /\ mem' = Give(mem, D \cup {x})
      /\ leaked' = leaked \cup U /\ root' = [root EXCEPT ![o] = NoFrame]
      /\ regs' = [regs EXCEPT ![o] = NoFrame] /\ job' = job
      /\ kept' = IF o \in Snap THEN [kept EXCEPT ![o] = <<>>] ELSE kept
  BY DEF Destroy
<1>2. job = NoJob /\ job.top = NoFrame
  BY <1>1 DEF AddressInv, JobInv
<1>3. /\ root \in [Owner -> Frame \cup {NoFrame}] /\ regs \in [Owner -> Frame \cup {NoFrame}]
      /\ \A a \in Owner : root[a] = NoFrame <=> regs[a] = NoFrame
      /\ \A a, b \in Owner : root[a] = root[b] /\ root[a] # NoFrame => a = b
      /\ \A a, b \in Owner : regs[a] = regs[b] /\ regs[a] # NoFrame => a = b
  BY DEF AddressInv, OwnerInv
<1>4. x # NoFrame /\ t \in Roots /\ x \in RegFrames
  BY <1>1, <1>3, RootsAre
<1>5. Forest(mem, Roots, RegFrames, leaked, {})
  BY DEF AddressInv, SpaceInv
<1> DEFINE b == Give(mem, D)
<1>6. Forest(b, Roots \ {t}, RegFrames, leaked \cup U, {}) /\ Keeps(mem, b, Roots \ {t})
  BY <1>4, <1>5, CutForest
<1>7. mem' = Give(b, {x})
  <2>1. Both(D, {x}, D \cup {x}) /\ Gave(mem, D, b) /\ Gave(mem, D \cup {x}, mem')
    BY <1>1 DEF Both, Gave
  <2> HIDE DEF b, D, x
  <2>2. Gave(b, {x}, mem')
    BY <2>1, GiveTwice
  <2> QED BY <2>2 DEF Gave
<1> HIDE DEF b, D, U, x
<1>8. x \in {} \cup RegFrames /\ {} \ {x} = {}
  BY <1>4
<1>9. /\ Forest(mem', Roots \ {t}, RegFrames \ {x}, leaked \cup U, {} \ {x})
      /\ Keeps(b, mem', Roots \ {t})
  BY <1>6, <1>7, <1>8, GiveForest
<1>10. Keeps(mem, mem', Roots \ {t})
  BY <1>6, <1>9, KeepsTrans
<1> HIDE DEF t
<1>11. /\ root'[o] = NoFrame /\ \A a \in Owner : a # o => root'[a] = root[a]
       /\ regs'[o] = NoFrame /\ \A a \in Owner : a # o => regs'[a] = regs[a]
       /\ root' \in [Owner -> Frame \cup {NoFrame}]
       /\ regs' \in [Owner -> Frame \cup {NoFrame}]
  BY <1>1, <1>3
<1>12. Roots' = Roots \ {t}
  <2>1. \A r : r \in Roots <=> r # NoFrame /\ \E a \in Owner : root[a] = r
    BY <1>2, RootsAre
  <2>2. \A r : r \in Roots' <=> r # NoFrame /\ \E a \in Owner : root'[a] = r
    BY <1>1, <1>2 DEF Roots
  <2>3. root[o] = t
    BY DEF t
  <2>4. \A r : r \in Roots' <=> r \in Roots /\ r # t
    BY <1>3, <1>11, <2>1, <2>2, <2>3
  <2> QED BY <2>4
<1>13. RegFrames' = RegFrames \ {x}
  <2>1. \A r : r \in RegFrames <=> r # NoFrame /\ \E a \in Owner : regs[a] = r
    BY RootsAre
  <2>2. \A r : r \in RegFrames' <=> r # NoFrame /\ \E a \in Owner : regs'[a] = r
    BY DEF RegFrames
  <2>3. regs[o] = x
    BY DEF x
  <2>4. \A r : r \in RegFrames' <=> r \in RegFrames /\ r # x
    BY <1>3, <1>11, <2>1, <2>2, <2>3
  <2> QED BY <2>4
<1>14. SpaceInv'
  BY <1>1, <1>8, <1>9, <1>12, <1>13 DEF SpaceInv
<1>15. OwnerInv'
  <2>1. job'.top = NoFrame
    BY <1>1, <1>2
  <2> QED BY <1>3, <1>11, <2>1 DEF OwnerInv
<1>16. JobInv'
  <2>1. job' = NoJob
    BY <1>1, <1>2
  <2>2. NoFrame \notin Snap
    BY Outside DEF Owner
  <2> QED BY <2>1, <2>2, NoJobIs DEF JobInv, NoJob
<1>17. CopyInv'
  BY <1>1, <1>2 DEF CopyInv, NoJob
<1>18. KeptInv'
  <2>1. kept = [s \in Snap |-> kept[s]]
    BY DEF AddressInv, KeptInv
  <2>2. kept' = [s \in Snap |-> kept'[s]]
    BY <1>1, <2>1
  <2>3. ASSUME NEW s \in Snap, root'[s] # NoFrame
        PROVE  View(mem', root'[s]) = kept'[s]
    <3>1. s \in Owner /\ s # o
      BY <1>11, <2>3 DEF Owner
    <3>2. root'[s] = root[s] /\ root[s] \in Roots /\ root[s] # t
      BY <1>3, <1>11, <2>3, <3>1, RootsAre DEF t
    <3>3. kept'[s] = kept[s]
      BY <1>1, <2>1, <3>1
    <3>4. \A q \in UserPage : Show(mem', root[s], q) = Show(mem, root[s], q)
      BY <1>10, <3>2 DEF Keeps
    <3>5. View(mem', root[s]) = View(mem, root[s])
      BY <3>4, ViewSame
    <3>6. View(mem, root[s]) = kept[s]
      BY <2>3, <3>2 DEF AddressInv, KeptInv
    <3> QED BY <3>2, <3>3, <3>5, <3>6
  <2> QED BY <2>2, <2>3 DEF KeptInv
<1> QED
  BY <1>14, <1>15, <1>16, <1>17, <1>18 DEF AddressInv

LEMMA UserWriteStep ==
    ASSUME AddressInv, NEW o \in Proc, NEW page \in Page, UserWrite(o, page)
    PROVE  AddressInv'
<1> DEFINE r == root[o]
<1>1. /\ job.op = "none" /\ r # NoFrame /\ root' = root /\ regs' = regs
      /\ job' = job /\ leaked' = leaked /\ kept' = kept
  BY DEF UserWrite
<1>2. PICK f \in Translate(mem, r, page, {"U", "W"}) : mem' = SetData(mem, f, 2)
  BY DEF UserWrite, SetData
<1>3. o \in Owner /\ o \notin Snap
  BY LoadAssumption DEF Owner
<1>4. r \in Roots /\ Forest(mem, Roots, RegFrames, leaked, {})
  BY <1>1, <1>3, RootsAre DEF AddressInv, SpaceInv
<1>5. Forest(mem', Roots, RegFrames, leaked, {}) /\ Keeps(mem, mem', Roots \ {r})
  BY <1>2, <1>4, WriteForest
<1>6. Roots' = Roots /\ RegFrames' = RegFrames
  BY <1>1 DEF Roots, RegFrames
<1>7. SpaceInv'
  BY <1>1, <1>5, <1>6 DEF SpaceInv
<1>8. JobInv' /\ OwnerInv'
  BY <1>1 DEF AddressInv, JobInv, OwnerInv
<1>9. CopyInv'
  BY <1>1 DEF CopyInv
<1>10. KeptInv'
  <2>1. \A s \in Snap : root[s] # NoFrame => root[s] \in Roots \ {r}
    <3>1. \A s \in Snap : s \in Owner /\ s # o
      BY <1>3 DEF Owner
    <3>2. \A a, b \in Owner : root[a] = root[b] /\ root[a] # NoFrame => a = b
      BY DEF AddressInv, OwnerInv
    <3> QED BY <1>3, <3>1, <3>2, RootsAre
  <2> QED BY <1>1, <1>5, <2>1, KeptStays
<1> QED
  BY <1>7, <1>8, <1>9, <1>10 DEF AddressInv

LEMMA AddressNext ==
    ASSUME AddressInv, [Next]_vars
    PROVE  AddressInv'
<1>1. ASSUME NEW o \in Proc, NEW img \in Images, StartLoad(o, img)
      PROVE  AddressInv'
  BY <1>1, StartLoadStep
<1>2. CASE LoadPage
  BY <1>2, LoadPageStep
<1>3. CASE LoadEntry
  BY <1>3, LoadEntryStep
<1>4. CASE MapWindow
  BY <1>4, MapWindowStep
<1>5. ASSUME NEW p \in Proc, NEW s \in Snap, StartSnapshot(p, s)
      PROVE  AddressInv'
  BY <1>5, StartCopyStep
<1>6. ASSUME NEW s \in Snap, StartRestore(s)
      PROVE  AddressInv'
  BY <1>6, StartRestoreStep
<1>7. CASE CopyPage
  BY <1>7, CopyPageStep
<1>8. CASE Finish
  BY <1>8, FinishStep
<1>9. ASSUME NEW o \in Owner, Destroy(o)
      PROVE  AddressInv'
  BY <1>9, DestroyStep
<1>10. ASSUME NEW o \in Proc, NEW page \in Page, UserWrite(o, page)
       PROVE  AddressInv'
  BY <1>10, UserWriteStep
<1>11. CASE UNCHANGED vars
  BY <1>11 DEF vars, AddressInv, JobInv, OwnerInv, SpaceInv, CopyInv, KeptInv, Roots, RegFrames
<1> QED
  BY <1>1, <1>2, <1>3, <1>4, <1>5, <1>6, <1>7, <1>8, <1>9, <1>10, <1>11 DEF Next

LEMMA AddressSafe == Spec => []AddressInv
<1>1. Init => AddressInv
  BY AddressInit
<1>2. AddressInv /\ [Next]_vars => AddressInv'
  BY AddressNext
<1> QED
  BY <1>1, <1>2, PTL DEF Spec

(* Every table, page and job stays well typed, and the loader's cursor     *)
(* inside its segment (mm.rs, elf.rs).                                     *)
THEOREM SpaceTypes == Spec => []TypeOK
<1>1. AddressInv => TypeOK
  BY AddressTypes
<1> QED
  BY <1>1, AddressSafe, PTL

(* Every frame handed out by the pool has an owner or was lost in one of   *)
(* the two known ways, whatever load, copy, snapshot or restore fails      *)
(* after whichever of its steps.                                           *)
THEOREM NothingElseLost == Spec => []FramesAccounted
<1>1. AddressInv => FramesAccounted
  BY AddressFrames
<1> QED
  BY <1>1, AddressSafe, PTL

(* Page tables are trees that share no frame of the pool, for any number   *)
(* of spaces, copies and failures (map_page, deep_copy, destroy).          *)
THEOREM TreesApart == Spec => []OwnedOnce
<1>1. AddressInv => OwnedOnce
  BY AddressFrames
<1> QED
  BY <1>1, AddressSafe, PTL

(* No payload gets a page that is writable and executable, a writable      *)
(* window, or an address that translate_checked resolves to kernel memory. *)
THEOREM PayloadsConfined == Spec => []UserReach
<1>1. AddressInv => UserReach
  BY AddressFrames
<1> QED
  BY <1>1, AddressSafe, PTL

(* deep_copy shows what its source shows, and a checkpoint keeps showing   *)
(* it: no store, load, copy or destroy of another space changes it.        *)
THEOREM CopiesFaithful == Spec => []CheckpointFaithful
<1>1. AddressInv => CheckpointFaithful
  BY AddressCopies
<1> QED
  BY <1>1, AddressSafe, PTL

=============================================================================
