---------------------------- MODULE AddressSpace ----------------------------
(***************************************************************************)
(* Address spaces: the page tables of mm.rs as trees of pool frames, the   *)
(* loader that fills one from an ELF image (elf.rs), the window of foreign *)
(* memory some images get, the deep copies behind snapshot and restore,    *)
(* destruction, and the payloads that write to their pages (payload.rs).   *)
(*                                                                         *)
(* The kernel builds one space at a time and nothing else touches the      *)
(* tables meanwhile, so one call of map_page is one step; what matters is  *)
(* the state each of its failures leaves behind.  Sv39's three levels are  *)
(* kept, with two entries to a table (the code: 512), so a virtual page is *)
(* a number from 0 to 7 and the kernel gigapage covers 4 to 7.             *)
(***************************************************************************)
EXTENDS Integers, Sequences, FiniteSets

CONSTANTS
    Frame,        \* the frames of the pool
    KernelRam,    \* what the kernel gigapage maps
    Window,       \* the foreign frame some images see, outside the pool
    Images,       \* [segs, entry, window]: see LoadAssumption
    Proc,         \* slots of the process table
    Snap,         \* slots for checkpoints
    NoFrame

Perm == {"R", "W", "X", "U", "G"}
RWX == {"R", "W", "X"}
Page == 0 .. 7
KernelPage == 4
NoPage == 8
Owner == Proc \cup Snap
Idx == 0 .. 1

(* A segment covers the pages first .. last (one that covers none is left  *)
(* out); from the page `hole` on its file bytes lie outside the image.     *)
(* `window` is the page an image's window is mapped at.                    *)
Segment == [first : Page, last : Page, perms : SUBSET RWX,
            hole : Page \cup {NoPage}]

ASSUME LoadAssumption ==
    /\ NoFrame \notin Frame /\ KernelRam \notin Frame /\ Window \notin Frame
    /\ KernelRam # Window
    /\ Proc \cap Snap = {} /\ NoFrame \notin Owner
    /\ Images \subseteq [segs : Seq(Segment), entry : Page,
                         window : Page \cup {NoPage}]
    /\ \A img \in Images :
        \A i \in DOMAIN img.segs : img.segs[i].first <= img.segs[i].last

VARIABLES
    mem,      \* [tab, data, taken]: every frame as a table and as a page,
              \* and the frames the pool has handed out
    root,     \* root table of an owner's space
    regs,     \* frame that keeps an owner's registers
    job,      \* the space under construction
    leaked,   \* frames the kernel has forgotten (history)
    kept      \* what a checkpoint's pages held when it was taken (history)

vars == <<mem, root, regs, job, leaked, kept>>

-----------------------------------------------------------------------------
(* Page table entries.                                                     *)

NoPte == [v |-> FALSE, to |-> NoFrame, p |-> {}]
NonLeaf(f) == [v |-> TRUE, to |-> f, p |-> {}]
LeafPte(f, perms) == [v |-> TRUE, to |-> f, p |-> perms]

(* The hardware and the code tell leaves from tables by R, W and X.        *)
IsLeaf(pte) == pte.v /\ pte.p \cap RWX # {}
IsTable(pte) == pte.v /\ pte.p \cap RWX = {}

Vpn(page, level) == (page \div (2 ^ level)) % 2

Blank == [i \in Idx |-> NoPte]

(* What a frame holds while nobody owns it: nothing anyone may rely on.    *)
Stale == [i \in Idx |-> LeafPte(KernelRam, {"R", "W", "U"})]
StaleData == 3

-----------------------------------------------------------------------------
(* The pool, as the callers see it (module FramePool has the search).      *)

Free(m) == Frame \ m.taken
Pick(S) == CHOOSE f \in S : TRUE

(* alloc zeroes the frame it hands out.                                    *)
Take(m, f) ==
    [m EXCEPT !.taken = @ \cup {f}, !.tab[f] = Blank, !.data[f] = 0]

Give(m, S) ==
    [tab   |-> [f \in Frame |-> IF f \in S THEN Stale ELSE m.tab[f]],
     data  |-> [f \in Frame |-> IF f \in S THEN StaleData ELSE m.data[f]],
     taken |-> m.taken \ S]

-----------------------------------------------------------------------------
(* map_page.                                                               *)

(* One level down from table r.t: a missing table is allocated, a          *)
(* superpage in the way is an overlap.                                     *)
Descend(r, page, level) ==
    LET i   == Vpn(page, level)
        pte == r.m.tab[r.t][i]
        f   == Pick(Free(r.m))
    IN  CASE ~r.ok -> r
          [] r.ok /\ IsLeaf(pte) -> [r EXCEPT !.ok = FALSE]
          [] r.ok /\ IsTable(pte) -> [r EXCEPT !.t = pte.to]
          [] r.ok /\ ~pte.v /\ Free(r.m) = {} -> [r EXCEPT !.ok = FALSE]
          [] OTHER -> [m |-> [Take(r.m, f) EXCEPT !.tab[r.t][i] = NonLeaf(f)],
                       t |-> f, ok |-> TRUE]

Walk(m, top, page) ==
    Descend(Descend([m |-> m, t |-> top, ok |-> TRUE], page, 2), page, 1)

MapPage(m, top, page, f, perms) ==
    LET r == Walk(m, top, page)
    IN  IF ~r.ok \/ r.m.tab[r.t][Vpn(page, 0)].v
        THEN [m |-> r.m, ok |-> FALSE]
        ELSE [m |-> [r.m EXCEPT !.tab[r.t][Vpn(page, 0)] = LeafPte(f, perms)],
              ok |-> TRUE]

MapKernel(m, top) ==
    [m EXCEPT !.tab[top][Vpn(KernelPage, 2)] = LeafPte(KernelRam, RWX \cup {"G"})]

-----------------------------------------------------------------------------
(* translate_checked: the leaf that maps a page if it grants `need`.       *)

Entry(m, top, page) ==
    LET p2 == m.tab[top][Vpn(page, 2)]
        p1 == m.tab[p2.to][Vpn(page, 1)]
        p0 == m.tab[p1.to][Vpn(page, 0)]
    IN  IF ~IsTable(p2) THEN p2 ELSE IF ~IsTable(p1) THEN p1 ELSE p0

(* Mutant: the U bit is not asked for.                                     *)
TranslateAny(m, top, page, need) ==
    LET pte == Entry(m, top, page)
    IN  IF IsLeaf(pte) /\ (need \ {"U"}) \subseteq pte.p THEN {pte.to} ELSE {}

Translate(m, top, page, need) ==
    LET pte == Entry(m, top, page)
    IN  IF IsLeaf(pte) /\ (need = {} \/ ("U" \in pte.p /\ need \subseteq pte.p))
        THEN {pte.to} ELSE {}

-----------------------------------------------------------------------------
(* The tree under a root, and destroy.                                     *)

Below(m, S) == {m.tab[s[1]][s[2]] : s \in S \X Idx}
Tables(m, S) == {pte.to : pte \in {x \in Below(m, S) : IsTable(x)}}
Leaves(m, S) == {pte.to : pte \in {x \in Below(m, S) : IsLeaf(x)}}

Level1(m, top) == Tables(m, {top})
Level0(m, top) == Tables(m, Level1(m, top))
TableFrames(m, top) == {top} \cup Level1(m, top) \cup Level0(m, top)

(* A last-level entry without R, W or X: neither leaf nor table to the     *)
(* code, which steps over it.                                              *)
Unreadable(m, top) == Tables(m, Level0(m, top))

(* Mutant: the tables between the root and the pages are not freed.        *)
DestroyedPages(m, top) ==
    ({top} \cup Leaves(m, Level1(m, top) \cup Level0(m, top))) \cap Frame

(* destroy skips the root's leaves and free ignores foreign frames.        *)
Destroyed(m, top) ==
    (TableFrames(m, top) \cup Leaves(m, Level1(m, top) \cup Level0(m, top)))
        \cap Frame

Owned(m, top) == Destroyed(m, top) \cup Unreadable(m, top)

-----------------------------------------------------------------------------
NoJob == [op |-> "none", owner |-> NoFrame, from |-> NoFrame, top |-> NoFrame,
          segs |-> <<>>, seg |-> 0, page |-> 0, entry |-> 0, window |-> NoPage]
Nobody == [o \in Owner |-> NoFrame]

Init ==
    /\ mem = [tab |-> [f \in Frame |-> Stale],
              data |-> [f \in Frame |-> StaleData], taken |-> {}]
    /\ root = Nobody /\ regs = Nobody
    /\ job = NoJob
    /\ leaked = {}
    /\ kept = [s \in Snap |-> <<>>]

(* What a space shows its owner, page by page: contents and rights.        *)
View(m, top) ==
    [page \in 0 .. KernelPage - 1 |->
        {<<IF f \in Frame THEN m.data[f] ELSE f, Entry(m, top, page).p>> :
            f \in Translate(m, top, page, {})}]

(* The construction fails: the space built so far is destroyed; the frames *)
(* of `lost` are not part of it.                                           *)
Abandon(m, lost) ==
    /\ mem' = Give(m, Destroyed(m, job.top))
    /\ leaked' = leaked \cup lost \cup Unreadable(m, job.top)
    /\ job' = NoJob
    /\ UNCHANGED <<root, regs, kept>>

Proceed(m, next) ==
    /\ mem' = m
    /\ job' = next
    /\ UNCHANGED <<root, regs, leaked, kept>>

(* AddressSpace::new and map_kernel; without a frame nothing happens.      *)
NewSpace(next) ==
    /\ job.op = "none" /\ Free(mem) # {}
    /\ LET f == Pick(Free(mem))
       IN  Proceed(MapKernel(Take(mem, f), f), [next EXCEPT !.top = f])

-----------------------------------------------------------------------------
(* start: a space for a fresh payload.  An image whose headers are refused *)
(* has no segments: nothing is mapped and the check of its entry fails.    *)

StartLoad(o, img) ==
    /\ o \in Proc /\ root[o] = NoFrame
    /\ LET fresh == [NoJob EXCEPT !.owner = o, !.entry = img.entry,
                                  !.window = img.window]
       IN  IF img.segs = <<>> THEN NewSpace([fresh EXCEPT !.op = "entry"])
           ELSE NewSpace([fresh EXCEPT !.op = "load", !.segs = img.segs, !.seg = 1,
                                       !.page = img.segs[1].first])

(* Mutant: the loop over the pages of a segment runs one page too far.     *)
AdvancePast(j) ==
    LET s == j.segs[j.seg]
    IN  IF j.page <= s.last THEN [j EXCEPT !.page = @ + 1]
        ELSE IF j.seg < Len(j.segs)
        THEN [j EXCEPT !.seg = @ + 1, !.page = j.segs[j.seg + 1].first]
        ELSE [j EXCEPT !.op = "entry"]

(* The next page of the segment, the next segment, or the entry check.     *)
Advance(j) ==
    LET s == j.segs[j.seg]
    IN  IF j.page < s.last THEN [j EXCEPT !.page = @ + 1]
        ELSE IF j.seg < Len(j.segs)
        THEN [j EXCEPT !.seg = @ + 1, !.page = j.segs[j.seg + 1].first]
        ELSE [j EXCEPT !.op = "entry"]

WxViolation(s) == {"W", "X"} \subseteq s.perms

(* One turn of map_segment's loop.  When the file bytes of the page lie    *)
(* outside the image the frame it has just allocated is forgotten; when    *)
(* map_page fails it is given back.                                        *)
LoadPage ==
    LET s  == job.segs[job.seg]
        f  == Pick(Free(mem))
        m  == [Take(mem, f) EXCEPT !.data[f] = 1]
        r  == MapPage(m, job.top, job.page, f, s.perms \cup {"U"})
    IN  /\ job.op = "load"
        /\ \/ /\ WxViolation(s) \/ Free(mem) = {}
              /\ Abandon(mem, {})
           \/ /\ ~WxViolation(s) /\ Free(mem) # {} /\ job.page >= s.hole
              /\ Abandon(Take(mem, f), {f})
           \/ /\ ~WxViolation(s) /\ Free(mem) # {} /\ job.page < s.hole /\ ~r.ok
              /\ Abandon(Give(r.m, {f}), {})
           \/ /\ ~WxViolation(s) /\ Free(mem) # {} /\ job.page < s.hole /\ r.ok
              /\ Proceed(r.m, Advance(job))

LoadEntry ==
    /\ job.op = "entry"
    /\ IF Translate(mem, job.top, job.entry, {}) = {}
       THEN Abandon(mem, {})
       ELSE Proceed(mem, [job EXCEPT !.op = "window"])

(* map_window: read-only, no frame of the pool but for the tables.         *)
MapWindow ==
    LET r == MapPage(mem, job.top, job.window, Window, {"R", "U"})
    IN  /\ job.op = "window"
        /\ \/ /\ job.window = NoPage
              /\ Proceed(mem, [job EXCEPT !.op = "regs"])
           \/ /\ job.window # NoPage /\ r.ok
              /\ Proceed(r.m, [job EXCEPT !.op = "regs"])
           \/ /\ job.window # NoPage /\ ~r.ok
              /\ Abandon(r.m, {})

-----------------------------------------------------------------------------
(* deep_copy, for on_snapshot and for enqueue_restore.                     *)

CopyJob(from) == [NoJob EXCEPT !.op = "copy", !.from = from]

(* A checkpoint needs a free slot first; a restore looks for one last.     *)
StartSnapshot(p, s) ==
    /\ p \in Proc /\ s \in Snap /\ root[p] # NoFrame /\ root[s] = NoFrame
    /\ NewSpace([CopyJob(p) EXCEPT !.owner = s])

StartRestore(s) ==
    /\ s \in Snap /\ root[s] # NoFrame
    /\ NewSpace(CopyJob(s))

(* Mutant: every page is aliased.                                          *)
AliasAll(f) == TRUE

(* A page outside the pool is a window: aliased, not copied.               *)
Aliased(f) == f \notin Frame

(* Mutant: a copy may not be written to.                                   *)
CopyPermsNoW(p) == p \cap {"R", "X", "U"}

CopyPerms(p) == p \cap (RWX \cup {"U"})

CopyPage ==
    LET pte  == Entry(mem, root[job.from], job.page)
        f    == Pick(Free(mem))
        own  == IsLeaf(pte) /\ "U" \in pte.p
        m    == [Take(mem, f) EXCEPT !.data[f] = mem.data[pte.to]]
        p    == CopyPerms(pte.p)
        copy == MapPage(m, job.top, job.page, f, p)
        link == MapPage(mem, job.top, job.page, pte.to, p)
        next == IF job.page = KernelPage - 1 THEN [job EXCEPT !.op = "regs"]
                ELSE [job EXCEPT !.page = @ + 1]
    IN  /\ job.op = "copy"
        /\ \/ /\ ~own
              /\ Proceed(mem, next)
           \/ /\ own /\ Aliased(pte.to) /\ link.ok
              /\ Proceed(link.m, next)
           \/ /\ own /\ Aliased(pte.to) /\ ~link.ok
              /\ Abandon(link.m, {})
           \/ /\ own /\ ~Aliased(pte.to) /\ Free(mem) = {}
              /\ Abandon(mem, {})
           \/ /\ own /\ ~Aliased(pte.to) /\ Free(mem) # {} /\ copy.ok
              /\ Proceed(copy.m, next)
           \/ /\ own /\ ~Aliased(pte.to) /\ Free(mem) # {} /\ ~copy.ok
              /\ Abandon(Give(copy.m, {f}), {})

-----------------------------------------------------------------------------
(* The register frame comes last, then the space is handed to its owner;   *)
(* a restore that finds no slot gives everything back.                     *)

Slots == IF job.owner # NoFrame THEN {job.owner}
         ELSE {o \in Proc : root[o] = NoFrame}

Finish ==
    /\ job.op = "regs"
    /\ \/ /\ Free(mem) = {} \/ Slots = {}
          /\ Abandon(mem, {})
       \/ \E o \in Slots :
            /\ Free(mem) # {}
            /\ LET f == Pick(Free(mem))
               IN  /\ mem' = Take(mem, f)
                   /\ regs' = [regs EXCEPT ![o] = f]
            /\ root' = [root EXCEPT ![o] = job.top]
            /\ kept' = IF o \in Snap
                       THEN [kept EXCEPT ![o] = View(mem, root[job.from])]
                       ELSE kept
            /\ job' = NoJob
            /\ UNCHANGED leaked

(* reap_terminated and free_snapshots.                                     *)
Destroy(o) ==
    /\ job.op = "none" /\ root[o] # NoFrame
    /\ mem' = Give(mem, Destroyed(mem, root[o]) \cup {regs[o]})
    /\ leaked' = leaked \cup Unreadable(mem, root[o])
    /\ root' = [root EXCEPT ![o] = NoFrame]
    /\ regs' = [regs EXCEPT ![o] = NoFrame]
    /\ kept' = IF o \in Snap THEN [kept EXCEPT ![o] = <<>>] ELSE kept
    /\ UNCHANGED job

(* A running payload stores to a page it may write.                        *)
UserWrite(o, page) ==
    /\ job.op = "none" /\ o \in Proc /\ root[o] # NoFrame
    /\ \E f \in Translate(mem, root[o], page, {"U", "W"}) :
        mem' = [mem EXCEPT !.data[f] = 2]
    /\ UNCHANGED <<root, regs, job, leaked, kept>>

-----------------------------------------------------------------------------
Next ==
    \/ \E o \in Proc, img \in Images : StartLoad(o, img)
    \/ LoadPage \/ LoadEntry \/ MapWindow
    \/ \E p \in Proc, s \in Snap : StartSnapshot(p, s)
    \/ \E s \in Snap : StartRestore(s)
    \/ CopyPage
    \/ Finish
    \/ \E o \in Owner : Destroy(o)
    \/ \E o \in Proc, page \in Page : UserWrite(o, page)

Spec == Init /\ [][Next]_vars

-----------------------------------------------------------------------------
(* Properties.                                                             *)

Pte == [v : BOOLEAN, to : Frame \cup {NoFrame, KernelRam, Window}, p : SUBSET Perm]
Roots == ({root[o] : o \in Owner} \cup {job.top}) \ {NoFrame}
RegFrames == {regs[o] : o \in Owner} \ {NoFrame}

(* Type invariant; the loader's cursor stays inside its segment.           *)
TypeOK ==
    /\ mem.tab \in [Frame -> [Idx -> Pte]]
    /\ mem.data \in [Frame -> 0 .. StaleData]
    /\ mem.taken \subseteq Frame /\ leaked \subseteq Frame
    /\ root \in [Owner -> Frame \cup {NoFrame}]
    /\ regs \in [Owner -> Frame \cup {NoFrame}]
    /\ job.op \in {"none", "load", "entry", "window", "copy", "regs"}
    /\ job.owner \in Owner \cup {NoFrame} /\ job.from \in Owner \cup {NoFrame}
    /\ job.top \in Frame \cup {NoFrame}
    /\ job.op = "load" => job.page \in job.segs[job.seg].first .. job.segs[job.seg].last
    /\ job.page \in Page

(* Every frame the pool has handed out belongs to a space, keeps an        *)
(* owner's registers, or was lost in one of the two known ways: a segment  *)
(* whose file bytes lie outside the image, or a segment without any right, *)
(* whose pages destroy steps over.  No failed load, copy, snapshot or      *)
(* restore loses another, and none is in use after it was freed.           *)
FramesAccounted ==
    mem.taken = (UNION {Owned(mem, t) : t \in Roots}) \cup RegFrames \cup leaked

(* Page tables are trees that share nothing: a pool frame is named by at   *)
(* most one entry of all live tables, and then it is no root, no register  *)
(* frame and not lost.  A payload cannot reach another's page, its own     *)
(* tables, or a frame that will be handed out again.                       *)
OwnedOnce ==
    LET used == {s \in (UNION {TableFrames(mem, t) : t \in Roots}) \X Idx :
                    mem.tab[s[1]][s[2]].to \in Frame}
        to(s) == mem.tab[s[1]][s[2]].to
    IN  /\ \A s, t \in used : to(s) = to(t) => s = t
        /\ \A s \in used : to(s) \notin Roots \cup RegFrames \cup leaked
        /\ Roots \cap RegFrames = {}

(* What a payload can reach: no page is writable and executable, windows   *)
(* are read-only, and no address it hands to the kernel resolves to kernel *)
(* memory.                                                                 *)
UserReach ==
    \A t \in Roots, page \in Page :
        LET pte == Entry(mem, t, page)
        IN  /\ KernelRam \notin Translate(mem, t, page, {"U", "R"})
            /\ IsLeaf(pte) /\ "U" \in pte.p =>
                /\ ~({"W", "X"} \subseteq pte.p)
                /\ pte.to \notin Frame => "W" \notin pte.p

(* A deep copy shows what its source shows, contents and rights; and a     *)
(* checkpoint keeps showing it whatever the payload and its continuations  *)
(* write later.                                                            *)
CheckpointFaithful ==
    /\ job.op = "regs" /\ job.from # NoFrame
        => View(mem, job.top) = View(mem, root[job.from])
    /\ \A s \in Snap : root[s] # NoFrame => View(mem, root[s]) = kept[s]

=============================================================================
