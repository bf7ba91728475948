------------------------------ MODULE MveEmul ------------------------------
(***************************************************************************)
(* The QEMU device around the video engine emulator (test/qemu/mve_emul.c):*)
(* the guest's register writes, the memory maps the emulator keeps per     *)
(* LSID with their translation caches, and the thread that runs the        *)
(* emulator until the device is removed.                                   *)
(*                                                                         *)
(* External: the emulator library hands out map numbers and calls back for *)
(* translations; the guest driver edits its page tables and then writes    *)
(* FLUSH_ALL.  A page table is named by its root l0; 0 stands for an       *)
(* absent translation and for a missing root.                              *)
(*                                                                         *)
(* Two things the code does not check have undefined behaviour: a register *)
(* write to an LSID beyond its arrays, and the removal of a map that the   *)
(* emulator thread is translating with.  Both are steps of the model; they *)
(* set undefined, after which nothing is promised and the model stops.     *)
(***************************************************************************)
EXTENDS Naturals, FiniteSets

CONSTANTS
    NLsid,          \* MVE_LSID_MAX, the size of the arrays
    NWindow,        \* LSIDs the registers of the device have room for
    Maps,           \* map numbers of the emulator library
    Roots,          \* page table roots the guest uses
    Pages, Frames,  \* virtual pages and the physical pages they map to
    MaxWrites,      \* bound on page table edits
    UNMAPPED, NULL  \* MVE_UNMAPPED, the null pointer

ASSUME EmulAssumption ==
    /\ NLsid \in Nat \ {0} /\ NWindow \in Nat /\ Maps # {} /\ Roots # {} /\ Pages # {}
    /\ 0 \notin Roots /\ 0 \notin Frames
    /\ UNMAPPED \notin Maps /\ NULL \notin Maps \cup Pages
    /\ MaxWrites \in Nat

Lsid == 0..(NLsid - 1)
Window == 0..(NWindow - 1)

VARIABLES
    lsidToId,       \* state->lsid_to_id
    lsidToMmap,     \* state->lsid_to_mmap
    live,           \* allocated maps
    slot, l0, tlb,  \* mmap->lsid, mmap->l0 and mmap->tlb of every map
    copy,           \* mmap->map: address of the newest copy, or NULL
    call,           \* a translation under way: <<map, page>> or NULL
    stale,          \* its map has been freed meanwhile
    table, writes,  \* the guest's page tables, edits so far
    thread, running, destruct,  \* mve_thread, state->running, mve_emul_destruct
    undefined       \* the device has left its arrays or used a freed map

maps == <<lsidToId, lsidToMmap, live, slot, l0>>
guest == <<table, writes>>
threads == <<thread, running, destruct>>
translation == <<call, stale>>
vars == <<maps, tlb, copy, translation, guest, threads, undefined>>

NoTlb == [p \in Pages |-> 0]

TypeOK ==
    /\ lsidToId \in [Lsid -> Maps \cup {UNMAPPED}]
    /\ lsidToMmap \in [Lsid -> Maps \cup {NULL}]
    /\ live \subseteq Maps
    /\ slot \in [Maps -> Lsid] /\ l0 \in [Maps -> Roots \cup {0}]
    /\ tlb \in [Maps -> [Pages -> Frames \cup {0}]]
    /\ copy \in [Maps -> Pages \cup {NULL}]
    /\ call \in (Maps \X Pages) \cup {NULL} /\ stale \in BOOLEAN
    /\ undefined \in BOOLEAN
    /\ table \in [Roots -> [Pages -> Frames \cup {0}]] /\ writes \in 0..MaxWrites
    /\ thread \in {"created", "running", "exited"} /\ running \in BOOLEAN
    /\ destruct \in {"no", "joining", "joined"}

\* mve_emul_construct
Init ==
    /\ lsidToId = [i \in Lsid |-> UNMAPPED]
    /\ lsidToMmap = [i \in Lsid |-> NULL]
    /\ live = {}
    /\ slot = [m \in Maps |-> 0] /\ l0 = [m \in Maps |-> 0]
    /\ tlb = [m \in Maps |-> NoTlb] /\ copy = [m \in Maps |-> NULL]
    /\ call = NULL /\ stale = FALSE /\ undefined = FALSE
    /\ table = [r \in Roots |-> NoTlb] /\ writes = 0
    /\ thread = "created" /\ running = FALSE /\ destruct = "no"

-----------------------------------------------------------------------------
(* Register writes, mve_mmiowrite.  The device is there until it is removed. *)

Defined == ~undefined
Present == destruct = "no" /\ Defined

\* state->tmp_lsid is never assigned.
TmpLsid == 0

\* Slip: the slot of the LSID instead of the map's.
SlotOfLsid(i) ==
    IF lsidToId[i] = UNMAPPED THEN lsidToMmap ELSE [lsidToMmap EXCEPT ![i] = NULL]

\* rascemul_remove_memory_map clears the slot the map was entered under.
SlotsWithout(i) ==
    IF lsidToId[i] = UNMAPPED THEN lsidToMmap
    ELSE [lsidToMmap EXCEPT ![slot[lsidToId[i]]] = NULL]

\* Whether the map of this LSID goes away under the emulator thread.
Overtakes(i) == call # NULL /\ call[1] = lsidToId[i]

\* MMU_CTRL: drop the map of this LSID, then allocate one with the new root.
MmuCtrl(i, root, m) ==
    /\ Present
    /\ m \notin live \ {lsidToId[i]}
    /\ live' = (live \ {lsidToId[i]}) \cup {m}
    /\ lsidToId' = [lsidToId EXCEPT ![i] = m]
    /\ lsidToMmap' = [SlotsWithout(i) EXCEPT ![TmpLsid] = m]
    /\ slot' = [slot EXCEPT ![m] = TmpLsid]
    /\ l0' = [l0 EXCEPT ![m] = root]
    /\ tlb' = [tlb EXCEPT ![m] = NoTlb]
    /\ copy' = [copy EXCEPT ![m] = NULL]
    /\ stale' = (stale \/ Overtakes(i))
    /\ UNCHANGED <<call, guest, threads, undefined>>

\* What is left when the map of an LSID has been removed and no other allocated.
Removed(i) ==
    /\ live' = live \ {lsidToId[i]}
    /\ lsidToMmap' = SlotsWithout(i)
    /\ lsidToId' = [lsidToId EXCEPT ![i] = UNMAPPED]
    /\ stale' = (stale \/ Overtakes(i))
    /\ UNCHANGED <<slot, l0, tlb, copy, call, guest, threads, undefined>>

\* MMU_CTRL when no map is allocated, because the library has none left or because
\* calloc fails and it hands on the failure: the old map is gone nevertheless.
MmuCtrlFails(i) == Present /\ Removed(i)

\* Slip: the map number is not reset.
DeallocKeepsId(i) ==
    /\ Present /\ lsidToId[i] # UNMAPPED
    /\ live' = live \ {lsidToId[i]}
    /\ lsidToMmap' = SlotsWithout(i)
    /\ stale' = (stale \/ Overtakes(i))
    /\ UNCHANGED <<lsidToId, slot, l0, tlb, copy, call, guest, threads, undefined>>

\* ALLOC written with 0: the session is deallocated.
Dealloc(i) == Present /\ lsidToId[i] # UNMAPPED /\ Removed(i)

FlushAll(i) ==
    /\ Present
    /\ tlb' = IF lsidToMmap[i] = NULL THEN tlb
              ELSE [tlb EXCEPT ![lsidToMmap[i]] = NoTlb]
    /\ UNCHANGED <<maps, copy, translation, guest, threads, undefined>>

\* Each of the three indexes the arrays with the LSID of the address, unchecked.
BeyondArrays(i) ==
    /\ Present /\ i \notin Lsid
    /\ undefined' = TRUE
    /\ UNCHANGED <<maps, tlb, copy, translation, guest, threads>>

\* External: the guest edits an entry of one of its tables.
WritePte(r, p, f) ==
    /\ Defined /\ writes < MaxWrites /\ table[r][p] # f
    /\ table' = [table EXCEPT ![r][p] = f]
    /\ writes' = writes + 1
    /\ UNCHANGED <<maps, tlb, copy, translation, threads, undefined>>

-----------------------------------------------------------------------------
(* The emulator thread. *)

Emulating == Defined /\ thread = "running" /\ running /\ call = NULL

\* mve_ptw: a map without a root translates nothing.
Walk(m, p) == IF l0[m] = 0 THEN 0 ELSE table[l0[m]][p]

\* mve_tlb_lookup caches what it finds.
Translated(m, p) == IF tlb[m][p] = 0 THEN Walk(m, p) ELSE tlb[m][p]

\* A turn of mveemul_run that touches no memory.
IdleTurn == Emulating /\ UNCHANGED vars

\* mve_memory_read8 and mve_memory_write8, in one step: a removal in the middle of one
\* is the case of TranslateFreed.
Access(m, p) ==
    /\ Emulating /\ m \in live
    /\ tlb' = [tlb EXCEPT ![m][p] = Translated(m, p)]
    /\ UNCHANGED <<maps, copy, translation, guest, threads, undefined>>

\* rascemul_translate_rasc_mem is called for a page of m.
Translate(m, p) ==
    /\ Emulating /\ m \in live
    /\ call' = <<m, p>> /\ stale' = FALSE
    /\ UNCHANGED <<maps, tlb, copy, guest, threads, undefined>>

\* The search never leaves the newest copy: with one that does not match it goes
\* round for ever, so that no map has a second copy.
SearchEnds(m, p) == copy[m] \in {NULL, p}

Translating == Defined /\ call # NULL /\ ~stale

\* A found copy is returned; without any, the page is copied byte by byte.
TranslateReturn ==
    /\ Translating /\ SearchEnds(call[1], call[2])
    /\ LET m == call[1]  p == call[2] IN
       /\ copy' = [copy EXCEPT ![m] = p]
       /\ tlb' = IF copy[m] = p THEN tlb ELSE [tlb EXCEPT ![m][p] = Translated(m, p)]
    /\ call' = NULL
    /\ UNCHANGED <<maps, stale, guest, threads, undefined>>

\* One of the two calloc fails.
TranslateFails ==
    /\ Translating /\ copy[call[1]] = NULL
    /\ call' = NULL
    /\ UNCHANGED <<maps, tlb, copy, stale, guest, threads, undefined>>

\* while (map != NULL) with a copy that does not match: nothing changes.
SearchAgain ==
    /\ Translating /\ ~SearchEnds(call[1], call[2])
    /\ UNCHANGED vars

\* The guest has removed the map: whatever the search and the copying find there.
TranslateFreed ==
    /\ Defined /\ call # NULL /\ stale
    /\ undefined' = TRUE
    /\ UNCHANGED <<maps, tlb, copy, translation, guest, threads>>

ThreadStart ==
    /\ Defined /\ thread = "created"
    /\ thread' = "running" /\ running' = TRUE
    /\ UNCHANGED <<maps, tlb, copy, translation, guest, destruct, undefined>>

\* Slip: the thread waits until the guest has released every map.
ExitWithoutMaps ==
    /\ Defined /\ thread = "running" /\ ~running /\ call = NULL /\ live = {}
    /\ thread' = "exited"
    /\ UNCHANGED <<maps, tlb, copy, translation, guest, running, destruct, undefined>>

ThreadExit ==
    /\ Defined /\ thread = "running" /\ ~running /\ call = NULL
    /\ thread' = "exited"
    /\ UNCHANGED <<maps, tlb, copy, translation, guest, running, destruct, undefined>>

-----------------------------------------------------------------------------
(* mve_emul_destruct *)

Destruct ==
    /\ Present
    /\ running' = FALSE /\ destruct' = "joining"
    /\ UNCHANGED <<maps, tlb, copy, translation, guest, thread, undefined>>

Join ==
    /\ Defined /\ destruct = "joining" /\ thread = "exited"
    /\ destruct' = "joined"
    /\ UNCHANGED <<maps, tlb, copy, translation, guest, thread, running, undefined>>

Registers ==
    \/ \E i \in Lsid :
           \/ \E r \in Roots, m \in Maps : MmuCtrl(i, r, m)
           \/ MmuCtrlFails(i) \/ Dealloc(i) \/ FlushAll(i)
    \/ \E i \in Window : BeyondArrays(i)

Emulator ==
    \/ \E m \in Maps, p \in Pages : Access(m, p) \/ Translate(m, p)
    \/ IdleTurn \/ TranslateReturn \/ TranslateFails \/ SearchAgain \/ TranslateFreed
    \/ ThreadStart \/ ThreadExit

Terminated == (destruct = "joined" \/ undefined) /\ UNCHANGED vars

Next ==
    \/ Registers \/ Emulator \/ Destruct \/ Join \/ Terminated
    \/ \E r \in Roots, p \in Pages, f \in Frames : WritePte(r, p, f)

Spec == Init /\ [][Next]_vars

\* The thread is scheduled, a call into the device returns if it can.
FairSpec ==
    /\ Spec
    /\ WF_vars(TranslateReturn) /\ WF_vars(ThreadStart)
    /\ WF_vars(ThreadExit) /\ WF_vars(Join)

-----------------------------------------------------------------------------
(* Properties. *)

\* As long as the guest keeps to the LSIDs of the arrays and frees no map under a
\* translation: every live map belongs to one LSID and every LSID's map is live, so
\* that no map is leaked or shared, whatever order the guest writes in and whichever
\* allocation fails.
MapOwnership ==
    ~undefined =>
        /\ {lsidToId[i] : i \in Lsid} \ {UNMAPPED} = live
        /\ \A i, j \in Lsid :
               lsidToId[i] = lsidToId[j] => i = j \/ lsidToId[i] = UNMAPPED

\* With the same exceptions the pointer FLUSH_ALL follows is never that of a freed
\* map.  A translation meets a freed map only when the guest, by MMU_CTRL or ALLOC,
\* removed it while the translation was under way: nothing in the code prevents that.
NoDanglingMmap ==
    ~undefined =>
        /\ \A i \in Lsid : lsidToMmap[i] \in live \cup {NULL}
        /\ call # NULL => call[1] \in live \/ stale

\* Once the thread has seen its own start, removing the device stops it and the
\* join returns, unless a translation does not come back.
RemovalEnds ==
    destruct = "joining" /\ ~running /\ thread = "running"
        ~> destruct = "joined" \/ call # NULL

\* "FLUSH_ALL": the write leaves no cached translation in the LSID's map.
FlushEmptiesTlb ==
    [][\A i \in Lsid : FlushAll(i) /\ lsidToId[i] # UNMAPPED
                         => tlb'[lsidToId[i]] = NoTlb]_vars
=============================================================================
