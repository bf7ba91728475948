---------------------------- MODULE MveEmulProofs ----------------------------
(***************************************************************************)
(* The guest's register writes never leak a memory map, never share one    *)
(* between LSIDs and never leave a pointer to a freed one, for any number  *)
(* of LSIDs and maps, as long as it writes no register of an LSID beyond   *)
(* the arrays and frees no map under a translation (~undefined).  Any      *)
(* other write is allowed, in any order, and any allocation may fail.      *)
(*                                                                         *)
(* Both properties need to know where the pointers to a map are: only in   *)
(* the slot it was entered under (PointersInSlot), which is the slot that  *)
(* rascemul_remove_memory_map clears.  That the slot is not that of the    *)
(* LSID, because tmp_lsid is never assigned, does not matter for it.       *)
(***************************************************************************)
EXTENDS MveEmul, TLAPS

MapsTyped ==
    /\ lsidToId \in [Lsid -> Maps \cup {UNMAPPED}]
    /\ lsidToMmap \in [Lsid -> Maps \cup {NULL}]
    /\ live \subseteq Maps
    /\ slot \in [Maps -> Lsid]
    /\ stale \in BOOLEAN

Owned == \A i \in Lsid : lsidToId[i] \in live \cup {UNMAPPED}
NotLeaked == \A m \in live : \E i \in Lsid : lsidToId[i] = m
NotShared == \A i, j \in Lsid : lsidToId[i] = lsidToId[j] => i = j \/ lsidToId[i] = UNMAPPED

PointersInSlot ==
    \A i \in Lsid : lsidToMmap[i] # NULL => lsidToMmap[i] \in live /\ slot[lsidToMmap[i]] = i

\* A translation works on a live map, or has been overtaken by its removal.
CallsMap == call # NULL => call[1] \in live \/ stale

IInv == MapsTyped /\ Owned /\ NotLeaked /\ NotShared /\ PointersInSlot /\ CallsMap

-----------------------------------------------------------------------------

LEMMA TmpIsLsid == TmpLsid \in Lsid
  BY EmulAssumption DEF TmpLsid, Lsid

LEMMA InitIInv == Init => IInv
  BY EmulAssumption, TmpIsLsid
     DEF Init, IInv, MapsTyped, Owned, NotLeaked, NotShared, PointersInSlot, CallsMap,
         TmpLsid

LEMMA MapsStay == IInv /\ UNCHANGED <<maps, translation>> => IInv'
  BY DEF IInv, MapsTyped, Owned, NotLeaked, NotShared, PointersInSlot, CallsMap, maps,
     translation

\* The steps that begin, end or interrupt a translation.
LEMMA CallKeeps ==
  ASSUME IInv, UNCHANGED maps, stale' \in BOOLEAN, CallsMap'
  PROVE  IInv'
  BY DEF IInv, MapsTyped, Owned, NotLeaked, NotShared, PointersInSlot, maps

\* Removing the map of an LSID marks the translation on it.
LEMMA RemovalMarks ==
  ASSUME IInv, NEW i \in Lsid, call' = call, stale' = (stale \/ Overtakes(i)),
         live \ {lsidToId[i]} \subseteq live'
  PROVE  stale' \in BOOLEAN /\ CallsMap'
  BY DEF IInv, MapsTyped, CallsMap, Overtakes

\* After the map of an LSID has been removed nothing points to it.
LEMMA RemovalClears ==
  ASSUME IInv, NEW i \in Lsid
  PROVE  /\ SlotsWithout(i) \in [Lsid -> Maps \cup {NULL}]
         /\ \A j \in Lsid : SlotsWithout(i)[j] # NULL =>
                /\ SlotsWithout(i)[j] \in live \ {lsidToId[i]}
                /\ slot[SlotsWithout(i)[j]] = j
  <1>1. CASE lsidToId[i] = UNMAPPED
    BY <1>1, EmulAssumption DEF SlotsWithout, IInv, MapsTyped, PointersInSlot
  <1>2. CASE lsidToId[i] # UNMAPPED
    <2>1. lsidToId[i] \in Maps /\ slot[lsidToId[i]] \in Lsid
      BY <1>2 DEF IInv, MapsTyped
    <2>2. SlotsWithout(i) = [lsidToMmap EXCEPT ![slot[lsidToId[i]]] = NULL]
      BY <1>2 DEF SlotsWithout
    <2>3. QED
      BY <2>1, <2>2 DEF IInv, MapsTyped, PointersInSlot
  <1>3. QED
    BY <1>1, <1>2

LEMMA MmuCtrlKeeps ==
  ASSUME IInv, NEW i \in Lsid, NEW root \in Roots, NEW m \in Maps, MmuCtrl(i, root, m)
  PROVE  IInv'
  <1>1. /\ m \notin live \ {lsidToId[i]}
        /\ live' = (live \ {lsidToId[i]}) \cup {m}
        /\ lsidToId' = [lsidToId EXCEPT ![i] = m]
        /\ lsidToMmap' = [SlotsWithout(i) EXCEPT ![TmpLsid] = m]
        /\ slot' = [slot EXCEPT ![m] = TmpLsid]
        /\ call' = call /\ stale' = (stale \/ Overtakes(i))
    BY DEF MmuCtrl
  <1>2. m # UNMAPPED /\ m # NULL
    BY EmulAssumption
  <1>3. MapsTyped'
    BY <1>1, TmpIsLsid, RemovalClears, RemovalMarks DEF IInv, MapsTyped
  <1>4. Owned' /\ NotLeaked' /\ NotShared'
    BY <1>1, <1>2 DEF IInv, MapsTyped, Owned, NotLeaked, NotShared
  <1>5. PointersInSlot'
    <2> SUFFICES ASSUME NEW j \in Lsid, lsidToMmap'[j] # NULL
                 PROVE  lsidToMmap'[j] \in live' /\ slot'[lsidToMmap'[j]] = j
      BY DEF PointersInSlot
    <2>1. CASE j = TmpLsid
      BY <1>1, <2>1, TmpIsLsid, RemovalClears DEF IInv, MapsTyped
    <2>2. CASE j # TmpLsid
      <3>1. lsidToMmap'[j] = SlotsWithout(i)[j]
        BY <1>1, <2>2, RemovalClears
      <3>2. lsidToMmap'[j] \in live \ {lsidToId[i]} /\ slot[lsidToMmap'[j]] = j
        BY <3>1, RemovalClears
      <3>3. lsidToMmap'[j] # m
        BY <1>1, <3>2
      <3>4. QED
        BY <1>1, <3>2, <3>3 DEF IInv, MapsTyped
    <2>3. QED
      BY <2>1, <2>2
  <1>6. CallsMap'
    BY <1>1, RemovalMarks
  <1>7. QED
    BY <1>3, <1>4, <1>5, <1>6 DEF IInv

LEMMA RemovedKeeps ==
  ASSUME IInv, NEW i \in Lsid, Removed(i)
  PROVE  IInv'
  <1>1. /\ live' = live \ {lsidToId[i]}
        /\ lsidToMmap' = SlotsWithout(i)
        /\ lsidToId' = [lsidToId EXCEPT ![i] = UNMAPPED]
        /\ slot' = slot
        /\ call' = call /\ stale' = (stale \/ Overtakes(i))
    BY DEF Removed
  <1>2. MapsTyped' /\ CallsMap'
    BY <1>1, RemovalClears, RemovalMarks DEF IInv, MapsTyped
  <1>3. Owned' /\ NotLeaked' /\ NotShared'
    BY <1>1, EmulAssumption DEF IInv, MapsTyped, Owned, NotLeaked, NotShared
  <1>4. PointersInSlot'
    BY <1>1, RemovalClears DEF PointersInSlot
  <1>5. QED
    BY <1>2, <1>3, <1>4 DEF IInv

LEMMA NextIInv == IInv /\ [Next]_vars => IInv'
  <1> SUFFICES ASSUME IInv, [Next]_vars PROVE IInv'
    OBVIOUS
  <1>1. CASE Registers
    <2>1. ASSUME NEW i \in Lsid, NEW r \in Roots, NEW m \in Maps, MmuCtrl(i, r, m) PROVE IInv'
      BY <2>1, MmuCtrlKeeps
    <2>2. ASSUME NEW i \in Lsid, FlushAll(i) PROVE IInv'
      BY <2>2, MapsStay DEF FlushAll
    <2>3. ASSUME NEW i \in Lsid, MmuCtrlFails(i) \/ Dealloc(i) PROVE IInv'
      BY <2>3, RemovedKeeps DEF MmuCtrlFails, Dealloc
    <2>4. ASSUME NEW i \in Window, BeyondArrays(i) PROVE IInv'
      BY <2>4, MapsStay DEF BeyondArrays
    <2>5. QED
      BY <1>1, <2>1, <2>2, <2>3, <2>4 DEF Registers
  <1>2. CASE Emulator
    <2>1. ASSUME NEW m \in Maps, NEW p \in Pages, Translate(m, p) PROVE IInv'
      <3>1. UNCHANGED maps /\ call' = <<m, p>> /\ stale' = FALSE /\ m \in live
        BY <2>1 DEF Translate
      <3>2. CallsMap'
        BY <3>1 DEF CallsMap, maps
      <3>3. QED
        BY <3>1, <3>2, CallKeeps
    <2>2. CASE TranslateReturn \/ TranslateFails
      BY <2>2, CallKeeps DEF TranslateReturn, TranslateFails, CallsMap, IInv, MapsTyped
    <2>3. ASSUME NEW m \in Maps, NEW p \in Pages, Access(m, p) PROVE IInv'
      BY <2>3, MapsStay DEF Access
    <2>4. CASE IdleTurn \/ SearchAgain \/ TranslateFreed \/ ThreadStart \/ ThreadExit
      BY <2>4, MapsStay DEF IdleTurn, SearchAgain, TranslateFreed, ThreadStart, ThreadExit,
         vars
    <2>5. QED
      BY <1>2, <2>1, <2>2, <2>3, <2>4 DEF Emulator
  <1>3. ASSUME NEW r \in Roots, NEW p \in Pages, NEW f \in Frames, WritePte(r, p, f) PROVE IInv'
    BY <1>3, MapsStay DEF WritePte
  <1>4. CASE Destruct \/ Join \/ Terminated \/ UNCHANGED vars
    BY <1>4, MapsStay DEF Destruct, Join, Terminated, vars
  <1>5. QED
    BY <1>1, <1>2, <1>3, <1>4 DEF Next

LEMMA TypeStep == TypeOK /\ IInv /\ [Next]_vars => TypeOK'
  <1> SUFFICES ASSUME TypeOK, IInv, [Next]_vars PROVE TypeOK'
    OBVIOUS
  <1> USE EmulAssumption, TmpIsLsid DEF TypeOK, NoTlb
  <1>1. ASSUME NEW i \in Lsid, NEW r \in Roots, NEW m \in Maps, MmuCtrl(i, r, m) PROVE TypeOK'
    <2>1. MapsTyped'
      BY <1>1, MmuCtrlKeeps DEF IInv
    <2>2. l0' = [l0 EXCEPT ![m] = r] /\ tlb' = [tlb EXCEPT ![m] = NoTlb]
          /\ copy' = [copy EXCEPT ![m] = NULL] /\ call' = call
          /\ UNCHANGED <<guest, threads, undefined>>
      BY <1>1 DEF MmuCtrl
    <2>3. QED
      BY <2>1, <2>2 DEF MapsTyped, guest, threads
  <1>2. ASSUME NEW i \in Window, BeyondArrays(i) PROVE TypeOK'
    BY <1>2 DEF BeyondArrays, maps, translation, guest, threads
  <1>3. ASSUME NEW i \in Lsid, FlushAll(i) PROVE TypeOK'
    BY <1>3 DEF FlushAll, maps, translation, guest, threads
  <1>4. ASSUME NEW i \in Lsid, MmuCtrlFails(i) \/ Dealloc(i) PROVE TypeOK'
    <2>1. Removed(i)
      BY <1>4 DEF MmuCtrlFails, Dealloc
    <2>2. MapsTyped'
      BY <2>1, RemovedKeeps DEF IInv
    <2>3. UNCHANGED <<l0, tlb, copy, call, guest, threads, undefined>>
      BY <2>1 DEF Removed
    <2>4. QED
      BY <2>2, <2>3 DEF MapsTyped, guest, threads
  <1>5. ASSUME NEW m \in Maps, NEW p \in Pages PROVE Translated(m, p) \in Frames \cup {0}
    <2>1. l0[m] # 0 => table[l0[m]][p] \in Frames \cup {0}
      OBVIOUS
    <2>2. QED
      BY <2>1 DEF Translated, Walk
  <1>6. ASSUME NEW m \in Maps, NEW p \in Pages, Access(m, p) PROVE TypeOK'
    BY <1>5, <1>6 DEF Access, maps, translation, guest, threads
  <1>7. ASSUME NEW m \in Maps, NEW p \in Pages, Translate(m, p) PROVE TypeOK'
    BY <1>7 DEF Translate, maps, guest, threads
  <1>8. CASE TranslateReturn
    <2>1. PICK m \in Maps, p \in Pages : call = <<m, p>>
      BY <1>8 DEF TranslateReturn, Translating
    <2>2. /\ copy' = [copy EXCEPT ![m] = p] /\ call' = NULL
          /\ tlb' = IF copy[m] = p THEN tlb ELSE [tlb EXCEPT ![m][p] = Translated(m, p)]
          /\ UNCHANGED <<maps, stale, guest, threads, undefined>>
      BY <1>8, <2>1 DEF TranslateReturn
    <2>3. QED
      BY <1>5, <2>2 DEF maps, guest, threads
  <1>9. CASE \/ IdleTurn \/ SearchAgain \/ TranslateFails \/ TranslateFreed
             \/ ThreadStart \/ ThreadExit
    BY <1>9 DEF IdleTurn, SearchAgain, TranslateFails, TranslateFreed, ThreadStart, ThreadExit,
       vars, maps, translation, guest, threads
  <1>10. ASSUME NEW r \in Roots, NEW p \in Pages, NEW f \in Frames, WritePte(r, p, f)
         PROVE  TypeOK'
    BY <1>10 DEF WritePte, maps, translation, threads
  <1>11. CASE Destruct \/ Join \/ Terminated \/ UNCHANGED vars
    BY <1>11 DEF Destruct, Join, Terminated, vars, maps, translation, guest, threads
  <1>12. QED
    BY <1>1, <1>2, <1>3, <1>4, <1>6, <1>7, <1>8, <1>9, <1>10, <1>11 DEF Next, Registers, Emulator

-----------------------------------------------------------------------------

\* Every register, map, cached translation and table entry keeps its type: the map a
\* register names is a map, and a translation is an address of the guest or 0.  A write
\* beyond the arrays ends what is said of them.
THEOREM TypeCorrect == Spec => []TypeOK
  <1>1. ASSUME Init PROVE TypeOK
    <2>1. MapsTyped
      BY <1>1, InitIInv DEF IInv
    <2>2. /\ l0 \in [Maps -> Roots \cup {0}] /\ tlb \in [Maps -> [Pages -> Frames \cup {0}]]
          /\ table \in [Roots -> [Pages -> Frames \cup {0}]] /\ writes \in 0..MaxWrites
      BY <1>1, EmulAssumption DEF Init, NoTlb
    <2>3. copy \in [Maps -> Pages \cup {NULL}] /\ call \in (Maps \X Pages) \cup {NULL}
          /\ stale \in BOOLEAN /\ undefined \in BOOLEAN
      BY <1>1 DEF Init
    <2>4. thread \in {"created", "running", "exited"} /\ destruct \in {"no", "joining", "joined"}
      BY <1>1 DEF Init
    <2>5. running \in BOOLEAN
      BY <1>1 DEF Init
    <2>6. QED
      BY <2>1, <2>2, <2>3, <2>4, <2>5 DEF TypeOK, MapsTyped
  <1>2. QED
    BY <1>1, InitIInv, NextIInv, TypeStep, PTL DEF Spec

\* No write of MMU_CTRL or ALLOC (mve_mmiowrite) to the LSIDs of the arrays, in any
\* order and also when an allocation fails, leaks a map of the emulator or gives one to
\* two LSIDs.
THEOREM OwnershipCorrect == Spec => []MapOwnership
  <1>1. IInv => MapOwnership
    BY EmulAssumption DEF IInv, MapsTyped, Owned, NotLeaked, NotShared, MapOwnership
  <1>2. QED
    BY <1>1, InitIInv, NextIInv, PTL DEF Spec

\* The pointers FLUSH_ALL follows are to maps that are still there: removing a map
\* clears the one pointer to it, wherever it was entered.  The map of a translation is
\* there too, unless the guest removed it after the translation began.
THEOREM PointersCorrect == Spec => []NoDanglingMmap
  <1>1. IInv => NoDanglingMmap
    BY DEF IInv, PointersInSlot, CallsMap, NoDanglingMmap
  <1>2. QED
    BY <1>1, InitIInv, NextIInv, PTL DEF Spec
=============================================================================
