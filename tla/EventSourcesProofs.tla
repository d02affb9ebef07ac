------------------------- MODULE EventSourcesProofs -------------------------
(***************************************************************************)
(* Proofs about the three event sources: the PCIe scan, for any number of  *)
(* devices, any links and any number of changes while it reads; the tail   *)
(* of the NCCL log, for any log and any read cap; the parse of the kernel  *)
(* text, for texts of any length and records split anywhere.               *)
(***************************************************************************)
EXTENDS EventSources, FiniteSetTheorems, WellFoundedInduction, TLAPS

-----------------------------------------------------------------------------
(* ProcLinkCollector.                                                      *)

Kinds == {"device.lost", "link.degraded.width", "link.degraded.speed"}

(* The states a device had include the one it has.                         *)
History ==
    /\ legs \subseteq Kinds \X Addrs /\ addr \in Addrs
    /\ check \in {"lost", "width", "speed"}
    /\ DOMAIN link = Addrs /\ DOMAIN had = Addrs
    /\ \A a \in Addrs : link[a] \in had[a] /\ IsFiniteSet(had[a])

(* The scan has only reached the devices up to addr, and has no leg of the *)
(* one it is at.                                                           *)
Ahead ==
    \A leg \in legs : leg[2] <= addr /\ (pc = "collect" => leg[2] < addr)

(* A leg is what its device was at some moment, and it has no other.       *)
True ==
    /\ \A leg \in legs : \E l \in had[leg[2]] : Means(leg[1], leg[2], l)
    /\ \A p, q \in legs : p[2] = q[2] => p = q

Steady(a) == had[a] = {link[a]}

(* The leg of a steady device is the first that its state calls for.       *)
Due(a, kind) ==
    /\ Means(kind, a, link[a])
    /\ kind # "device.lost" => ~Means("device.lost", a, link[a])
    /\ kind = "link.degraded.speed" => ~Means("link.degraded.width", a, link[a])

Behind(a) == a < addr \/ pc = "done"

Reported ==
    \A a \in Addrs : Steady(a) =>
      /\ Behind(a) => \A kind \in Kinds : <<kind, a>> \in legs <=> Due(a, kind)
      /\ a = addr /\ pc = "collect" =>
           /\ check \in {"width", "speed"} => ~Means("device.lost", a, link[a])
           /\ check = "speed" => ~Means("link.degraded.width", a, link[a])

PInv ==
    /\ collector = "ProcLink" => History /\ Ahead /\ True /\ Reported
    /\ collector # "ProcLink" => legs = {}

-----------------------------------------------------------------------------
(* The scan starts at the first device, without a leg.                     *)
LEMMA InitPInv == Init => PInv
<1> SUFFICES ASSUME Init PROVE PInv
  OBVIOUS
<1>1. /\ legs = {} /\ addr = 1 /\ check = "lost" /\ pc = "collect"
      /\ DOMAIN link = Addrs
      /\ had = [a \in Addrs |-> {link[a]}]
  BY DEF Init
<1>2. 1 \in Addrs
  BY DeviceAssumption DEF Addrs
<1>3. \A a \in Addrs : IsFiniteSet({link[a]})
  BY FS_Singleton
<1>4. History
  BY <1>1, <1>2, <1>3 DEF History
<1>5. Ahead /\ True
  BY <1>1 DEF Ahead, True
<1>6. Reported
  BY <1>1 DEF Reported, Behind, Addrs
<1> QED
  BY <1>1, <1>4, <1>5, <1>6 DEF PInv

(* A link that changes is steady no more; of the others nothing is said    *)
(* anew.                                                                   *)
LEMMA ChangeKeeps ==
  ASSUME PInv, NEW a \in Addrs, NEW l, LinkChanges(a, l)
  PROVE  PInv'
<1>1. /\ History /\ Ahead /\ True /\ Reported /\ collector = "ProcLink"
      /\ l # link[a] /\ link[a] \in had[a] /\ IsFiniteSet(had[a])
      /\ DOMAIN link = Addrs /\ DOMAIN had = Addrs
  BY DEF LinkChanges, Running, PInv, History
<1>2. /\ link' = [link EXCEPT ![a] = l]
      /\ had' = [had EXCEPT ![a] = @ \cup {l}]
      /\ UNCHANGED <<collector, pc, addr, check, legs>>
  BY DEF LinkChanges
<1>3. /\ DOMAIN link' = Addrs /\ DOMAIN had' = Addrs
      /\ link'[a] = l /\ had'[a] = had[a] \cup {l}
      /\ \A b \in Addrs \ {a} : link'[b] = link[b] /\ had'[b] = had[b]
  BY <1>1, <1>2
<1>4. IsFiniteSet(had[a] \cup {l})
  BY <1>1, FS_AddElement
<1>5. History'
  BY <1>1, <1>2, <1>3, <1>4 DEF History
<1>6. Ahead'
  BY <1>1, <1>2 DEF Ahead
<1>7. True'
  <2>1. \A leg \in legs : leg[2] \in Addrs
    BY <1>1 DEF History
  <2>2. \A b \in Addrs : had[b] \subseteq had'[b]
    BY <1>3
  <2> QED
    BY <1>1, <1>2, <2>1, <2>2 DEF True, Means
<1>8. Reported'
  <2>1. ~Steady(a)'
    BY <1>1, <1>3 DEF Steady
  <2>2. ASSUME NEW b \in Addrs, Steady(b)'
        PROVE  b # a /\ Steady(b) /\ link'[b] = link[b]
    BY <1>3, <2>1, <2>2 DEF Steady
  <2> QED
    BY <1>1, <1>2, <2>2 DEF Reported, Behind, Due, Means
<1> QED
  BY <1>1, <1>2, <1>5, <1>6, <1>7, <1>8 DEF PInv

(* A verdict that ends the device: with the leg its state calls for, or    *)
(* without one.                                                            *)
LEMMA DeviceDone ==
  ASSUME PInv, collector = "ProcLink", pc = "collect",
         NextDevice, UNCHANGED <<collector, had, link>>,
         NEW found \in BOOLEAN, NEW leg \in Kinds,
         legs' = IF found THEN legs \cup {<<leg, addr>>} ELSE legs,
         found => Means(leg, addr, link[addr]),
         Steady(addr) =>
           \A kind \in Kinds : Due(addr, kind) <=> found /\ kind = leg
  PROVE  PInv'
<1>1. /\ History /\ Ahead /\ True /\ Reported
      /\ addr \in Addrs /\ addr \in Nat /\ Devices \in Nat
  BY DeviceAssumption DEF PInv, History, Addrs
<1>2. /\ check' = "lost"
      /\ \/ addr < Devices /\ addr' = addr + 1 /\ pc' = "collect"
         \/ addr = Devices /\ addr' = addr /\ pc' = "done"
  BY <1>1 DEF NextDevice, Addrs
<1>3. /\ \A p \in legs' : p \in legs \/ (found /\ p = <<leg, addr>>)
      /\ legs \subseteq legs'
      /\ \A p \in legs : p[2] < addr
  BY <1>1 DEF Ahead
<1>4. \A b \in Addrs : b \in Nat /\ b <= Devices
  BY <1>1 DEF Addrs
<1>5. History'
  <2>1. addr' \in Addrs
    BY <1>1, <1>2 DEF Addrs
  <2>2. legs' \subseteq Kinds \X Addrs
    BY <1>1 DEF History
  <2> QED
    BY <1>1, <1>2, <2>1, <2>2 DEF History
<1>6. Ahead'
  <2>1. ASSUME NEW p \in legs' PROVE p[2] \in Nat /\ p[2] <= addr
    <3>1. CASE p \in legs
      <4>1. p[2] \in Addrs
        BY <1>1, <3>1 DEF History
      <4>2. p[2] \in Nat /\ p[2] < addr
        BY <1>3, <1>4, <3>1, <4>1
      <4> QED
        BY <1>1, <4>2
    <3>2. CASE p = <<leg, addr>>
      BY <1>1, <3>2
    <3> QED
      BY <1>3, <3>1, <3>2
  <2> QED
    BY <1>1, <1>2, <2>1 DEF Ahead
<1>7. True'
  <2>1. \A p \in legs' : \E l \in had'[p[2]] : Means(p[1], p[2], l)
    BY <1>1, <1>3 DEF True, History
  <2>2. \A p, r \in legs' : p[2] = r[2] => p = r
    <3>1. ~(addr < addr)
      BY <1>1
    <3> QED
      BY <1>1, <1>3, <3>1 DEF True
  <2> QED
    BY <2>1, <2>2 DEF True, Means
<1>8. Reported'
  <2>1. ASSUME NEW b \in Addrs, Steady(b), Behind(b)', NEW kind \in Kinds
        PROVE  <<kind, b>> \in legs' <=> Due(b, kind)
    <3>1. CASE b = addr
      <4>1. <<kind, addr>> \notin legs
        BY <1>1, <1>3
      <4>2. <<kind, addr>> \in legs' <=> found /\ kind = leg
        BY <4>1
      <4> QED
        BY <2>1, <3>1, <4>2
    <3>2. CASE b # addr
      <4>1. Behind(b)
        BY <1>1, <1>2, <1>4, <2>1, <3>2 DEF Behind
      <4>2. <<kind, b>> \in legs' <=> <<kind, b>> \in legs
        BY <3>2
      <4> QED
        BY <1>1, <2>1, <4>1, <4>2 DEF Reported
    <3> QED
      BY <3>1, <3>2
  <2> QED
    BY <1>2, <2>1 DEF Reported, Steady, Due, Means
<1> QED
  BY <1>5, <1>6, <1>7, <1>8 DEF PInv

(* A verdict that leads to the next check of the same device.              *)
LEMMA NextCheck ==
  ASSUME PInv, collector = "ProcLink", pc = "collect",
         UNCHANGED <<collector, pc, addr, legs, had, link>>,
         check' \in {"width", "speed"},
         Steady(addr) =>
           /\ ~Means("device.lost", addr, link[addr])
           /\ check' = "speed" => ~Means("link.degraded.width", addr, link[addr])
  PROVE  PInv'
<1>1. History /\ Ahead /\ True /\ Reported
  BY DEF PInv
<1>2. History'
  BY <1>1 DEF History
<1>3. Ahead' /\ True'
  BY <1>1 DEF Ahead, True, Means
<1>4. Reported'
  BY <1>1 DEF Reported, Steady, Behind, Due, Means
<1> QED
  BY <1>2, <1>3, <1>4 DEF PInv

(* The first check: a link of width 0 of an NVIDIA device.                 *)
LEMMA LostKeeps ==
  ASSUME PInv, Check_Lost
  PROVE  PInv'
<1>1. /\ collector = "ProcLink" /\ pc = "collect" /\ check = "lost"
      /\ UNCHANGED <<collector, had, link>>
      /\ Verdict(IsLost(addr), "device.lost", "width")
  BY DEF Check_Lost, Scan, Running
<1>2. IsLost(addr) <=> Means("device.lost", addr, link[addr])
  BY DEF IsLost, Means
<1>3. CASE IsLost(addr)
  <2>1. NextDevice /\ legs' = legs \cup {<<"device.lost", addr>>}
    BY <1>1, <1>3 DEF Verdict
  <2>2. \A kind \in Kinds : Due(addr, kind) <=> kind = "device.lost"
    BY <1>2, <1>3 DEF Due, Kinds
  <2>3. "device.lost" \in Kinds
    BY DEF Kinds
  <2> QED
    BY <1>1, <1>2, <1>3, <2>1, <2>2, <2>3, DeviceDone
<1>4. CASE ~IsLost(addr)
  <2>1. check' = "width" /\ UNCHANGED <<pc, addr, legs>>
    BY <1>1, <1>4 DEF Verdict
  <2> QED
    BY <1>1, <1>2, <1>4, <2>1, NextCheck
<1> QED
  BY <1>3, <1>4

(* The second check: a steady device is not lost here.                     *)
LEMMA WidthKeeps ==
  ASSUME PInv, Check_Width
  PROVE  PInv'
<1> DEFINE found == link[addr].width > 0 /\ link[addr].width < MaxWidth
<1>1. /\ collector = "ProcLink" /\ pc = "collect" /\ check = "width"
      /\ UNCHANGED <<collector, had, link>>
      /\ Verdict(found, "link.degraded.width", "speed")
  BY DEF Check_Width, Scan, Running
<1>2. found <=> Means("link.degraded.width", addr, link[addr])
  BY DEF Means
<1>3. Steady(addr) => ~Means("device.lost", addr, link[addr])
  BY <1>1 DEF PInv, Reported, History
<1>4. CASE found
  <2>1. NextDevice /\ legs' = legs \cup {<<"link.degraded.width", addr>>}
    BY <1>1, <1>4 DEF Verdict
  <2>2. Steady(addr) =>
          \A kind \in Kinds : Due(addr, kind) <=> kind = "link.degraded.width"
    BY <1>2, <1>3, <1>4 DEF Due, Kinds
  <2>3. "link.degraded.width" \in Kinds
    BY DEF Kinds
  <2> QED
    BY <1>1, <1>2, <1>4, <2>1, <2>2, <2>3, DeviceDone
<1>5. CASE ~found
  <2>1. check' = "speed" /\ UNCHANGED <<pc, addr, legs>>
    BY <1>1, <1>5 DEF Verdict
  <2> QED
    BY <1>1, <1>2, <1>3, <1>5, <2>1, NextCheck
<1> QED
  BY <1>4, <1>5

(* The last check: a steady device is neither lost nor narrow here.        *)
LEMMA SpeedKeeps ==
  ASSUME PInv, Check_Speed
  PROVE  PInv'
<1> DEFINE found == link[addr].speed > 0 /\ link[addr].speed < MaxSpeed
           leg == "link.degraded.speed"
<1>1. /\ collector = "ProcLink" /\ pc = "collect" /\ check = "speed"
      /\ UNCHANGED <<collector, had, link>>
      /\ Verdict(found, leg, "next device")
  BY DEF Check_Speed, Scan, Running
<1>2. found <=> Means(leg, addr, link[addr])
  BY DEF Means
<1>3. Steady(addr) => /\ ~Means("device.lost", addr, link[addr])
                      /\ ~Means("link.degraded.width", addr, link[addr])
  BY <1>1 DEF PInv, Reported, History
<1>4. /\ NextDevice
      /\ legs' = IF found THEN legs \cup {<<leg, addr>>} ELSE legs
  BY <1>1 DEF Verdict
<1>5. Steady(addr) =>
        \A kind \in Kinds : Due(addr, kind) <=> found /\ kind = leg
  BY <1>2, <1>3 DEF Due, Kinds
<1>6. leg \in Kinds /\ found \in BOOLEAN
  BY DEF Kinds
<1> HIDE DEF found, leg
<1> QED
  BY <1>1, <1>2, <1>4, <1>5, <1>6, DeviceDone

(* Every step of the scan, and of the links, preserves the invariant.      *)
LEMMA NextPInv == PInv /\ [Next]_vars => PInv'
<1> SUFFICES ASSUME PInv, [Next]_vars PROVE PInv'
  OBVIOUS
<1>1. ASSUME collector # "ProcLink", UNCHANGED <<collector, legs>> PROVE PInv'
  BY <1>1 DEF PInv
<1>2. ASSUME NEW lines, Collect_Logs(lines) PROVE PInv'
  BY <1>1, <1>2 DEF Collect_Logs, Running, proc
<1>3. CASE Stat_NCCL \/ Collect_NCCL
  BY <1>1, <1>3 DEF Stat_NCCL, Collect_NCCL, Running, proc
<1>4. ASSUME NEW l, JobLogs(l) PROVE PInv'
  BY <1>1, <1>4 DEF JobLogs, Running, proc
<1>5. ASSUME NEW a \in Addrs, NEW l, LinkChanges(a, l) PROVE PInv'
  BY <1>5, ChangeKeeps
<1>6. CASE Check_Lost \/ Check_Width \/ Check_Speed
  BY <1>6, LostKeeps, WidthKeeps, SpeedKeeps
<1>7. CASE UNCHANGED vars
  BY <1>7
  DEF vars, proc, PInv, History, Ahead, True, Reported, Steady, Behind, Due, Means
<1> QED
  BY <1>2, <1>3, <1>4, <1>5, <1>6, <1>7 DEF Next

(* The invariant holds of every scan.                                      *)
LEMMA AlwaysPInv == Spec => []PInv
  BY InitPInv, NextPInv, PTL DEF Spec

-----------------------------------------------------------------------------
(* Though attributes are read one by one while links change, a leg states  *)
(* what was true of its device at some moment, and there is one at most.   *)
THEOREM LegsAreTrue == Spec => []LegsWereTrue
<1>1. PInv => LegsWereTrue
  BY DEF PInv, True, LegsWereTrue
<1> QED
  BY <1>1, AlwaysPInv, PTL

(* A link that did not change gets exactly the leg of its state.           *)
THEOREM SteadyIsReported == Spec => []SteadyLinksReported
<1>1. PInv => SteadyLinksReported
  <2> SUFFICES ASSUME PInv, pc = "done", collector = "ProcLink",
                      NEW a \in Addrs, Cardinality(had[a]) = 1
               PROVE  \A kind \in Kinds : <<kind, a>> \in legs <=> Due(a, kind)
    BY DEF SteadyLinksReported, Kinds, Due
  <2>1. link[a] \in had[a] /\ IsFiniteSet(had[a])
    BY DEF PInv, History
  <2>2. Steady(a)
    BY <2>1, FS_Singleton DEF Steady
  <2> QED
    BY <2>2 DEF PInv, Reported, Behind
<1> QED
  BY <1>1, AlwaysPInv, PTL

-----------------------------------------------------------------------------
(* NCCLLogCollector.                                                       *)

(* The lines of the log follow one another, and none is empty.             *)
Entries == [kind : {l.kind : l \in NcclLines}, from : Nat, to : Nat]
Contiguous ==
    /\ ncclLog \in Seq(Entries) /\ ncclStat \in 0..Len(ncclLog)
    /\ \A i \in 1..Len(ncclLog) : ncclLog[i].from < ncclLog[i].to
    /\ \A i, j \in 1..Len(ncclLog) : i < j => ncclLog[i].to <= ncclLog[j].from

NInv == Contiguous /\ RecentTimeoutsReported

(* Offsets are numbers.                                                    *)
LEMMA Offsets ==
  ASSUME Contiguous
  PROVE  /\ Len(ncclLog) \in Nat
         /\ \A i \in 1..Len(ncclLog) :
               /\ ncclLog[i].from \in Nat /\ ncclLog[i].to \in Nat
               /\ ncclLog[i].from < ncclLog[i].to
<1>1. ncclLog \in Seq(Entries)
  BY DEF Contiguous
<1>2. ASSUME NEW i \in 1..Len(ncclLog)
      PROVE  ncclLog[i].from \in Nat /\ ncclLog[i].to \in Nat
  <2>1. ncclLog[i] \in Entries
    BY <1>1
  <2> QED BY <2>1, Zenon DEF Entries
<1> QED BY <1>1, <1>2 DEF Contiguous

(* The log is empty at first.                                              *)
LEMMA InitNInv == Init => NInv
<1> SUFFICES ASSUME Init PROVE NInv
  OBVIOUS
<1>1. ncclLog = <<>> /\ ncclStat = 0 /\ pc = "collect"
  BY DEF Init
<1> QED
  BY <1>1 DEF NInv, Contiguous, RecentTimeoutsReported

(* A line that is logged starts where the log ended.                       *)
LEMMA JobKeeps ==
  ASSUME NInv, NEW l \in NcclLines, JobLogs(l)
  PROVE  NInv'
<1> DEFINE n == Len(ncclLog)
           e == [kind |-> l.kind, from |-> SizeOf(n), to |-> SizeOf(n) + l.len]
<1>1. ncclLog' = Append(ncclLog, e) /\ pc # "done" /\ UNCHANGED <<pc, ncclStat>>
  BY DEF JobLogs
<1>2. Contiguous
  BY DEF NInv
<1>3. /\ ncclLog \in Seq(Entries) /\ n \in Nat
      /\ \A i \in 1..n : /\ ncclLog[i].from \in Nat /\ ncclLog[i].to \in Nat
                         /\ ncclLog[i].from < ncclLog[i].to
  BY <1>2, Offsets DEF Contiguous
<1>4. /\ SizeOf(n) \in Nat /\ l.len \in Nat /\ l.len > 0
      /\ \A i \in 1..n : ncclLog[i].to <= SizeOf(n)
  <2>1. l.len \in Nat /\ l.len > 0
    BY LineAssumption
  <2>2. CASE n = 0
    BY <2>1, <2>2 DEF SizeOf
  <2>3. CASE n # 0
    <3>1. SizeOf(n) = ncclLog[n].to /\ n \in 1..n
      BY <1>3, <2>3 DEF SizeOf
    <3>2. ASSUME NEW i \in 1..n PROVE ncclLog[i].to <= ncclLog[n].to
      <4>1. i = n \/ i < n
        BY <1>3
      <4>2. CASE i < n
        <5>1. ncclLog[i].to <= ncclLog[n].from
          BY <1>2, <3>1, <4>2 DEF Contiguous
        <5> QED BY <1>3, <3>1, <5>1
      <4> QED BY <1>3, <3>1, <4>1, <4>2
    <3> QED BY <1>3, <2>1, <3>1, <3>2
  <2> QED BY <2>2, <2>3
<1>5. /\ e \in Entries /\ e.from = SizeOf(n) /\ e.to = SizeOf(n) + l.len
  BY <1>4 DEF Entries
<1> HIDE DEF e
<1>6. /\ ncclLog' \in Seq(Entries) /\ Len(ncclLog') = n + 1
      /\ ncclLog'[n + 1] = e
      /\ \A i \in 1..n : ncclLog'[i] = ncclLog[i]
  BY <1>1, <1>3, <1>5
<1>7. ASSUME NEW i \in 1..n + 1 PROVE ncclLog'[i].from < ncclLog'[i].to
  BY <1>3, <1>4, <1>5, <1>6
<1>8. ASSUME NEW i \in 1..n + 1, NEW j \in 1..n + 1, i < j
      PROVE  ncclLog'[i].to <= ncclLog'[j].from
  <2>1. i \in 1..n
    BY <1>3, <1>8
  <2>2. CASE j \in 1..n
    BY <1>2, <1>6, <1>8, <2>1, <2>2 DEF Contiguous
  <2>3. CASE j = n + 1
    BY <1>4, <1>5, <1>6, <2>1, <2>3
  <2> QED BY <1>3, <2>2, <2>3
<1>9. ncclStat' \in 0..n + 1
  BY <1>1, <1>2, <1>3 DEF Contiguous
<1>10. Contiguous'
  BY <1>6, <1>7, <1>8, <1>9 DEF Contiguous
<1> QED
  BY <1>1, <1>10 DEF NInv, RecentTimeoutsReported

(* A recent line is taken whole: it is behind the place the read starts at *)
(* and ends before the limit.                                              *)
LEMMA RecentIsWhole ==
  ASSUME Contiguous, NEW i \in 1..ncclStat,
         SizeOf(ncclStat) - ncclLog[i].from <= ncclMaxBytes
  PROVE  i \in Touched /\ Whole(i)
<1> DEFINE n == Len(ncclLog)
           from == ncclLog[i].from
           to == ncclLog[i].to
           size == SizeOf(ncclStat)
<1>1. n \in Nat /\ ncclStat \in 1..n /\ i \in 1..n /\ i <= ncclStat
  BY DEF Contiguous
<1>2. /\ from \in Nat /\ to \in Nat /\ from < to
      /\ size = ncclLog[ncclStat].to /\ size \in Nat
      /\ ncclLog[ncclStat].from < ncclLog[ncclStat].to
      /\ ncclLog[ncclStat].from \in Nat
  BY <1>1, Offsets DEF SizeOf
<1>3. to <= size
  <2>1. CASE i < ncclStat
    <3>1. to <= ncclLog[ncclStat].from
      BY <1>1, <2>1 DEF Contiguous
    <3> QED BY <1>2, <3>1
  <2>2. CASE i = ncclStat
    BY <1>2, <2>2
  <2> QED BY <1>1, <2>1, <2>2
<1>4. ncclMaxBytes \in Nat /\ ncclMaxBytes > 0
  BY CapAssumption
<1>5. /\ SeekTo = IF size > ncclMaxBytes THEN size - ncclMaxBytes ELSE 0
      /\ LimitAt = SeekTo + ncclMaxBytes /\ size - from <= ncclMaxBytes
  BY DEF SeekTo, LimitAt
<1> HIDE DEF size
<1>6. to > SeekTo /\ from < LimitAt /\ from >= SeekTo /\ to <= LimitAt
  BY <1>2, <1>3, <1>4, <1>5
<1> QED
  BY <1>1, <1>6 DEF Touched, Whole

(* What the read makes of the log: every line that was recent when its     *)
(* size was taken is whole, and no line is cut into a timeout.             *)
LEMMA ReadKeeps ==
  ASSUME NInv, Collect_NCCL
  PROVE  NInv'
<1>1. PICK kind \in [Touched -> {"timeout", "op", "noise"}] :
        /\ \A i \in Touched : IF Whole(i) THEN kind[i] = ncclLog[i].kind
                              ELSE kind[i] \in Cut(ncclLog[i].kind)
        /\ ncclRead' = [i \in Touched |-> [kind |-> kind[i], len |-> Taken(i)]]
  BY DEF Collect_NCCL
<1>2. /\ ncclEvents' = parseNCCL(ncclRead')
      /\ UNCHANGED <<ncclLog, ncclStat>>
  BY DEF Collect_NCCL
<1>3. Contiguous /\ Contiguous'
  BY <1>2 DEF NInv, Contiguous
<1>4. /\ DOMAIN ncclRead' = Touched
      /\ \A i \in Touched : ncclRead'[i].kind = kind[i]
  BY <1>1
<1>5. \A i \in Touched : kind[i] = "timeout" => ncclLog[i].kind = "timeout"
  BY <1>1 DEF Cut
<1>6. /\ DOMAIN ncclEvents' = {j \in Scanned(ncclRead') : ncclRead'[j].kind # "noise"}
      /\ \A i \in DOMAIN ncclEvents' :
            ncclEvents'[i] = IF ncclRead'[i].kind = "timeout"
                             THEN "OP_TIMEOUT" ELSE "OP_COMPLETED"
  BY <1>2 DEF parseNCCL
<1>7. ASSUME \A i \in DOMAIN ncclRead' : ncclRead'[i].len <= MaxLine,
             NEW i \in 1..ncclStat,
             SizeOf(ncclStat) - ncclLog[i].from <= ncclMaxBytes,
             ncclLog[i].kind = "timeout"
      PROVE  i \in DOMAIN ncclEvents' /\ ncclEvents'[i] = "OP_TIMEOUT"
  <2>1. i \in Touched /\ kind[i] = "timeout"
    BY <1>1, <1>3, <1>7, RecentIsWhole
  <2>2. i \in Scanned(ncclRead')
    BY <1>4, <1>7, <2>1 DEF Scanned
  <2> QED BY <1>4, <1>6, <2>1, <2>2
<1>8. ASSUME NEW i \in DOMAIN ncclEvents', ncclEvents'[i] = "OP_TIMEOUT"
      PROVE  ncclLog[i].kind = "timeout"
  <2>1. i \in Touched /\ kind[i] = "timeout"
    BY <1>4, <1>6, <1>8 DEF Scanned
  <2> QED BY <1>5, <2>1
<1>9. SizeOf(ncclStat)' = SizeOf(ncclStat)
  BY <1>2 DEF SizeOf
<1> QED
  BY <1>2, <1>3, <1>7, <1>8, <1>9 DEF NInv, RecentTimeoutsReported

(* Every step preserves it.                                                *)
LEMMA NextNInv == NInv /\ [Next]_vars => NInv'
<1> SUFFICES ASSUME NInv, [Next]_vars PROVE NInv'
  OBVIOUS
<1>1. ASSUME UNCHANGED <<collector, ncclLog, ncclStat>>,
             pc' = "done" => collector # "NCCLLog"
      PROVE  NInv'
  BY <1>1 DEF NInv, Contiguous, RecentTimeoutsReported
<1>2. ASSUME NEW lines, Collect_Logs(lines) PROVE NInv'
  BY <1>1, <1>2 DEF Collect_Logs, Running, nccl
<1>3. CASE Check_Lost \/ Check_Width \/ Check_Speed
  BY <1>1, <1>3 DEF Check_Lost, Check_Width, Check_Speed, Scan, Running, nccl
<1>4. CASE Stat_NCCL
  <2>1. ncclStat' = Len(ncclLog) /\ pc' = "read" /\ UNCHANGED ncclLog
    BY <1>4 DEF Stat_NCCL
  <2>2. Contiguous
    BY DEF NInv
  <2>3. Len(ncclLog) \in 0..Len(ncclLog)
    BY <2>2 DEF Contiguous
  <2> QED
    BY <2>1, <2>2, <2>3 DEF NInv, Contiguous, RecentTimeoutsReported
<1>5. CASE Collect_NCCL
  BY <1>5, ReadKeeps
<1>6. ASSUME NEW a, NEW l, LinkChanges(a, l) PROVE NInv'
  BY <1>1, <1>6 DEF LinkChanges, Running, nccl
<1>7. ASSUME NEW l \in NcclLines, JobLogs(l) PROVE NInv'
  BY <1>7, JobKeeps
<1>8. CASE UNCHANGED vars
  BY <1>8 DEF vars, nccl, NInv, Contiguous, RecentTimeoutsReported, SizeOf
<1> QED
  BY <1>2, <1>3, <1>4, <1>5, <1>6, <1>7, <1>8 DEF Next

(* However long the log is and whatever the job logs between the size and  *)
(* the read, the recent timeouts are reported, and nothing else is one.    *)
THEOREM RecentTimeoutsAreReported == Spec => []RecentTimeoutsReported
<1>1. NInv => RecentTimeoutsReported
  BY DEF NInv
<1> QED
  BY <1>1, InitNInv, NextNInv, PTL DEF Spec

-----------------------------------------------------------------------------
(* LogEventCollector.  What a recursive definition makes of the next line  *)
(* is proved by minimal counterexample.                                    *)

(* A set of naturals has a smallest element: less-than is well founded.    *)
LEMMA Smallest ==
    ASSUME NEW T, T \subseteq Nat, T # {}
    PROVE  \E x \in T : \A y \in T : x <= y
<1>1. IsWellFoundedOn(OpToRel(<, Nat), Nat)
  BY NatLessThanWellFounded
<1>2. PICK x \in T : \A y \in T : ~(<<y, x>> \in OpToRel(<, Nat))
  BY <1>1, WFMin
<1>3. ASSUME NEW y \in T PROVE x <= y
  <2>1. ~(<<y, x>> \in OpToRel(<, Nat))
    BY <1>2
  <2>2. ~(y < x)
    BY <2>1, Zenon DEF OpToRel
  <2> QED BY <2>2
<1> QED BY <1>3

(* Min finds it.                                                           *)
LEMMA MinFacts ==
    ASSUME NEW T, T \subseteq Nat, T # {}
    PROVE  Min(T) \in T /\ \A y \in T : Min(T) <= y
  BY Smallest DEF Min

(* The function by which FlattenSeq is defined.                            *)
IsFlat(f, s, n) == f = [i \in 1..n |-> IF i = 1 THEN s[i] ELSE f[i - 1] \o s[i]]

(* It exists, whatever the sequence: a shortest one without it would have  *)
(* one, made from that of the sequence that is shorter by one.             *)
LEMMA FlatExists ==
  ASSUME NEW s, NEW n \in Nat
  PROVE  \E f : IsFlat(f, s, n)
<1> DEFINE T == {m \in Nat : ~ \E f : IsFlat(f, s, m)}
<1> SUFFICES ASSUME T # {} PROVE FALSE
  OBVIOUS
<1>1. PICK x \in T : \A y \in T : x <= y
  <2>1. T \subseteq Nat
    OBVIOUS
  <2> HIDE DEF T
  <2> QED BY <2>1, Smallest
<1>2. x \in Nat /\ ~ \E f : IsFlat(f, s, x)
  OBVIOUS
<1>3. CASE x = 0
  <2>1. IsFlat([i \in 1..0 |-> 0], s, 0)
    BY DEF IsFlat
  <2> QED BY <1>2, <1>3, <2>1
<1>4. CASE x # 0
  <2>1. x - 1 \in Nat /\ x - 1 \notin T
    BY <1>1, <1>2, <1>4
  <2>2. PICK f : IsFlat(f, s, x - 1)
    BY <2>1
  <2> DEFINE g == [i \in 1..x |-> IF i = x
                                  THEN IF i = 1 THEN s[i] ELSE f[i - 1] \o s[i]
                                  ELSE f[i]]
  <2>3. /\ DOMAIN f = 1..x - 1
        /\ \A i \in 1..x - 1 : f[i] = IF i = 1 THEN s[i] ELSE f[i - 1] \o s[i]
    BY <2>2, Zenon DEF IsFlat
  <2>4. ASSUME NEW i \in 1..x
        PROVE  g[i] = IF i = 1 THEN s[i] ELSE g[i - 1] \o s[i]
    <3>1. g[i] = IF i = 1 THEN s[i] ELSE f[i - 1] \o s[i]
      <4>1. i # x => i \in 1..x - 1
        BY <1>2
      <4> QED BY <2>3, <4>1
    <3>2. i # 1 => i - 1 \in 1..x /\ i - 1 # x
      BY <1>2
    <3>3. i # 1 => g[i - 1] = f[i - 1]
      BY <3>2
    <3> HIDE DEF g
    <3> QED BY <3>1, <3>3
  <2>5. IsFlat(g, s, x)
    <3>1. g = [i \in 1..x |-> g[i]]
      OBVIOUS
    <3> HIDE DEF g
    <3> QED BY <2>4, <3>1, Zenon DEF IsFlat
  <2> QED BY <1>2, <2>5
<1> QED BY <1>3, <1>4

(* It depends on the elements up to its argument only.                     *)
LEMMA FlatAgrees ==
  ASSUME NEW f, NEW s, NEW n \in Nat, IsFlat(f, s, n),
         NEW g, NEW r, NEW m \in Nat, IsFlat(g, r, m),
         m <= n, \A i \in 1..m : r[i] = s[i]
  PROVE  \A i \in 1..m : f[i] = g[i]
<1> DEFINE T == {i \in 1..m : f[i] # g[i]}
<1> SUFFICES ASSUME T # {} PROVE FALSE
  OBVIOUS
<1>1. PICK x \in T : \A y \in T : x <= y
  <2>1. T \subseteq Nat
    OBVIOUS
  <2> HIDE DEF T
  <2> QED BY <2>1, Smallest
<1>2. x \in 1..m /\ x \in 1..n /\ f[x] # g[x]
  OBVIOUS
<1>3. /\ f[x] = IF x = 1 THEN s[x] ELSE f[x - 1] \o s[x]
      /\ g[x] = IF x = 1 THEN r[x] ELSE g[x - 1] \o r[x]
  BY <1>2, Zenon DEF IsFlat
<1>4. x # 1 => x - 1 \in 1..m /\ x - 1 \notin T
  BY <1>1, <1>2
<1>5. x # 1 => f[x - 1] = g[x - 1]
  BY <1>4
<1> QED BY <1>2, <1>3, <1>5

(* FlattenSeq takes its last value.                                        *)
LEMMA FlatIs ==
  ASSUME NEW s, Len(s) \in Nat, Len(s) # 0
  PROVE  \E f : IsFlat(f, s, Len(s)) /\ FlattenSeq(s) = f[Len(s)]
<1> DEFINE c == CHOOSE f : IsFlat(f, s, Len(s))
<1>1. IsFlat(c, s, Len(s))
  BY FlatExists, Zenon
<1>2. FlattenSeq(s) = c[Len(s)]
  BY Zenon DEF FlattenSeq, IsFlat
<1> QED BY <1>1, <1>2

(* The tokens of the lines from h to k.                                    *)
Raw(t, h, k) == FlattenSeq([i \in 1..(k - h + 1) |-> t[h + i - 1].tokens])

(* They grow by those of the next line.                                    *)
LEMMA RawFacts ==
  ASSUME NEW t, NEW h \in Nat, NEW k \in Nat, h <= k
  PROVE  /\ Raw(t, h, h) = t[h].tokens
         /\ Raw(t, h, k + 1) = Raw(t, h, k) \o t[k + 1].tokens
<1>1. ASSUME NEW j \in Nat, h <= j
      PROVE  \E p : /\ Len(p) = j - h + 1
                    /\ \A i \in 1..(j - h + 1) : p[i] = t[h + i - 1].tokens
                    /\ Raw(t, h, j) = FlattenSeq(p)
  <2> DEFINE p == [i \in 1..(j - h + 1) |-> t[h + i - 1].tokens]
  <2>1. j - h + 1 \in Nat
    BY <1>1
  <2>2. Len(p) = j - h + 1
    BY <2>1
  <2>3. Raw(t, h, j) = FlattenSeq(p)
    BY DEF Raw
  <2>4. \A i \in 1..(j - h + 1) : p[i] = t[h + i - 1].tokens
    OBVIOUS
  <2> HIDE DEF p
  <2> QED BY <2>2, <2>3, <2>4
<1>2. Raw(t, h, h) = t[h].tokens
  <2>1. h - h + 1 = 1 /\ h + 1 - 1 = h /\ h <= h
    OBVIOUS
  <2>2. PICK p : /\ Len(p) = 1 /\ p[1] = t[h].tokens
                 /\ Raw(t, h, h) = FlattenSeq(p)
    <3>1. PICK p : /\ Len(p) = h - h + 1
                   /\ \A i \in 1..(h - h + 1) : p[i] = t[h + i - 1].tokens
                   /\ Raw(t, h, h) = FlattenSeq(p)
      BY <1>1, <2>1, Zenon
    <3>2. 1 \in 1..(h - h + 1)
      BY <2>1
    <3>3. p[1] = t[h].tokens
      BY <2>1, <3>1, <3>2
    <3> QED BY <2>1, <3>1, <3>3
  <2>3. PICK f : IsFlat(f, p, 1) /\ FlattenSeq(p) = f[1]
    <3>1. Len(p) \in Nat /\ Len(p) # 0
      BY <2>2
    <3>2. \E f : IsFlat(f, p, Len(p)) /\ FlattenSeq(p) = f[Len(p)]
      BY <3>1, FlatIs
    <3> QED BY <2>2, <3>2
  <2>4. f[1] = p[1]
    BY <2>3 DEF IsFlat
  <2> QED BY <2>2, <2>3, <2>4
<1>3. Raw(t, h, k + 1) = Raw(t, h, k) \o t[k + 1].tokens
  <2> DEFINE m == k - h + 1
  <2>1. /\ m \in Nat /\ m # 0 /\ (k + 1) - h + 1 = m + 1 /\ h + (m + 1) - 1 = k + 1
        /\ m + 1 \in Nat /\ m + 1 # 0 /\ m <= m + 1 /\ k + 1 \in Nat /\ h <= k + 1
    OBVIOUS
  <2>2. PICK p : /\ Len(p) = m /\ Raw(t, h, k) = FlattenSeq(p)
                 /\ \A i \in 1..m : p[i] = t[h + i - 1].tokens
    BY <1>1
  <2>3. PICK q : /\ Len(q) = (k + 1) - h + 1 /\ Raw(t, h, k + 1) = FlattenSeq(q)
                 /\ \A i \in 1..((k + 1) - h + 1) : q[i] = t[h + i - 1].tokens
    <3> DEFINE j == k + 1
    <3>1. j \in Nat /\ h <= j
      BY <2>1
    <3> HIDE DEF j
    <3>2. \E q : /\ Len(q) = j - h + 1 /\ Raw(t, h, j) = FlattenSeq(q)
                 /\ \A i \in 1..(j - h + 1) : q[i] = t[h + i - 1].tokens
      BY <1>1, <3>1
    <3> QED BY <3>2 DEF j
  <2> HIDE DEF m
  <2>4. PICK f : IsFlat(f, p, m) /\ FlattenSeq(p) = f[m]
    BY <2>1, <2>2, FlatIs
  <2>5. PICK g : IsFlat(g, q, m + 1) /\ FlattenSeq(q) = g[m + 1]
    BY <2>1, <2>3, FlatIs
  <2>6. \A i \in 1..m : g[i] = f[i]
    <3>1. \A i \in 1..m : p[i] = q[i]
      <4>1. \A i \in 1..m : i \in 1..m + 1
        BY <2>1
      <4> QED BY <2>1, <2>2, <2>3, <4>1
    <3> QED BY <2>1, <2>4, <2>5, <3>1, FlatAgrees
  <2>7. g[m + 1] = g[m] \o q[m + 1]
    <3>1. m + 1 \in 1..m + 1 /\ m + 1 # 1 /\ (m + 1) - 1 = m
      BY <2>1
    <3> QED BY <2>5, <3>1 DEF IsFlat
  <2>8. g[m] = f[m] /\ q[m + 1] = t[k + 1].tokens
    <3>1. m \in 1..m /\ m + 1 \in 1..m + 1
      BY <2>1
    <3> QED BY <2>1, <2>3, <2>6, <3>1
  <2> QED BY <2>2, <2>3, <2>4, <2>5, <2>7, <2>8
<1> QED BY <1>2, <1>3

(* A record ends before the next line that is not a continuation.          *)
LEMMA RecordEnds ==
  ASSUME NEW t, Len(t) \in Nat, NEW h \in 1..Len(t), NEW k \in h..Len(t),
         \A i \in h + 1..k : t[i].cont, k = Len(t) \/ ~t[k + 1].cont
  PROVE  Record(t, h) = Raw(t, h, k)
<1> DEFINE lines == {j \in h..Len(t) : \A i \in h + 1..j : t[i].cont}
<1>1. lines = h..k
  <2>1. ASSUME NEW j \in lines PROVE j \in h..k
    <3>1. CASE j > k
      <4>1. k + 1 \in h + 1..j /\ k < Len(t)
        BY <3>1
      <4> QED BY <4>1
    <3> QED BY <3>1
  <2>2. ASSUME NEW j \in h..k PROVE j \in lines
    <3>1. j \in h..Len(t) /\ h + 1..j \subseteq h + 1..k
      OBVIOUS
    <3> QED BY <3>1
  <2> QED BY <2>1, <2>2
<1>2. Cardinality(lines) = k - h + 1
  <2>1. Cardinality(h..k) = k - h + 1
    BY FS_Interval
  <2> QED BY <1>1, <2>1
<1> HIDE DEF lines
<1>3. Record(t, h) = FlattenSeq([i \in 1..Cardinality(lines) |-> t[h + i - 1].tokens])
  BY Zenon DEF Record, lines
<1> QED BY <1>2, <1>3, Zenon DEF Raw

-----------------------------------------------------------------------------
(* The function by which parseKmsgXID is defined.                          *)
IsScan(f, t, n) ==
    f = [i \in 0..n |-> IF i = 0 THEN [rec |-> <<>>, have |-> FALSE, events |-> <<>>]
                        ELSE scanLine(f[i - 1], t[i])]

(* It exists, whatever the text, as the one of FlattenSeq does.            *)
LEMMA ScanExists ==
  ASSUME NEW t, NEW n \in Nat
  PROVE  \E f : IsScan(f, t, n)
<1> DEFINE T == {m \in Nat : ~ \E f : IsScan(f, t, m)}
           start == [rec |-> <<>>, have |-> FALSE, events |-> <<>>]
<1> SUFFICES ASSUME T # {} PROVE FALSE
  OBVIOUS
<1>1. PICK x \in T : \A y \in T : x <= y
  <2>1. T \subseteq Nat
    OBVIOUS
  <2> HIDE DEF T
  <2> QED BY <2>1, Smallest
<1>2. x \in Nat /\ ~ \E f : IsScan(f, t, x)
  OBVIOUS
<1>3. CASE x = 0
  <2> DEFINE g == [i \in 0..0 |-> start]
  <2>1. IsScan(g, t, 0)
    <3>1. \A i \in 0..0 : i = 0
      OBVIOUS
    <3> QED BY <3>1, Zenon DEF IsScan
  <2> QED BY <1>2, <1>3, <2>1
<1>4. CASE x # 0
  <2>1. x - 1 \in Nat /\ x - 1 \notin T
    BY <1>1, <1>2, <1>4
  <2>2. PICK f : IsScan(f, t, x - 1)
    BY <2>1
  <2> DEFINE g == [i \in 0..x |-> IF i = x THEN scanLine(f[i - 1], t[i]) ELSE f[i]]
  <2>3. \A i \in 0..x - 1 : f[i] = IF i = 0 THEN start ELSE scanLine(f[i - 1], t[i])
    BY <2>2, Zenon DEF IsScan
  <2>4. ASSUME NEW i \in 0..x
        PROVE  g[i] = IF i = 0 THEN start ELSE scanLine(g[i - 1], t[i])
    <3>1. g[i] = IF i = 0 THEN start ELSE scanLine(f[i - 1], t[i])
      <4>1. CASE i = x
        BY <1>4, <4>1
      <4>2. CASE i # x
        <5>1. i \in 0..x - 1 /\ g[i] = f[i]
          BY <1>2, <4>2
        <5> HIDE DEF g, start
        <5> QED BY <2>3, <5>1
      <4> QED BY <4>1, <4>2
    <3>2. i # 0 => i - 1 \in 0..x /\ i - 1 # x
      BY <1>2
    <3>3. i # 0 => g[i - 1] = f[i - 1]
      BY <3>2
    <3> HIDE DEF g, start
    <3> QED BY <3>1, <3>3
  <2>5. IsScan(g, t, x)
    <3>1. g = [i \in 0..x |-> g[i]]
      OBVIOUS
    <3> HIDE DEF g
    <3> QED BY <2>4, <3>1, Zenon DEF IsScan
  <2> QED BY <1>2, <2>5
<1> QED BY <1>3, <1>4

(* parseKmsgXID ends the record the scan of all lines leaves open.         *)
LEMMA ScanIs ==
  ASSUME NEW t, Len(t) \in Nat
  PROVE  \E f : /\ IsScan(f, t, Len(t))
                /\ parseKmsgXID(t) = IF f[Len(t)].have
                                     THEN f[Len(t)].events \o emit(f[Len(t)].rec)
                                     ELSE f[Len(t)].events
<1> DEFINE c == CHOOSE f : IsScan(f, t, Len(t))
<1>1. IsScan(c, t, Len(t))
  BY ScanExists, Zenon
<1>2. parseKmsgXID(t) = IF c[Len(t)].have
                        THEN c[Len(t)].events \o emit(c[Len(t)].rec)
                        ELSE c[Len(t)].events
  BY Zenon DEF parseKmsgXID, IsScan
<1> QED BY <1>1, <1>2

-----------------------------------------------------------------------------
HoldsXid(raw) == \E i \in 1..Len(raw) : XidAt(raw, i)
Events == [xid : STRING, dev : STRING \cup {None}]

(* What emit makes of a record: nothing when it holds no Xid, else one     *)
(* event, which describes it.                                              *)
LEMMA EmitFacts ==
  ASSUME NEW raw \in Seq(STRING)
  PROVE  /\ ~HoldsXid(raw) => emit(raw) = <<>>
         /\ HoldsXid(raw) => \E e \in Events : emit(raw) = <<e>> /\ Describes(e, raw)
<1> DEFINE hits == {i \in 1..Len(raw) : XidAt(raw, i)}
           gpus == {i \in 1..Len(raw) : raw[i] \in Gpus}
           e == [xid |-> raw[Min(hits) + 1],
                 dev |-> IF gpus = {} THEN None ELSE raw[Min(gpus)]]
<1>1. emit(raw) = IF hits = {} THEN <<>> ELSE <<e>>
  BY DEF emit
<1>2. HoldsXid(raw) <=> hits # {}
  BY DEF HoldsXid
<1>3. Len(raw) \in Nat /\ \A i \in 1..Len(raw) : raw[i] \in STRING
  OBVIOUS
<1>4. ASSUME HoldsXid(raw) PROVE e \in Events /\ Describes(e, raw)
  <2>1. Min(hits) \in hits /\ \A j \in hits : Min(hits) <= j
    <3>1. hits \subseteq Nat /\ hits # {}
      BY <1>2, <1>4
    <3> HIDE DEF hits
    <3> QED BY <3>1, MinFacts
  <2>2. /\ Min(hits) \in 1..Len(raw) /\ XidAt(raw, Min(hits))
        /\ Min(hits) + 1 \in 1..Len(raw)
    <3>1. Min(hits) \in 1..Len(raw) /\ XidAt(raw, Min(hits))
      BY <2>1
    <3>2. Min(hits) < Len(raw)
      BY <3>1 DEF XidAt
    <3> QED BY <3>1, <3>2
  <2>3. \A j \in 1..Min(hits) - 1 : ~XidAt(raw, j)
    <3>1. ASSUME NEW j \in 1..Min(hits) - 1, XidAt(raw, j) PROVE FALSE
      <4>1. j \in hits /\ ~(Min(hits) <= j)
        BY <2>2, <3>1
      <4> QED BY <2>1, <4>1
    <3> QED BY <3>1
  <2>4. e.xid = raw[Min(hits) + 1] /\ e.xid \in STRING
    BY <1>3, <2>2
  <2>5. CASE gpus = {}
    <3>1. e.dev = None /\ e.dev \in STRING \cup {None}
      BY <2>5
    <3>2. \A i \in 1..Len(raw) : raw[i] \notin Gpus
      BY <2>5
    <3>3. e = [xid |-> e.xid, dev |-> e.dev]
      OBVIOUS
    <3> HIDE DEF e, hits, gpus
    <3> QED BY <2>2, <2>3, <2>4, <3>1, <3>2, <3>3 DEF Describes, Events
  <2>6. CASE gpus # {}
    <3>1. Min(gpus) \in gpus /\ \A j \in gpus : Min(gpus) <= j
      <4>1. gpus \subseteq Nat /\ gpus # {}
        BY <2>6
      <4> HIDE DEF gpus
      <4> QED BY <4>1, MinFacts
    <3>2. Min(gpus) \in 1..Len(raw) /\ raw[Min(gpus)] \in Gpus
      BY <3>1
    <3>3. \A j \in 1..Min(gpus) - 1 : raw[j] \notin Gpus
      <4>1. ASSUME NEW j \in 1..Min(gpus) - 1, raw[j] \in Gpus PROVE FALSE
        <5>1. j \in gpus /\ ~(Min(gpus) <= j)
          BY <3>2, <4>1
        <5> QED BY <3>1, <5>1
      <4> QED BY <4>1
    <3>4. e.dev = raw[Min(gpus)] /\ e.dev \in STRING \cup {None}
      BY <1>3, <2>6, <3>2
    <3>5. e = [xid |-> e.xid, dev |-> e.dev]
      OBVIOUS
    <3> HIDE DEF e, hits, gpus
    <3> QED BY <2>2, <2>3, <2>4, <3>2, <3>3, <3>4, <3>5 DEF Describes, Events
  <2> QED BY <2>5, <2>6
<1> HIDE DEF hits, e
<1> QED BY <1>1, <1>2, <1>4

-----------------------------------------------------------------------------
(* The records that hold an Xid, among the first b lines.                  *)
Before(t, b) == {h \in Records(t) : h <= b}

(* The events describe those records, each the one of its position.        *)
Told(t, events, b) ==
    /\ events \in Seq(Events) /\ Len(events) = Cardinality(Before(t, b))
    /\ \A r \in Before(t, b) :
         Describes(events[Cardinality(Before(t, r))], Record(t, r))

(* There are finitely many, and a record is counted from its line on.      *)
LEMMA BeforeFacts ==
  ASSUME NEW t, Len(t) \in Nat, NEW b \in Nat
  PROVE  /\ IsFiniteSet(Before(t, b)) /\ Cardinality(Before(t, b)) \in Nat
         /\ \A r \in Before(t, b) :
              /\ r \in 1..Len(t) /\ r <= b
              /\ Cardinality(Before(t, r)) \in 1..Cardinality(Before(t, b))
<1>1. ASSUME NEW c \in Nat
      PROVE  IsFiniteSet(Before(t, c)) /\ Cardinality(Before(t, c)) \in Nat
  <2>1. Before(t, c) \subseteq 1..Len(t)
    BY DEF Before, Records
  <2>2. IsFiniteSet(1..Len(t))
    BY FS_Interval
  <2> QED BY <2>1, <2>2, FS_Subset, FS_CardinalityType
<1>2. ASSUME NEW r \in Before(t, b)
      PROVE  /\ r \in 1..Len(t) /\ r <= b
             /\ Cardinality(Before(t, r)) \in 1..Cardinality(Before(t, b))
  <2>1. r \in 1..Len(t) /\ r <= b /\ r \in Before(t, r)
    BY DEF Before, Records
  <2>2. Before(t, r) \subseteq Before(t, b)
    <3>1. ASSUME NEW h \in Before(t, r) PROVE h \in Before(t, b)
      <4>1. h \in Records(t) /\ h <= r /\ h \in 1..Len(t)
        BY DEF Before, Records
      <4> QED BY <2>1, <4>1 DEF Before
    <3> QED BY <3>1
  <2>3. Cardinality(Before(t, r)) <= Cardinality(Before(t, b))
    BY <1>1, <2>2, FS_Subset
  <2>4. Cardinality(Before(t, r)) # 0
    BY <1>1, <2>1, FS_EmptySet
  <2> QED BY <1>1, <2>1, <2>3, <2>4
<1> QED BY <1>1, <1>2

(* A record that is closed adds its event to those told.                   *)
LEMMA Closing ==
  ASSUME NEW t, Len(t) \in Nat, NEW h \in 1..Len(t), NEW k \in h..Len(t),
         ~t[h].cont, \A i \in h + 1..k : t[i].cont,
         Record(t, h) \in Seq(STRING), NEW events, Told(t, events, h - 1)
  PROVE  Told(t, events \o emit(Record(t, h)), k)
<1> DEFINE raw == Record(t, h)
           n == Cardinality(Before(t, h - 1))
<1>1. /\ h - 1 \in Nat /\ k \in Nat /\ h \in Nat
      /\ events \in Seq(Events) /\ Len(events) = n
      /\ \A r \in Before(t, h - 1) :
           Describes(events[Cardinality(Before(t, r))], Record(t, r))
  BY DEF Told
<1>2. h \in Records(t) <=> HoldsXid(raw)
  BY DEF Records, HoldsXid
<1>3. ASSUME NEW c \in h..k, NEW r
      PROVE  r \in Before(t, c) <=> r \in Before(t, h - 1) \/ (r = h /\ HoldsXid(raw))
  <2>1. ASSUME r \in Records(t) PROVE r \in 1..Len(t) /\ ~t[r].cont
    BY <2>1 DEF Records
  <2>2. ASSUME r \in Records(t), r <= c PROVE r <= h - 1 \/ r = h
    <3>1. r \in 1..Len(t) /\ ~(r \in h + 1..k)
      BY <2>1, <2>2
    <3> QED BY <2>2, <3>1
  <2>3. ASSUME r \in Records(t), r <= h - 1 PROVE r <= c
    BY <2>1, <2>3
  <2>4. h <= c
    OBVIOUS
  <2>5. ASSUME r \in Before(t, c)
        PROVE  r \in Before(t, h - 1) \/ (r = h /\ HoldsXid(raw))
    <3>1. r \in Records(t) /\ r <= c
      BY <2>5 DEF Before
    <3>2. r <= h - 1 \/ r = h
      BY <2>2, <3>1
    <3>3. r = h => HoldsXid(raw)
      BY <1>2, <3>1
    <3>4. r <= h - 1 => r \in Before(t, h - 1)
      BY <3>1 DEF Before
    <3> QED BY <3>2, <3>3, <3>4
  <2>6. ASSUME r \in Before(t, h - 1) \/ (r = h /\ HoldsXid(raw))
        PROVE  r \in Before(t, c)
    <3>1. CASE r \in Before(t, h - 1)
      <4>1. r \in Records(t) /\ r <= h - 1
        BY <3>1 DEF Before
      <4> QED BY <2>3, <4>1 DEF Before
    <3>2. CASE r = h /\ HoldsXid(raw)
      BY <1>2, <2>4, <3>2 DEF Before
    <3> QED BY <2>6, <3>1, <3>2
  <2> QED BY <2>5, <2>6
<1>4. IsFiniteSet(Before(t, h - 1)) /\ n \in Nat /\ h \notin Before(t, h - 1)
  BY <1>1, BeforeFacts DEF Before
<1>5. CASE ~HoldsXid(raw)
  <2>1. events \o emit(raw) = events
    BY <1>1, <1>5, EmitFacts
  <2>2. Before(t, k) = Before(t, h - 1)
    <3>1. k \in h..k
      BY <1>1
    <3> QED BY <1>3, <1>5, <3>1
  <2> QED BY <1>1, <2>1, <2>2 DEF Told
<1>6. CASE HoldsXid(raw)
  <2>1. PICK e \in Events : emit(raw) = <<e>> /\ Describes(e, raw)
    BY <1>6, EmitFacts
  <2> DEFINE told == events \o emit(raw)
  <2>2. /\ told \in Seq(Events) /\ Len(told) = n + 1 /\ told[n + 1] = e
        /\ \A i \in 1..n : told[i] = events[i]
    BY <1>1, <1>4, <2>1
  <2>3. \A c \in h..k : Before(t, c) = Before(t, h - 1) \cup {h}
    BY <1>3, <1>6
  <2>4. h \in h..k /\ k \in h..k
    BY <1>1
  <2>5. Cardinality(Before(t, h - 1) \cup {h}) = n + 1
    BY <1>4, FS_AddElement
  <2>6. Cardinality(Before(t, h)) = n + 1 /\ Cardinality(Before(t, k)) = n + 1
    BY <2>3, <2>4, <2>5
  <2> HIDE DEF told
  <2>7. ASSUME NEW r \in Before(t, k)
        PROVE  Describes(told[Cardinality(Before(t, r))], Record(t, r))
    <3>1. CASE r = h
      BY <2>1, <2>2, <2>6, <3>1
    <3>2. CASE r \in Before(t, h - 1)
      <4>1. Cardinality(Before(t, r)) \in 1..n
        BY <1>1, <3>2, BeforeFacts
      <4>2. told[Cardinality(Before(t, r))] = events[Cardinality(Before(t, r))]
        BY <2>2, <4>1
      <4> QED BY <1>1, <3>2, <4>2
    <3> QED BY <2>3, <2>4, <3>1, <3>2
  <2>8. Told(t, told, k)
    BY <2>2, <2>6, <2>7 DEF Told
  <2> QED BY <2>8 DEF told
<1> QED BY <1>5, <1>6

(* As long as no record has started there is nothing to tell.              *)
LEMMA NothingYet ==
  ASSUME NEW t, Len(t) \in Nat, NEW b \in 0..Len(t), \A i \in 1..b : t[i].cont
  PROVE  Told(t, <<>>, b)
<1>1. Before(t, b) = {}
  <2>1. ASSUME NEW h \in Before(t, b) PROVE FALSE
    <3>1. h \in 1..b /\ ~t[h].cont
      BY DEF Before, Records
    <3> QED BY <3>1
  <2> QED BY <2>1
<1>2. Cardinality(Before(t, b)) = 0
  BY <1>1, FS_EmptySet
<1>3. <<>> \in Seq(Events) /\ Len(<<>>) = 0
  OBVIOUS
<1> QED BY <1>1, <1>2, <1>3 DEF Told

(* What the scan has made of the first k lines: the record that is open,   *)
(* and the events of the records before it.                                *)
Open(t, s, h, k) ==
    /\ ~t[h].cont /\ \A i \in h + 1..k : t[i].cont
    /\ s.rec = Raw(t, h, k) /\ s.rec \in Seq(STRING)
    /\ Told(t, s.events, h - 1)

Scanning(t, s, k) ==
    /\ s = [rec |-> s.rec, have |-> s.have, events |-> s.events]
    /\ IF s.have THEN \E h \in 1..k : Open(t, s, h, k)
       ELSE s.events = <<>> /\ \A i \in 1..k : t[i].cont

(* The next line goes to the record it belongs to.                         *)
LEMMA LineKeeps ==
  ASSUME NEW t \in KmsgTexts, NEW k \in 0..Len(t) - 1, NEW s, Scanning(t, s, k)
  PROVE  Scanning(t, scanLine(s, t[k + 1]), k + 1)
<1> DEFINE line == t[k + 1]
           next == scanLine(s, line)
<1>1. /\ Len(t) \in Nat /\ k \in Nat /\ k + 1 \in 1..Len(t) /\ (k + 1) - 1 = k
      /\ line.tokens \in Seq(STRING)
  <2>1. Len(t) \in Nat /\ k \in Nat /\ k + 1 \in 1..Len(t) /\ (k + 1) - 1 = k
    BY TextAssumption
  <2> QED BY <2>1, TextAssumption
<1>2. s = [rec |-> s.rec, have |-> s.have, events |-> s.events]
  BY Zenon DEF Scanning
<1>3. ASSUME s.have
      PROVE  \E h \in 1..k : Open(t, s, h, k)
  BY <1>3, Zenon DEF Scanning
<1>4. ASSUME ~s.have
      PROVE  s.events = <<>> /\ \A i \in 1..k : t[i].cont
  BY <1>4, Zenon DEF Scanning
<1>5. CASE line.cont /\ s.have
  <2>1. PICK h \in 1..k : Open(t, s, h, k)
    BY <1>3, <1>5
  <2>2. next = [rec |-> s.rec \o line.tokens, have |-> s.have, events |-> s.events]
    BY <1>2, <1>5 DEF scanLine
  <2>3. next.rec = s.rec \o line.tokens /\ next.have /\ next.events = s.events
    <3> HIDE DEF next, line
    <3>1. next.rec = s.rec \o line.tokens /\ next.events = s.events
      BY <2>2, Zenon
    <3>2. next.have
      BY <1>5, <2>2, Zenon
    <3> QED BY <3>1, <3>2
  <2>4. Raw(t, h, k + 1) = Raw(t, h, k) \o line.tokens
    <3>1. h \in Nat /\ h <= k
      BY <1>1
    <3> HIDE DEF line, next
    <3>2. Raw(t, h, k + 1) = Raw(t, h, k) \o t[k + 1].tokens
      BY <1>1, <3>1, RawFacts
    <3> QED BY <3>2 DEF line
  <2>5. next.rec = Raw(t, h, k + 1) /\ next.rec \in Seq(STRING)
    BY <1>1, <2>1, <2>3, <2>4 DEF Open
  <2>6. \A i \in h + 1..k + 1 : t[i].cont
    <3>1. \A i \in h + 1..k + 1 : i \in h + 1..k \/ i = k + 1
      BY <1>1
    <3> QED BY <1>5, <2>1, <3>1 DEF Open
  <2> HIDE DEF next
  <2>7. Open(t, next, h, k + 1) /\ h \in 1..k + 1
    BY <1>1, <2>1, <2>3, <2>5, <2>6 DEF Open
  <2>8. next = [rec |-> next.rec, have |-> next.have, events |-> next.events]
    BY <2>2
  <2>9. Scanning(t, next, k + 1)
    BY <1>5, <2>3, <2>7, <2>8, Zenon DEF Scanning
  <2> QED BY <2>9 DEF next
<1>6. CASE line.cont /\ ~s.have
  <2>1. next = s
    BY <1>6 DEF scanLine
  <2>2. \A i \in 1..k + 1 : t[i].cont
    <3>1. \A i \in 1..k + 1 : i \in 1..k \/ i = k + 1
      BY <1>1
    <3> QED BY <1>4, <1>6, <3>1
  <2> QED BY <1>2, <1>4, <1>6, <2>1, <2>2 DEF Scanning
<1>7. CASE ~line.cont
  <2> DEFINE events == IF s.have THEN s.events \o emit(s.rec) ELSE s.events
  <2>1. next = [rec |-> line.tokens, have |-> TRUE, events |-> events]
    BY <1>7 DEF scanLine
  <2>2. next.rec = line.tokens /\ next.have = TRUE /\ next.events = events
    BY <2>1
  <2>3. Told(t, events, k)
    <3>1. CASE s.have
      <4>1. PICK h \in 1..k : Open(t, s, h, k)
        BY <1>3, <3>1
      <4>2. h \in 1..Len(t) /\ k \in h..Len(t)
        BY <1>1
      <4>3. Record(t, h) = s.rec
        BY <1>1, <1>7, <4>1, <4>2, RecordEnds DEF Open
      <4>4. Told(t, s.events \o emit(s.rec), k)
        BY <1>1, <4>1, <4>2, <4>3, Closing DEF Open
      <4> QED BY <3>1, <4>4
    <3>2. CASE ~s.have
      <4>1. events = <<>> /\ \A i \in 1..k : t[i].cont
        BY <1>4, <3>2
      <4>2. k \in 0..Len(t)
        BY <1>1
      <4> HIDE DEF events
      <4> QED BY <1>1, <4>1, <4>2, NothingYet
    <3> QED BY <3>1, <3>2
  <2>4. next = [rec |-> next.rec, have |-> next.have, events |-> next.events]
    BY <2>1
  <2> HIDE DEF next, events
  <2>5. Open(t, next, k + 1, k + 1)
    <3>1. Raw(t, k + 1, k + 1) = line.tokens
      BY <1>1, RawFacts
    <3>2. \A i \in (k + 1) + 1..k + 1 : FALSE
      BY <1>1
    <3> QED BY <1>1, <1>7, <2>2, <2>3, <3>1, <3>2 DEF Open
  <2>6. k + 1 \in 1..k + 1
    BY <1>1
  <2>7. Scanning(t, next, k + 1)
    BY <2>2, <2>4, <2>5, <2>6 DEF Scanning
  <2> QED BY <2>7 DEF next
<1> QED BY <1>5, <1>6, <1>7

(* The events of a text are those of all its records.                      *)
LEMMA ParsedTold ==
  ASSUME NEW t \in KmsgTexts
  PROVE  Told(t, parseKmsgXID(t), Len(t))
<1> DEFINE n == Len(t)
<1>1. n \in Nat
  BY TextAssumption
<1>2. PICK f : /\ IsScan(f, t, n)
               /\ parseKmsgXID(t) = IF f[n].have THEN f[n].events \o emit(f[n].rec)
                                    ELSE f[n].events
  BY <1>1, ScanIs
<1>3. /\ f[0] = [rec |-> <<>>, have |-> FALSE, events |-> <<>>]
      /\ \A i \in 1..n : f[i] = scanLine(f[i - 1], t[i])
  <2>1. \A i \in 0..n :
          f[i] = IF i = 0 THEN [rec |-> <<>>, have |-> FALSE, events |-> <<>>]
                 ELSE scanLine(f[i - 1], t[i])
    BY <1>2, Zenon DEF IsScan
  <2>2. 0 \in 0..n /\ \A i \in 1..n : i \in 0..n /\ i # 0
    BY <1>1
  <2> QED BY <2>1, <2>2
<1>4. \A k \in 0..n : Scanning(t, f[k], k)
  <2> DEFINE T == {k \in 0..n : ~Scanning(t, f[k], k)}
  <2> SUFFICES ASSUME T # {} PROVE FALSE
    OBVIOUS
  <2>1. PICK x \in T : \A y \in T : x <= y
    <3>1. T \subseteq Nat
      OBVIOUS
    <3> HIDE DEF T
    <3> QED BY <3>1, Smallest
  <2>2. x \in 0..n /\ ~Scanning(t, f[x], x)
    OBVIOUS
  <2>3. CASE x = 0
    <3>1. Scanning(t, f[0], 0)
      BY <1>3 DEF Scanning
    <3> QED BY <2>2, <2>3, <3>1
  <2>4. CASE x # 0
    <3>1. x \in 1..n /\ x - 1 \in 0..n - 1 /\ x - 1 \in 0..n /\ (x - 1) + 1 = x
      BY <1>1, <2>2, <2>4
    <3>2. Scanning(t, f[x - 1], x - 1)
      BY <2>1, <3>1
    <3>3. Scanning(t, scanLine(f[x - 1], t[(x - 1) + 1]), (x - 1) + 1)
      BY <3>1, <3>2, LineKeeps
    <3>4. f[x] = scanLine(f[x - 1], t[x])
      BY <1>3, <3>1
    <3> QED BY <2>2, <3>1, <3>3, <3>4
  <2> QED BY <2>3, <2>4
<1>5. Scanning(t, f[n], n)
  BY <1>1, <1>4
<1>6. CASE f[n].have
  <2>1. PICK h \in 1..n : Open(t, f[n], h, n)
    BY <1>5, <1>6, Zenon DEF Scanning
  <2>2. n \in h..n
    BY <1>1
  <2>3. Record(t, h) = f[n].rec
    BY <1>1, <2>1, <2>2, RecordEnds DEF Open
  <2>4. Told(t, f[n].events \o emit(f[n].rec), n)
    BY <1>1, <2>1, <2>2, <2>3, Closing DEF Open
  <2> QED BY <1>2, <1>6, <2>4
<1>7. CASE ~f[n].have
  <2>1. f[n].events = <<>> /\ \A i \in 1..n : t[i].cont
    BY <1>5, <1>7, Zenon DEF Scanning
  <2>2. n \in 0..n
    BY <1>1
  <2>3. Told(t, <<>>, n)
    BY <1>1, <2>1, <2>2, NothingYet
  <2> QED BY <1>2, <1>7, <2>1, <2>3
<1> QED BY <1>6, <1>7

(* One event per kernel record that holds an Xid, in order, with the first *)
(* number and the first GPU of that record, wherever the kernel split it.  *)
THEOREM EventsAreTheRecords == Spec => []XidsAreTheRecords
<1> DEFINE Inv == Len(text) \in Nat /\ Told(text, xidEvents, Len(text))
<1>1. Init => Inv
  <2> SUFFICES ASSUME Init PROVE Inv
    OBVIOUS
  <2>1. text = <<>> /\ xidEvents = <<>> /\ Len(<<>>) = 0 /\ 0 \in 0..0 /\ 0 \in Nat
    BY DEF Init
  <2>2. \A i \in 1..0 : FALSE
    OBVIOUS
  <2> QED BY <2>1, <2>2, NothingYet
<1>2. Inv /\ [Next]_vars => Inv'
  <2> SUFFICES ASSUME Inv, [Next]_vars PROVE Inv'
    OBVIOUS
  <2>1. ASSUME UNCHANGED logs PROVE Inv'
    BY <2>1 DEF logs
  <2>2. ASSUME NEW lines \in KmsgTexts, Collect_Logs(lines) PROVE Inv'
    <3>1. text' = lines /\ xidEvents' = parseKmsgXID(lines)
      BY <2>2 DEF Collect_Logs
    <3>2. Len(lines) \in Nat /\ Told(lines, parseKmsgXID(lines), Len(lines))
      BY ParsedTold, TextAssumption
    <3> QED BY <3>1, <3>2
  <2>3. CASE Check_Lost \/ Check_Width \/ Check_Speed
    BY <2>1, <2>3 DEF Check_Lost, Check_Width, Check_Speed, Scan
  <2>4. CASE Stat_NCCL \/ Collect_NCCL
    BY <2>1, <2>4 DEF Stat_NCCL, Collect_NCCL
  <2>5. ASSUME NEW a, NEW l, LinkChanges(a, l) PROVE Inv'
    BY <2>1, <2>5 DEF LinkChanges
  <2>6. ASSUME NEW l, JobLogs(l) PROVE Inv'
    BY <2>1, <2>6 DEF JobLogs
  <2>7. CASE UNCHANGED vars
    BY <2>1, <2>7 DEF vars
  <2> HIDE DEF Inv
  <2> QED
    BY <2>2, <2>3, <2>4, <2>5, <2>6, <2>7 DEF Next
<1>3. Inv => XidsAreTheRecords
  <2> SUFFICES ASSUME Inv PROVE XidsAreTheRecords
    OBVIOUS
  <2>1. Before(text, Len(text)) = Records(text)
    <3>1. \A h \in Records(text) : h \in 1..Len(text) /\ h <= Len(text)
      BY DEF Records
    <3> QED BY <3>1 DEF Before
  <2>2. \A h : {r \in Records(text) : r <= h} = Before(text, h)
    BY DEF Before
  <2> QED BY <2>1, <2>2 DEF Told, XidsAreTheRecords
<1> HIDE DEF Inv
<1> QED
  BY <1>1, <1>2, <1>3, PTL DEF Spec
=============================================================================
