--------------------------- MODULE NormalizeProofs --------------------------
(***************************************************************************)
(* The provenance of the gate's legs and the additive merge, for arbitrary *)
(* observations of any number of collectors; of the observations only      *)
(* JobAssumption is used, and that for the jobs alone.                     *)
(***************************************************************************)
EXTENDS Normalize, SequenceTheorems, WellFoundedInduction, TLAPS

(* Some admitted observation of this source has this.                      *)
From(source, Has(_)) == \E k \in DOMAIN obs : obs[k].source = source /\ Has(obs[k])

(* Every fact the fold keeps was carried by a collector that speaks for    *)
(* the source the fact is kept for.                                        *)
Provenance ==
    /\ obs \in Seq(Observations)
    /\ \A x \in xidDmesg : From("DMESG_XID", LAMBDA o : x \in o.xids)
    /\ \A n \in ncclReal : From("NCCL", LAMBDA o : n \in o.nccl)
    /\ \A u \in eccDCGMSeen : From("DCGM", LAMBDA o : u \in Saw(o, "ecc"))
    /\ \A u \in eccPromSeen : From("PROMETHEUS", LAMBDA o : u \in Saw(o, "ecc"))
    /\ \A u \in linkErrDCGMSeen : From("DCGM", LAMBDA o : u \in Saw(o, "link"))
    /\ \A l \in injectedTimeline :
          From(l.source, LAMBDA o : \E te \in o.timeline : te.id = l.id)

(* Before the first observation nothing is kept.                           *)
LEMMA InitProvenance == Init => Provenance
BY DEF Init, Provenance

(* Admit appends the observation.                                          *)
LEMMA AdmitAppends ==
    ASSUME obs \in Seq(Observations), NEW o \in Observations, Admit(o)
    PROVE  /\ obs' \in Seq(Observations) /\ Len(obs) \in Nat
           /\ DOMAIN obs' = 1..(Len(obs) + 1) /\ DOMAIN obs = 1..Len(obs)
           /\ DOMAIN obs' = DOMAIN obs \cup {Len(obs) + 1}
           /\ \A k \in DOMAIN obs : obs'[k] = obs[k]
           /\ obs'[Len(obs) + 1] = o
<1>1. obs' = Append(obs, o)
  BY DEF Admit
<1> QED
  BY <1>1

(* Admit keeps only facts of the observation whose source they are kept    *)
(* for.                                                                    *)
LEMMA AdmitProvenance ==
    ASSUME Provenance, NEW o \in Observations, Admit(o)
    PROVE  Provenance'
<1>2. obs' \in Seq(Observations)
  BY AdmitAppends DEF Provenance
<1>3. /\ DOMAIN obs \subseteq DOMAIN obs' /\ \A k \in DOMAIN obs : obs'[k] = obs[k]
      /\ \E k \in DOMAIN obs' : obs'[k] = o
  BY AdmitAppends DEF Provenance
<1> USE DEF Provenance, From, Admit, Attributed
<1>4. \A x \in xidDmesg' : \E k \in DOMAIN obs' :
         obs'[k].source = "DMESG_XID" /\ x \in obs'[k].xids
  BY <1>3
<1>5. \A n \in ncclReal' : \E k \in DOMAIN obs' :
         obs'[k].source = "NCCL" /\ n \in obs'[k].nccl
  BY <1>3
<1>6. \A u \in eccDCGMSeen' : \E k \in DOMAIN obs' :
         obs'[k].source = "DCGM" /\ u \in Saw(obs'[k], "ecc")
  BY <1>3
<1>7. \A u \in eccPromSeen' : \E k \in DOMAIN obs' :
         obs'[k].source = "PROMETHEUS" /\ u \in Saw(obs'[k], "ecc")
  BY <1>3
<1>8. \A u \in linkErrDCGMSeen' : \E k \in DOMAIN obs' :
         obs'[k].source = "DCGM" /\ u \in Saw(obs'[k], "link")
  BY <1>3
<1>9. \A l \in injectedTimeline' : \E k \in DOMAIN obs' :
         obs'[k].source = l.source /\ \E te \in obs'[k].timeline : te.id = l.id
  <2>1. \A l \in OwnEntries(o) :
           o.source = l.source /\ \E te \in o.timeline : te.id = l.id
    BY DEF OwnEntries
  <2> QED
    BY <1>3, <2>1
<1> QED
  BY <1>2, <1>4, <1>5, <1>6, <1>7, <1>8, <1>9

(* A leg of the timeline is one of the kept facts under its source.        *)
LEMMA ProvenanceOfLegs == Provenance => LegsFromTheirSource
<1> SUFFICES ASSUME Provenance, NEW l \in Timeline
             PROVE  \E k \in DOMAIN obs :
                       obs[k].source = l.source /\ Carries(obs[k], l.id)
  BY DEF LegsFromTheirSource
<1> USE DEF Provenance, From, Carries, Leg
<1>1. CASE l \in injectedTimeline
  BY <1>1
<1>2. ASSUME NEW x \in xidDmesg, x.xid = 79, l = Leg("DMESG_XID", <<"dmesg.xid79", x.dev>>)
      PROVE  \E k \in DOMAIN obs : obs[k].source = l.source /\ Carries(obs[k], l.id)
  BY <1>2
<1>3. ASSUME NEW x \in xidDmesg, x.xid \in eccXids,
             l = Leg("DMESG_XID", <<"dmesg.xid.ecc", x.xid, x.dev>>)
      PROVE  \E k \in DOMAIN obs : obs[k].source = l.source /\ Carries(obs[k], l.id)
  BY <1>3
<1>4. ASSUME NEW n \in ncclReal, n.kind = "OP_TIMEOUT",
             l = Leg("NCCL", <<"nccl.timeout", n.scope>>)
      PROVE  \E k \in DOMAIN obs : obs[k].source = l.source /\ Carries(obs[k], l.id)
  BY <1>4
<1>5. CASE l \in eccDBEDevices
  <2>1. PICK u \in eccDCGMSeen \cup eccPromSeen :
           l = Leg(IF u \in eccDCGMSeen THEN "DCGM" ELSE "PROMETHEUS", <<"ecc.dbe", u>>)
    BY <1>5 DEF eccDBEDevices
  <2>2. CASE u \in eccDCGMSeen
    BY <2>1, <2>2
  <2>3. CASE u \notin eccDCGMSeen
    BY <2>1, <2>3
  <2> QED
    BY <2>2, <2>3
<1>6. ASSUME NEW u \in linkErrDCGMSeen, l = Leg("DCGM", <<"link.error", u>>)
      PROVE  \E k \in DOMAIN obs : obs[k].source = l.source /\ Carries(obs[k], l.id)
  BY <1>6
<1> QED
  BY <1>1, <1>2, <1>3, <1>4, <1>5, <1>6 DEF Timeline, faultTimeline, linkErrDevices

(* G1: whatever the collectors return, a leg the gate may match was        *)
(* observed by a collector of the source it is stamped with; no collector  *)
(* can supply both legs of a two-source verdict.                           *)
THEOREM LegProvenance == Spec => []LegsFromTheirSource
<1>1. Provenance /\ [Next]_vars => Provenance'
  <2>1. CASE UNCHANGED vars
    BY <2>1 DEF vars, Provenance, From
  <2> QED
    BY <2>1, AdmitProvenance DEF Next
<1> QED
  BY <1>1, InitProvenance, ProvenanceOfLegs, PTL DEF Spec

-----------------------------------------------------------------------------
(* The accumulators keep their shape.                                      *)
THEOREM TypeCorrect == Spec => []TypeOK
<1>1. Init => TypeOK
  BY DEF Init, TypeOK
<1>2. ASSUME TypeOK, NEW o \in Observations, Admit(o)
      PROVE  TypeOK'
  <2>1. DOMAIN merged' = DOMAIN merged \cup DOMAIN o.windows
    BY <1>2 DEF Admit
  <2>2. ASSUME NEW u \in DOMAIN merged'
        PROVE  DOMAIN merged'[u] = Fields
    BY <1>2, <2>1, <2>2 DEF Admit, TypeOK, mergeDeviceWindow
  <2>3. DOMAIN mappingByDevice' = Uuids
    BY <1>2 DEF Admit, JobsWith
  <2>4. DOMAIN merged' = UNION {DOMAIN obs'[k].windows : k \in DOMAIN obs'}
    BY <1>2, <2>1, AdmitAppends DEF TypeOK
  <2> QED
    BY <1>2, <2>2, <2>3, <2>4, AdmitAppends DEF TypeOK
<1>3. TypeOK /\ UNCHANGED vars => TypeOK'
  BY DEF TypeOK, vars
<1>4. TypeOK /\ [Next]_vars => TypeOK'
  BY <1>2, <1>3 DEF Next
<1> QED
  BY <1>1, <1>4, PTL DEF Spec

-----------------------------------------------------------------------------
(* A field is known exactly if some observation knows it, and a device has *)
(* a window exactly if some observation measured one.                      *)
Completed ==
    /\ \A u \in DOMAIN merged, f \in Fields :
          merged[u][f] # Unknown <=> \E k \in DOMAIN obs : Describes(obs[k], u, f)
    /\ windowSeconds = UNION {obs[k].measured : k \in DOMAIN obs}

(* What Admit makes of a field: a known value stays, a gap is filled.      *)
LEMMA AdmitField ==
    ASSUME TypeOK, NEW o \in Observations, Admit(o),
           NEW u \in DOMAIN merged', NEW f \in Fields
    PROVE  /\ u \in DOMAIN merged /\ merged[u][f] # Unknown =>
                merged'[u][f] = merged[u][f]
           /\ u \notin DOMAIN merged \/ merged[u][f] = Unknown =>
                merged'[u][f] = IF u \in DOMAIN o.windows THEN o.windows[u][f] ELSE Unknown
<1>1. merged'[u] = IF u \in DOMAIN o.windows
                   THEN mergeDeviceWindow(Base(u), o.windows[u]) ELSE merged[u]
  BY DEF Admit
<1>2. u \in DOMAIN merged \/ u \in DOMAIN o.windows
  BY DEF Admit
<1> QED
  BY <1>1, <1>2 DEF mergeDeviceWindow, Base, NoWindow

(* Admit completes exactly what the observation knows.                     *)
LEMMA AdmitCompletes ==
    ASSUME TypeOK, Completed, NEW o \in Observations, Admit(o)
    PROVE  Completed'
<1>2. /\ \A k \in DOMAIN obs : k \in DOMAIN obs' /\ obs'[k] = obs[k]
      /\ Len(obs) + 1 \in DOMAIN obs' /\ obs'[Len(obs) + 1] = o
      /\ \A k \in DOMAIN obs' : obs'[k] = o \/ (k \in DOMAIN obs /\ obs'[k] = obs[k])
  BY AdmitAppends DEF TypeOK
<1>3. ASSUME NEW u \in DOMAIN merged', NEW f \in Fields
      PROVE  merged'[u][f] # Unknown <=> \E k \in DOMAIN obs' : Describes(obs'[k], u, f)
  <2>1. (\E k \in DOMAIN obs' : Describes(obs'[k], u, f)) <=>
           Describes(o, u, f) \/ \E k \in DOMAIN obs : Describes(obs[k], u, f)
    BY <1>2
  <2>2. (\E k \in DOMAIN obs : Describes(obs[k], u, f)) <=>
           u \in DOMAIN merged /\ merged[u][f] # Unknown
    BY DEF Completed, TypeOK, Describes
  <2> QED
    BY <1>3, <2>1, <2>2, AdmitField DEF Describes
<1>4. windowSeconds' = UNION {obs'[k].measured : k \in DOMAIN obs'}
  <2>1. windowSeconds' = windowSeconds \cup o.measured
    BY DEF Admit
  <2> QED
    BY <1>2, <2>1 DEF Completed
<1> QED
  BY <1>3, <1>4 DEF Completed

(* A device is priced exactly if sources gave what pricing needs.          *)
THEOREM PricedIfSupplied == Spec => []PricedExactlyIfSupplied
<1>1. Init => Completed
  BY DEF Init, Completed
<1>2. TypeOK /\ Completed /\ [Next]_vars => Completed'
  <2>1. Completed /\ UNCHANGED vars => Completed'
    BY DEF Completed, vars
  <2> QED
    BY <2>1, AdmitCompletes DEF Next
<1>3. Completed => PricedExactlyIfSupplied
  BY DEF Completed, Describes, PricedExactlyIfSupplied, Samples, canMFU, Degraded, Fields
<1> QED
  BY <1>1, <1>2, <1>3, TypeCorrect, PTL DEF Spec

-----------------------------------------------------------------------------
Owns(o, u) == u \in DOMAIN o.jobs /\ o.jobs[u] # ""

(* The first observation that knows a field decides it, and the first that *)
(* names a job.                                                            *)
FirstField ==
    \A u \in DOMAIN merged, f \in Fields, k \in DOMAIN obs :
        /\ Describes(obs[k], u, f)
        /\ \A j \in 1..(k - 1) : ~Describes(obs[j], u, f)
        => merged[u][f] = obs[k].windows[u][f]
FirstJob ==
    \A u \in Uuids :
        /\ (\A k \in DOMAIN obs : ~Owns(obs[k], u)) => mappingByDevice[u] \in {"none", ""}
        /\ \A k \in DOMAIN obs :
              Owns(obs[k], u) /\ (\A j \in 1..(k - 1) : ~Owns(obs[j], u))
                => mappingByDevice[u] = obs[k].jobs[u]

(* A known field is left alone; a field decided now was known to nobody.   *)
LEMMA AdmitFirstField ==
    ASSUME TypeOK, Completed, FirstField, NEW o \in Observations, Admit(o)
    PROVE  FirstField'
<1> SUFFICES ASSUME NEW u \in DOMAIN merged', NEW f \in Fields, NEW k \in DOMAIN obs',
                    Describes(obs'[k], u, f),
                    \A j \in 1..(k - 1) : ~Describes(obs'[j], u, f)
             PROVE  merged'[u][f] = obs'[k].windows[u][f]
  BY DEF FirstField
<1>1. \A j \in 1..Len(obs) : obs'[j] = obs[j]
  BY AdmitAppends DEF TypeOK
<1>2. CASE k \in DOMAIN obs
  <2>1. /\ k \in 1..Len(obs) /\ obs'[k] = obs[k]
        /\ \A j \in 1..(k - 1) : obs'[j] = obs[j]
    BY <1>1, <1>2, AdmitAppends DEF TypeOK
  <2>2. u \in DOMAIN merged
    BY <1>2, <2>1 DEF TypeOK, Describes
  <2>3. merged[u][f] = obs[k].windows[u][f]
    BY <1>2, <2>1, <2>2 DEF FirstField
  <2>4. merged[u][f] # Unknown
    BY <2>1, <2>3 DEF Describes
  <2> QED
    BY <2>1, <2>2, <2>3, <2>4, AdmitField
<1>3. CASE k = Len(obs) + 1
  <2>1. obs'[k] = o /\ \A j \in DOMAIN obs : ~Describes(obs[j], u, f)
    BY <1>1, <1>3, AdmitAppends DEF TypeOK
  <2>2. u \notin DOMAIN merged \/ merged[u][f] = Unknown
    BY <2>1 DEF Completed
  <2> QED
    BY <2>1, <2>2, AdmitField DEF Describes
<1> QED
  BY <1>2, <1>3, AdmitAppends DEF TypeOK

(* A job stays; a job decided now was named by nobody.                     *)
LEMMA AdmitFirstJob ==
    ASSUME TypeOK, FirstJob, NEW o \in Observations, Admit(o)
    PROVE  FirstJob'
<1> SUFFICES ASSUME NEW u \in Uuids
             PROVE  /\ (\A k \in DOMAIN obs' : ~Owns(obs'[k], u)) =>
                          mappingByDevice'[u] \in {"none", ""}
                    /\ \A k \in DOMAIN obs' :
                         Owns(obs'[k], u) /\ (\A j \in 1..(k - 1) : ~Owns(obs'[j], u))
                           => mappingByDevice'[u] = obs'[k].jobs[u]
  BY DEF FirstJob
<1>1. \A j \in 1..Len(obs) : obs'[j] = obs[j]
  BY AdmitAppends DEF TypeOK
<1>2. mappingByDevice'[u] = IF u \in DOMAIN o.jobs /\ mappingByDevice[u] \in {"none", ""}
                            THEN o.jobs[u] ELSE mappingByDevice[u]
  BY DEF Admit, JobsWith
<1>3. ASSUME \A k \in DOMAIN obs' : ~Owns(obs'[k], u)
      PROVE  mappingByDevice'[u] \in {"none", ""}
  <2>1. ~Owns(o, u) /\ \A k \in DOMAIN obs : ~Owns(obs[k], u)
    BY <1>1, <1>3, AdmitAppends DEF TypeOK
  <2> QED
    BY <1>2, <2>1 DEF FirstJob, Owns
<1>4. ASSUME NEW k \in DOMAIN obs', Owns(obs'[k], u),
             \A j \in 1..(k - 1) : ~Owns(obs'[j], u)
      PROVE  mappingByDevice'[u] = obs'[k].jobs[u]
  <2>1. CASE k \in DOMAIN obs
    <3>1. /\ k \in 1..Len(obs) /\ obs'[k] = obs[k] /\ obs[k] \in Observations
          /\ \A j \in 1..(k - 1) : obs'[j] = obs[j]
      BY <1>1, <2>1, AdmitAppends DEF TypeOK
    <3>2. mappingByDevice[u] = obs[k].jobs[u]
      BY <1>4, <2>1, <3>1 DEF FirstJob
    <3>3. mappingByDevice[u] \notin {"none", ""}
      BY <1>4, <3>1, <3>2, JobAssumption DEF Owns
    <3> QED
      BY <1>2, <3>1, <3>2, <3>3
  <2>2. CASE k = Len(obs) + 1
    <3>1. obs'[k] = o /\ \A j \in DOMAIN obs : ~Owns(obs[j], u)
      BY <1>1, <1>4, <2>2, AdmitAppends DEF TypeOK
    <3>2. mappingByDevice[u] \in {"none", ""}
      BY <3>1 DEF FirstJob
    <3> QED
      BY <1>2, <1>4, <3>1, <3>2 DEF Owns
  <2> QED
    BY <2>1, <2>2, AdmitAppends DEF TypeOK
<1> QED
  BY <1>3, <1>4

(* Of the edges of a device the one to its first job is the only one.      *)
LEMMA FirstIsWhatIsServed ==
    ASSUME TypeOK, FirstField, FirstJob
    PROVE  FirstKnownWins
<1>1. ASSUME NEW u \in DOMAIN merged, NEW f \in Fields, NEW k \in DOMAIN obs,
             u \in DOMAIN obs[k].windows, obs[k].windows[u][f] # Unknown,
             \A j \in 1..(k - 1) :
                u \in DOMAIN obs[j].windows => obs[j].windows[u][f] = Unknown
      PROVE  merged[u][f] = obs[k].windows[u][f]
  BY <1>1 DEF FirstField, Describes
<1>2. ASSUME NEW u \in DOMAIN merged, NEW k \in DOMAIN obs,
             u \in DOMAIN obs[k].jobs, obs[k].jobs[u] # "",
             \A j \in 1..(k - 1) : u \in DOMAIN obs[j].jobs => obs[j].jobs[u] = ""
      PROVE  {e \in edges : e[1] = u} = {<<u, obs[k].jobs[u]>>}
  <2>0. obs[k] \in Observations
    BY DEF TypeOK
  <2>1. u \in Uuids /\ obs[k].jobs[u] # "none"
    BY <1>2, <2>0, JobAssumption
  <2>2. mappingByDevice[u] = obs[k].jobs[u]
    BY <1>2, <2>1 DEF FirstJob, Owns
  <2>3. <<u, mappingByDevice[u]>> \in edges
    BY <1>2, <2>1, <2>2 DEF edges
  <2>4. ASSUME NEW e \in edges, e[1] = u
        PROVE  e = <<u, mappingByDevice[u]>>
    <3>1. PICK v \in DOMAIN merged : e = <<v, mappingByDevice[v]>>
      BY <2>4 DEF edges
    <3> QED
      BY <2>4, <3>1
  <2> QED
    BY <2>2, <2>3, <2>4
<1> QED
  BY <1>1, <1>2 DEF FirstKnownWins

(* The additive merge: the first source that knows a field or a job        *)
(* decides it, in whatever order and combination the sources answer.       *)
THEOREM FirstKnownDecides == Spec => []FirstKnownWins
<1> DEFINE First == Completed /\ FirstField /\ FirstJob
<1>1. Init => First
  BY DEF Init, Completed, FirstField, FirstJob
<1>2. TypeOK /\ First /\ [Next]_vars => First'
  <2>1. Completed /\ UNCHANGED vars => Completed'
    BY DEF Completed, vars
  <2>2. FirstField /\ UNCHANGED vars => FirstField'
    BY DEF FirstField, vars
  <2>3. FirstJob /\ UNCHANGED vars => FirstJob'
    BY DEF FirstJob, vars
  <2> QED
    BY <2>1, <2>2, <2>3, AdmitCompletes, AdmitFirstField, AdmitFirstJob DEF Next
<1>3. TypeOK /\ First => FirstKnownWins
  BY FirstIsWhatIsServed
<1> QED
  BY <1>1, <1>2, <1>3, TypeCorrect, PTL DEF Spec

-----------------------------------------------------------------------------
(* The converse of Provenance: what a collector observed of its own source *)
(* stays in the fold.                                                      *)
Kept ==
    \A k \in DOMAIN obs :
        /\ obs[k].source = "DMESG_XID" => obs[k].xids \subseteq xidDmesg
        /\ obs[k].source = "NCCL" => obs[k].nccl \subseteq ncclReal
        /\ obs[k].source = "DCGM" => Saw(obs[k], "ecc") \subseteq eccDCGMSeen
        /\ obs[k].source = "PROMETHEUS" => Saw(obs[k], "ecc") \subseteq eccPromSeen
        /\ obs[k].source = "DCGM" => Saw(obs[k], "link") \subseteq linkErrDCGMSeen
        /\ OwnEntries(obs[k]) \subseteq injectedTimeline

(* Admit only ever adds to the accumulators.                               *)
LEMMA AdmitKeeps ==
    ASSUME TypeOK, Kept, NEW o \in Observations, Admit(o)
    PROVE  Kept'
<1>1. /\ xidDmesg \subseteq xidDmesg' /\ ncclReal \subseteq ncclReal'
      /\ eccDCGMSeen \subseteq eccDCGMSeen' /\ eccPromSeen \subseteq eccPromSeen'
      /\ linkErrDCGMSeen \subseteq linkErrDCGMSeen'
      /\ injectedTimeline \subseteq injectedTimeline'
  BY DEF Admit, Attributed
<1>2. /\ o.source = "DMESG_XID" => o.xids \subseteq xidDmesg'
      /\ o.source = "NCCL" => o.nccl \subseteq ncclReal'
      /\ o.source = "DCGM" => Saw(o, "ecc") \subseteq eccDCGMSeen'
      /\ o.source = "PROMETHEUS" => Saw(o, "ecc") \subseteq eccPromSeen'
      /\ o.source = "DCGM" => Saw(o, "link") \subseteq linkErrDCGMSeen'
      /\ OwnEntries(o) \subseteq injectedTimeline'
  BY DEF Admit, Attributed
<1>3. ASSUME NEW k \in DOMAIN obs'
      PROVE  obs'[k] = o \/ (k \in DOMAIN obs /\ obs'[k] = obs[k])
  BY AdmitAppends DEF TypeOK
<1> QED
  BY <1>1, <1>2, <1>3 DEF Kept, Saw, OwnEntries

(* A set of naturals has a smallest element: less-than is well founded.    *)
LEMMA Smallest ==
    ASSUME NEW S, S \subseteq Nat, S # {}
    PROVE  \E n \in S : \A m \in S : n <= m
<1>1. PICK n \in S : \A m \in S : ~(<<m, n>> \in OpToRel(<, Nat))
  BY NatLessThanWellFounded, WFMin
<1>2. ASSUME NEW m \in S
      PROVE  n <= m
  <2>1. ~(m < n)
    BY <1>1, Zenon DEF OpToRel
  <2> QED
    BY <2>1
<1> QED
  BY <1>2

(* A counter somebody saw go up is up in the completed window, unless it   *)
(* is masked.                                                              *)
LEMMA UpUnlessMasked ==
    ASSUME TypeOK, FirstField, NEW f \in Fields,
           NEW k \in DOMAIN obs, NEW u \in Saw(obs[k], f), ~Masked(u, f)
    PROVE  u \in DOMAIN merged /\ merged[u][f] > 0
<1> DEFINE T == {j \in DOMAIN obs : Describes(obs[j], u, f)}
<1>1. u \in DOMAIN obs[k].windows /\ obs[k].windows[u][f] > 0
  BY DEF Saw
<1>2. k \in T
  BY <1>1 DEF Describes, Unknown
<1>3. u \in DOMAIN merged
  BY <1>1 DEF TypeOK
<1>4. DOMAIN obs = 1..Len(obs) /\ Len(obs) \in Nat
  BY DEF TypeOK
<1>5. PICK j \in T : \A i \in T : j <= i
  <2>1. T \subseteq Nat /\ T # {}
    BY <1>2, <1>4
  <2> HIDE DEF T
  <2> QED
    BY <2>1, Smallest
<1>6. /\ j \in DOMAIN obs /\ Describes(obs[j], u, f)
      /\ \A i \in 1..(j - 1) : ~Describes(obs[i], u, f)
  <2>1. ASSUME NEW i \in 1..(j - 1)
        PROVE  i \in DOMAIN obs /\ ~(j <= i)
    BY <1>4
  <2> QED
    BY <1>5, <2>1
<1>7. u \in Saw(obs[j], f)
  BY <1>6 DEF Masked
<1>8. merged[u][f] = obs[j].windows[u][f]
  BY <1>3, <1>6 DEF FirstField
<1> QED
  BY <1>3, <1>7, <1>8 DEF Saw

(* What the fold keeps of a source becomes a leg of that source.           *)
LEMMA KeptIsEmitted == TypeOK /\ Kept /\ FirstField => NothingObservedIsLost
<1> SUFFICES ASSUME TypeOK, Kept, FirstField, NEW k \in DOMAIN obs
             PROVE  LET Emitted(source, id) == Leg(source, id) \in Timeline
                        o == obs[k]
                    IN  /\ o.source = "DMESG_XID" => \A x \in o.xids :
                             /\ x.xid = 79 => Emitted("DMESG_XID", <<"dmesg.xid79", x.dev>>)
                             /\ x.xid \in eccXids =>
                                  Emitted("DMESG_XID", <<"dmesg.xid.ecc", x.xid, x.dev>>)
                        /\ o.source = "NCCL" => \A n \in o.nccl :
                             n.kind = "OP_TIMEOUT" =>
                               Emitted("NCCL", <<"nccl.timeout", n.scope>>)
                        /\ \A te \in o.timeline :
                             te.source \in {Unspecified, o.source} =>
                               Emitted(o.source, te.id)
                        /\ o.source \in {"DCGM", "PROMETHEUS"} => \A u \in Saw(o, "ecc") :
                             \/ \E source \in {o.source, "DCGM"} :
                                   Emitted(source, <<"ecc.dbe", u>>)
                             \/ Masked(u, "ecc")
                        /\ o.source = "DCGM" => \A u \in Saw(o, "link") :
                             Emitted("DCGM", <<"link.error", u>>) \/ Masked(u, "link")
  BY Zenon DEF NothingObservedIsLost
<1> DEFINE o == obs[k]
<1>1. ASSUME o.source = "DMESG_XID", NEW x \in o.xids
      PROVE  /\ x.xid = 79 => Leg("DMESG_XID", <<"dmesg.xid79", x.dev>>) \in Timeline
             /\ x.xid \in eccXids =>
                  Leg("DMESG_XID", <<"dmesg.xid.ecc", x.xid, x.dev>>) \in Timeline
  <2>1. x \in xidDmesg
    BY <1>1 DEF Kept
  <2>2. ASSUME x.xid = 79
        PROVE  Leg("DMESG_XID", <<"dmesg.xid79", x.dev>>)
                 \in {Leg("DMESG_XID", <<"dmesg.xid79", e.dev>>) :
                         e \in {y \in xidDmesg : y.xid = 79}}
    <3>1. x \in {y \in xidDmesg : y.xid = 79}
      BY <2>1, <2>2
    <3> QED
      BY <3>1, Zenon
  <2>3. ASSUME x.xid \in eccXids
        PROVE  Leg("DMESG_XID", <<"dmesg.xid.ecc", x.xid, x.dev>>)
                 \in {Leg("DMESG_XID", <<"dmesg.xid.ecc", e.xid, e.dev>>) :
                         e \in {y \in xidDmesg : y.xid \in eccXids}}
    <3>1. x \in {y \in xidDmesg : y.xid \in eccXids}
      BY <2>1, <2>3
    <3> QED
      BY <3>1, Zenon
  <2> QED
    BY <2>2, <2>3, Zenon DEF Timeline, faultTimeline
<1>2. ASSUME o.source = "NCCL", NEW n \in o.nccl, n.kind = "OP_TIMEOUT"
      PROVE  Leg("NCCL", <<"nccl.timeout", n.scope>>) \in Timeline
  <2>1. n \in {y \in ncclReal : y.kind = "OP_TIMEOUT"}
    BY <1>2 DEF Kept
  <2> QED
    BY <2>1, Zenon DEF Timeline, faultTimeline
<1>3. ASSUME NEW te \in o.timeline, te.source \in {Unspecified, o.source}
      PROVE  Leg(o.source, te.id) \in Timeline
  <2>1. Leg(o.source, te.id) \in OwnEntries(o)
    BY <1>3 DEF OwnEntries, Leg
  <2> QED
    BY <2>1 DEF Kept, Timeline
<1>4. ASSUME o.source \in {"DCGM", "PROMETHEUS"}, NEW u \in Saw(o, "ecc"),
             ~Masked(u, "ecc")
      PROVE  \E source \in {o.source, "DCGM"} : Leg(source, <<"ecc.dbe", u>>) \in Timeline
  <2>1. /\ o.source = "DCGM" => u \in eccDCGMSeen
        /\ u \in eccDCGMSeen \cup eccPromSeen
    BY <1>4 DEF Kept
  <2>2. u \in DOMAIN merged /\ merged[u]["ecc"] > 0
    BY <1>4, UpUnlessMasked DEF Fields
  <2> DEFINE source == IF u \in eccDCGMSeen THEN "DCGM" ELSE "PROMETHEUS"
  <2>3. Leg(source, <<"ecc.dbe", u>>) \in eccDBEDevices
    <3>1. u \in {v \in DOMAIN merged :
                    merged[v]["ecc"] > 0 /\ v \in eccDCGMSeen \cup eccPromSeen}
      BY <2>1, <2>2
    <3> QED
      BY <3>1, Zenon DEF eccDBEDevices
  <2>4. source \in {o.source, "DCGM"}
    BY <1>4, <2>1
  <2> HIDE DEF source
  <2> QED
    BY <2>3, <2>4, Zenon DEF Timeline, faultTimeline
<1>5. ASSUME o.source = "DCGM", NEW u \in Saw(o, "link"), ~Masked(u, "link")
      PROVE  Leg("DCGM", <<"link.error", u>>) \in Timeline
  <2>1. u \in linkErrDCGMSeen
    BY <1>5 DEF Kept
  <2>2. u \in DOMAIN merged /\ merged[u]["link"] > 0
    BY <1>5, UpUnlessMasked DEF Fields
  <2>3. u \in linkErrDevices
    BY <2>1, <2>2 DEF linkErrDevices
  <2> QED
    BY <2>3, Zenon DEF Timeline, faultTimeline
<1> HIDE DEF o
<1> QED
  BY <1>1, <1>2, <1>3, <1>4, <1>5, Zenon DEF o

(* Of arbitrary observations, every XID, NCCL timeout, pre-formed entry,   *)
(* ECC and link-error delta that a collector observed of its own source    *)
(* becomes a leg of that source, unless, for a delta, an observation       *)
(* folded before knew the counter and saw no increase.                     *)
THEOREM NoFaultLost == Spec => []NothingObservedIsLost
<1> DEFINE Fold == Kept /\ Completed /\ FirstField
<1>1. Init => Fold
  BY DEF Init, Kept, Completed, FirstField
<1>2. TypeOK /\ Fold /\ [Next]_vars => Fold'
  <2>1. Kept /\ UNCHANGED vars => Kept'
    BY DEF Kept, vars
  <2>2. Completed /\ UNCHANGED vars => Completed'
    BY DEF Completed, vars
  <2>3. FirstField /\ UNCHANGED vars => FirstField'
    BY DEF FirstField, vars
  <2> QED
    BY <2>1, <2>2, <2>3, AdmitKeeps, AdmitCompletes, AdmitFirstField DEF Next
<1>3. TypeOK /\ Fold => NothingObservedIsLost
  BY KeptIsEmitted
<1> QED
  BY <1>1, <1>2, <1>3, TypeCorrect, PTL DEF Spec
=============================================================================
