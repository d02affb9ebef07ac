----------------------------- MODULE Normalize ------------------------------
(***************************************************************************)
(* Normalize of normalize.go: the observations of a cycle are folded, one  *)
(* at a time and in collector order, into one SignalWindow: the devices    *)
(* with their completed fields, the jobs, and the timeline legs the rca    *)
(* gate matches.  The gate fires on two legs of DIFFERENT sources, so what *)
(* matters is who may mint which leg.                                      *)
(***************************************************************************)
EXTENDS Integers, Sequences

CONSTANTS
    Uuids,         \* device UUIDs
    Observations,  \* the observations a collector may return
    MaxObs         \* bound: collectors of the cycle

ASSUME BoundAssumption == MaxObs \in Nat
(* "none" stands for a device that is no key of the mapping.               *)
ASSUME JobAssumption ==
    \A o \in Observations : \A u \in DOMAIN o.jobs : u \in Uuids /\ o.jobs[u] # "none"

(* An observation: its source, the windows of the devices it saw, the XIDs *)
(* and NCCL events it carries, the pre-formed timeline entries it claims,  *)
(* and the jobs of devices.  A field no source supplied is Unknown.        *)
Unknown == -1
Fields == {"achieved", "tensor", "peak", "cost", "ecc", "link"}
NoWindow == [f \in Fields |-> Unknown]
Unspecified == "UNSPECIFIED"

eccXids == {48, 63, 64, 94, 95}

VARIABLES
    obs,            \* the observations folded so far
    merged,         \* per device: its completed window
    windowSeconds,  \* per device: whether some source gave a positive window
    mappingByDevice,\* per device: its job, "" an empty one, "none" no mapping
    sources,        \* seenSource
    xidDmesg, ncclReal,
    eccDCGMSeen, eccPromSeen, linkErrDCGMSeen,
    injectedTimeline

vars == <<obs, merged, windowSeconds, mappingByDevice, sources, xidDmesg,
          ncclReal, eccDCGMSeen, eccPromSeen, linkErrDCGMSeen, injectedTimeline>>

Init ==
    /\ obs = <<>>
    /\ merged = [u \in {} |-> NoWindow]
    /\ windowSeconds = {}
    /\ mappingByDevice = [u \in Uuids |-> "none"]
    /\ sources = {}
    /\ xidDmesg = {} /\ ncclReal = {}
    /\ eccDCGMSeen = {} /\ eccPromSeen = {} /\ linkErrDCGMSeen = {}
    /\ injectedTimeline = {}

-----------------------------------------------------------------------------
(* Mutant: the last source wins.                                           *)
mergeDeviceWindow_LastWins(dst, src) ==
    [f \in Fields |-> IF src[f] # Unknown THEN src[f] ELSE dst[f]]

(* A known field of src fills a gap of dst, and never overwrites.          *)
mergeDeviceWindow(dst, src) ==
    [f \in Fields |-> IF dst[f] # Unknown THEN dst[f] ELSE src[f]]

Base(u) == IF u \in DOMAIN merged THEN merged[u] ELSE NoWindow

(* The devices for which o saw the counter field f go up.                  *)
Saw(o, f) == {u \in DOMAIN o.windows : o.windows[u][f] > 0}

(* Mutant: an entry without a source is taken for one that claims another. *)
OwnEntries_Strict(o) ==
    {[source |-> o.source, id |-> te.id] : te \in {t \in o.timeline : t.source = o.source}}

(* An entry without a source gets the observation's; one that claims       *)
(* another source is dropped.                                              *)
OwnEntries(o) ==
    {[source |-> o.source, id |-> te.id] :
        te \in {t \in o.timeline : t.source \in {Unspecified, o.source}}}

(* Mutants: the source is not checked; the facts replace earlier ones.     *)
Attributed_AnySource(have, o, source, facts) == have \cup facts
Attributed_Replaces(have, o, source, facts) ==
    IF o.source = source THEN facts ELSE have

(* Facts of o that only a collector of this source may feed to a leg.      *)
Attributed(have, o, source, facts) ==
    IF o.source = source THEN have \cup facts ELSE have

(* The first job that is not empty stays.                                  *)
JobsWith(o) ==
    [u \in Uuids |->
        IF u \in DOMAIN o.jobs /\ mappingByDevice[u] \in {"none", ""}
        THEN o.jobs[u] ELSE mappingByDevice[u]]

Admit(o) ==
    /\ Len(obs) < MaxObs
    /\ obs' = Append(obs, o)
    /\ sources' = sources \cup {o.source}
    /\ xidDmesg' = Attributed(xidDmesg, o, "DMESG_XID", o.xids)
    /\ ncclReal' = Attributed(ncclReal, o, "NCCL", o.nccl)
    /\ injectedTimeline' = injectedTimeline \cup OwnEntries(o)
    /\ mappingByDevice' = JobsWith(o)
    /\ eccDCGMSeen' = Attributed(eccDCGMSeen, o, "DCGM", Saw(o, "ecc"))
    /\ eccPromSeen' = Attributed(eccPromSeen, o, "PROMETHEUS", Saw(o, "ecc"))
    /\ linkErrDCGMSeen' = Attributed(linkErrDCGMSeen, o, "DCGM", Saw(o, "link"))
    /\ merged' = [u \in DOMAIN merged \cup DOMAIN o.windows |->
                    IF u \in DOMAIN o.windows
                    THEN mergeDeviceWindow(Base(u), o.windows[u]) ELSE merged[u]]
    /\ windowSeconds' = windowSeconds \cup o.measured

Next == \E o \in Observations : Admit(o)

Spec == Init /\ [][Next]_vars

-----------------------------------------------------------------------------
(* The SignalWindow that is built from the fold.                           *)
Leg(source, id) == [source |-> source, id |-> id]

(* The counter leg goes to DCGM when DCGM saw the delta, else to           *)
(* Prometheus if it did; the merged value must be positive.                *)
eccDBEDevices ==
    {Leg(IF u \in eccDCGMSeen THEN "DCGM" ELSE "PROMETHEUS", <<"ecc.dbe", u>>) :
        u \in {v \in DOMAIN merged :
                 merged[v]["ecc"] > 0 /\ v \in eccDCGMSeen \cup eccPromSeen}}

linkErrDevices ==
    {u \in DOMAIN merged : merged[u]["link"] > 0 /\ u \in linkErrDCGMSeen}

faultTimeline ==
    {Leg("DMESG_XID", <<"dmesg.xid79", e.dev>>) : e \in {x \in xidDmesg : x.xid = 79}}
    \cup {Leg("DMESG_XID", <<"dmesg.xid.ecc", e.xid, e.dev>>) :
            e \in {x \in xidDmesg : x.xid \in eccXids}}
    \cup {Leg("NCCL", <<"nccl.timeout", e.scope>>) :
            e \in {n \in ncclReal : n.kind = "OP_TIMEOUT"}}
    \cup eccDBEDevices
    \cup {Leg("DCGM", <<"link.error", u>>) : u \in linkErrDevices}

Timeline == faultTimeline \cup injectedTimeline

(* Mutant: a device is priced without a known peak.                        *)
canMFU_NoPeak(u) == u \in windowSeconds /\ merged[u]["achieved"] # Unknown

(* The devices priced by the cost wedge, and the marks of what is missing. *)
canMFU(u) ==
    u \in windowSeconds /\ merged[u]["achieved"] # Unknown /\ merged[u]["peak"] # Unknown

Samples == {u \in DOMAIN merged : canMFU(u)}

Degraded ==
    {m \in (DOMAIN merged) \X {"job_id", "window_seconds", "achieved_flops", "mfu",
                             "tensor_active", "cost"} :
        LET u == m[1] IN
        CASE m[2] = "job_id" -> mappingByDevice[u] = "none"
          [] m[2] = "window_seconds" -> u \notin windowSeconds
          [] m[2] = "achieved_flops" -> merged[u]["achieved"] = Unknown
          [] m[2] = "mfu" -> merged[u]["peak"] = Unknown
          [] m[2] = "tensor_active" -> merged[u]["tensor"] = Unknown
          [] m[2] = "cost" -> merged[u]["cost"] = Unknown}

(* What semantics.ResolveMapping groups the jobs by.                       *)
edges ==
    {<<u, mappingByDevice[u]>> :
        u \in {v \in DOMAIN merged : mappingByDevice[v] \notin {"none", ""}}}

-----------------------------------------------------------------------------
(* Properties.                                                             *)

(* The fact a leg stands for, in an observation.                           *)
Carries(o, id) ==
    \/ \E x \in o.xids : \/ x.xid = 79 /\ id = <<"dmesg.xid79", x.dev>>
                         \/ x.xid \in eccXids /\ id = <<"dmesg.xid.ecc", x.xid, x.dev>>
    \/ \E n \in o.nccl : n.kind = "OP_TIMEOUT" /\ id = <<"nccl.timeout", n.scope>>
    \/ \E u \in Saw(o, "ecc") : id = <<"ecc.dbe", u>>
    \/ \E u \in Saw(o, "link") : id = <<"link.error", u>>
    \/ \E te \in o.timeline : te.id = id

(* The accumulators keep their shape, and exactly the devices some         *)
(* observation described have a window.                                    *)
TypeOK ==
    /\ obs \in Seq(Observations)
    /\ DOMAIN mappingByDevice = Uuids
    /\ \A u \in DOMAIN merged : DOMAIN merged[u] = Fields
    /\ DOMAIN merged = UNION {DOMAIN obs[k].windows : k \in DOMAIN obs}

(* G1: every leg was observed by a collector of the very source it is      *)
(* stamped with, so the two sources the gate asks for are two collectors,  *)
(* even when one collector carries the facts of both legs.                 *)
LegsFromTheirSource ==
    \A l \in Timeline : \E k \in DOMAIN obs :
        obs[k].source = l.source /\ Carries(obs[k], l.id)

(* The counter f of u is masked: the first observation that knows it saw   *)
(* no increase, and the merge keeps that value.                            *)
Describes(o, u, f) == u \in DOMAIN o.windows /\ o.windows[u][f] # Unknown
Masked(u, f) ==
    \E k \in DOMAIN obs :
        /\ Describes(obs[k], u, f) /\ u \notin Saw(obs[k], f)
        /\ \A j \in 1..(k - 1) : ~Describes(obs[j], u, f)

(* Conversely no fault is lost: what a collector observed of its own       *)
(* source reaches the gate under that source, whatever the others carry,   *)
(* and so does an entry that leaves its source out.  (An ECC delta of      *)
(* Prometheus may go under DCGM, if DCGM saw one too.)  One loss remains,  *)
(* and only that one: a counter delta is dropped when an observation       *)
(* folded earlier knew the same counter of the device and saw no increase, *)
(* although "a delta>0 is emitted" (collector.go:124, normalize.go:235).   *)
NothingObservedIsLost ==
    LET Emitted(source, id) == Leg(source, id) \in Timeline
    IN  \A k \in DOMAIN obs : LET o == obs[k] IN
          /\ o.source = "DMESG_XID" => \A x \in o.xids :
               /\ x.xid = 79 => Emitted("DMESG_XID", <<"dmesg.xid79", x.dev>>)
               /\ x.xid \in eccXids =>
                    Emitted("DMESG_XID", <<"dmesg.xid.ecc", x.xid, x.dev>>)
          /\ o.source = "NCCL" => \A n \in o.nccl :
               n.kind = "OP_TIMEOUT" => Emitted("NCCL", <<"nccl.timeout", n.scope>>)
          /\ \A te \in o.timeline :
               te.source \in {Unspecified, o.source} => Emitted(o.source, te.id)
          /\ o.source \in {"DCGM", "PROMETHEUS"} => \A u \in Saw(o, "ecc") :
               \/ \E source \in {o.source, "DCGM"} : Emitted(source, <<"ecc.dbe", u>>)
               \/ Masked(u, "ecc")
          /\ o.source = "DCGM" => \A u \in Saw(o, "link") :
               Emitted("DCGM", <<"link.error", u>>) \/ Masked(u, "link")

(* Nothing is fabricated and nothing that was supplied is lost: a device   *)
(* is priced exactly if sources, in whatever order and combination, gave   *)
(* its window, its FLOPs and its peak, and any other device is marked.     *)
PricedExactlyIfSupplied ==
    LET Supplied(u, f) == \E k \in DOMAIN obs :
            u \in DOMAIN obs[k].windows /\ obs[k].windows[u][f] # Unknown
    IN  \A u \in DOMAIN merged :
          /\ u \in Samples <=> /\ \E k \in DOMAIN obs : u \in obs[k].measured
                               /\ Supplied(u, "achieved") /\ Supplied(u, "peak")
          /\ u \notin Samples =>
               \E f \in {"window_seconds", "achieved_flops", "mfu"} : <<u, f>> \in Degraded

(* The first source that knows a field decides it: a later one neither     *)
(* overwrites nor blanks a rate, a peak or a job.                          *)
FirstKnownWins ==
    /\ \A u \in DOMAIN merged, f \in Fields, k \in DOMAIN obs :
         /\ u \in DOMAIN obs[k].windows /\ obs[k].windows[u][f] # Unknown
         /\ \A j \in 1..(k - 1) :
              u \in DOMAIN obs[j].windows => obs[j].windows[u][f] = Unknown
         => merged[u][f] = obs[k].windows[u][f]
    /\ \A u \in DOMAIN merged, k \in DOMAIN obs :
         /\ u \in DOMAIN obs[k].jobs /\ obs[k].jobs[u] # ""
         /\ \A j \in 1..(k - 1) : u \in DOMAIN obs[j].jobs => obs[j].jobs[u] = ""
         => {e \in edges : e[1] = u} = {<<u, obs[k].jobs[u]>>}
=============================================================================
