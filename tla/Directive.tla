----------------------------- MODULE Directive ------------------------------
(***************************************************************************)
(* The vetting of a CollectDirective: the fixed capability catalog of      *)
(* internal/capability/catalog.go and Validate with its budget clamp from  *)
(* internal/directive/validate.go.  Durations are in seconds; a duration   *)
(* or count of 0 in a request is "collector default".                      *)
(***************************************************************************)
EXTENDS Integers

Fields == {"MaxDuration", "MaxCpuMillicores", "MaxMapEntries", "MaxSamples"}

Budget(duration, cpu, entries, samples) ==
    [MaxDuration |-> duration, MaxCpuMillicores |-> cpu,
     MaxMapEntries |-> entries, MaxSamples |-> samples]

Unprivileged == "CONSENT_TIER_UNPRIVILEGED"
Privileged == "CONSENT_TIER_PRIVILEGED"

builtin ==
    [id \in {"dcgm.fields", "prometheus.query", "dmesg.xid",
             "ebpf.nvlink.retrans"} |->
       CASE id = "dcgm.fields" ->
              [tier |-> Unprivileged, cap |-> Budget(600, 200, 0, 6000)]
         [] id = "prometheus.query" ->
              [tier |-> Unprivileged, cap |-> Budget(300, 100, 0, 4000)]
         [] id = "dmesg.xid" ->
              [tier |-> Unprivileged, cap |-> Budget(600, 50, 0, 2000)]
         [] id = "ebpf.nvlink.retrans" ->
              [tier |-> Privileged, cap |-> Budget(120, 150, 4096, 2000)]]

Find(id) == id \in DOMAIN builtin

(* cmd/agent enables the unprivileged tier only.                           *)
tier0Consent(tier) == tier = Unprivileged

(* A nil request budget, and a nil directive.                              *)
NoBudget == [nil |-> TRUE]
NilDirective == [capability |-> "nil", budget |-> NoBudget]

(* What a request may hold: a duration is a signed integer, the other      *)
(* fields are unsigned.                                                    *)
Requests == {b \in [Fields -> Int] :
               \A f \in Fields \ {"MaxDuration"} : b[f] >= 0}
Directives == [capability : STRING, budget : {NoBudget} \cup Requests]

clampDuration(req, cap) == IF req <= 0 \/ req > cap THEN cap ELSE req

(* Mutant: only the default is replaced by the cap.                        *)
clampU32_NoCeiling(req, cap) == IF req = 0 THEN cap ELSE req

clampU32(req, cap) == IF req = 0 \/ req > cap THEN cap ELSE req

clampBudget(req, cap) ==
    IF req = NoBudget
    THEN cap
    ELSE [f \in Fields |->
            IF f = "MaxDuration" THEN clampDuration(req[f], cap[f])
                                 ELSE clampU32(req[f], cap[f])]

(* What Validate lets through: a directive that exists, names a capability *)
(* of the catalog, whose tier this host enabled.                           *)
Accepted(d) ==
    /\ d # NilDirective
    /\ Find(d.capability)
    /\ tier0Consent(builtin[d.capability].tier)

(* The budget the executor is handed for an accepted directive.            *)
SafeBudget(d) == clampBudget(d.budget, builtin[d.capability].cap)
=============================================================================
