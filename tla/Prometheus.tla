----------------------------- MODULE Prometheus ----------------------------
(***************************************************************************)
(* One Collect of PrometheusCollector (collectors_prometheus.go): the      *)
(* PromQL expressions are queried one after the other under one deadline,  *)
(* and each answer completes one field of the windows of the devices it    *)
(* names.  A query may fail alone; the others still count.  Which          *)
(* expressions are asked is decided by overrideQueries (cmd/agent/main.go) *)
(* and RuntimeConfig.Collectors (runtime_config.go).                       *)
(***************************************************************************)
EXTENDS Integers, Sequences, FiniteSetsExt

CONSTANTS
    Uuids,        \* devices
    NoUuid,       \* the identity of a sample without a device label
    NoModel,      \* the empty model label
    Servers,      \* what a Prometheus may hold: per query, a vector of samples
    Settings,     \* the sets of expressions RuntimeConfig.Queries may hold
    WindowSecs    \* window.Seconds()

(* The queries in the order Collect runs them.                             *)
Order == <<"PeakFLOPS", "CostPerHour", "AchievedFLOPs", "TensorActive",
           "ECCDoubleBit", "JobOwner">>
Queries == {Order[i] : i \in 1..Len(Order)}

Unknown == -1     \* a field no answer supplied
NotANumber == -2  \* a sample whose value does not parse

(* The fields of a DeviceWindow a query completes.                         *)
Fields == {"peak", "cost", "achieved", "tensor", "ecc"}
FieldOf ==
    [PeakFLOPS |-> "peak", CostPerHour |-> "cost", AchievedFLOPs |-> "achieved",
     TensorActive |-> "tensor", ECCDoubleBit |-> "ecc"]

ASSUME UuidAssumption == NoUuid \notin Uuids
ASSUME SettingsAssumption == Settings \subseteq SUBSET Queries
ASSUME AnswerAssumption ==
    \A s \in Servers, q \in Queries :
        /\ Len(s[q]) \in Nat /\ DOMAIN s[q] = 1..Len(s[q])
        /\ \A i \in DOMAIN s[q] : s[q][i].value \in Int
ASSUME WindowAssumption == WindowSecs \in Nat \ {0}

VARIABLES
    queries,    \* the expressions that are not empty
    server,     \* the answers Prometheus has for this instant
    next,       \* index in Order of the next query
    expired,    \* the deadline all queries share has passed
    failed,     \* the queries that failed; the first is firstErr
    seen,       \* the devices of devs
    win,        \* the window of each device
    model, job  \* its model, and its job or "none"

prom == <<queries, server, next, expired, failed>>
windows == <<seen, win, model, job>>

NoWindow == [f \in Fields |-> Unknown]

-----------------------------------------------------------------------------
(* The wiring: RuntimeConfig.Collectors takes the defaults for a zero      *)
(* PromQueries; main.go never passes one.                                  *)
DefaultPromQueries == Queries

(* The expressions main passes on when the flags set those of q.           *)
overrideQueries(q) == q \cup (DefaultPromQueries \ {"ECCDoubleBit"})

(* Mutant: an empty configuration asks nothing.                            *)
wiredQueries_NoDefault(q) == q

wiredQueries(q) == IF q = {} THEN DefaultPromQueries ELSE q

PromInit ==
    /\ queries \in {wiredQueries(q) : q \in Settings}
    /\ server \in Servers
    /\ next = 1 /\ expired = FALSE /\ failed = {}
    /\ seen = {}
    /\ win = [u \in Uuids |-> NoWindow]
    /\ model = [u \in Uuids |-> NoModel]
    /\ job = [u \in Uuids |-> "none"]

-----------------------------------------------------------------------------
(* A sample: device, model label, value (of the ECC query: in tenths) and  *)
(* job label.  What run applies are those of a device with a value; the    *)
(* job query reads a label instead.                                        *)
Usable(q, s) == s.uuid # NoUuid /\ (q = "JobOwner" \/ s.value # NotANumber)

Of(q, samples, u) ==
    {i \in DOMAIN samples : Usable(q, samples[i]) /\ samples[i].uuid = u}

Named(q, samples) == {u \in Uuids : Of(q, samples, u) # {}}

(* The first model label that is not empty stays.                          *)
ModelAfter(q, samples, u) ==
    LET labelled == {i \in Of(q, samples, u) : samples[i].model # NoModel}
    IN  IF model[u] # NoModel \/ labelled = {} THEN model[u]
        ELSE samples[Min(labelled)].model

(* Rates become totals of the window; an increase is rounded half up.      *)
Converted(q, v) ==
    CASE q \in {"AchievedFLOPs", "TensorActive"} -> v * WindowSecs
      [] q = "ECCDoubleBit" -> (v + 5) \div 10
      [] OTHER -> v

(* Each sample overwrites the one before; an increase that rounds to zero  *)
(* is none.                                                                *)
Counted(q, samples, u) ==
    {i \in Of(q, samples, u) :
        q = "ECCDoubleBit" => Converted(q, samples[i].value) >= 1}

Field(q, samples, u, old) ==
    LET counted == Counted(q, samples, u)
    IN  IF counted = {} THEN old ELSE Converted(q, samples[Max(counted)].value)

(* The last job label that is not empty.                                   *)
JobAfter(q, samples, u) ==
    LET owned == {i \in Of(q, samples, u) : samples[i].job # ""}
    IN  IF q # "JobOwner" \/ owned = {} THEN job[u]
        ELSE samples[Max(owned)].job

Asking(q) == next <= Len(Order) /\ q = Order[next]

(* An empty expression is skipped.                                         *)
Skip(q) ==
    /\ Asking(q) /\ q \notin queries
    /\ next' = next + 1
    /\ UNCHANGED <<queries, server, expired, failed, windows>>

(* Transport error, status, undecodable body or the deadline: only this    *)
(* query's field degrades, unless the deadline passed, which is the last   *)
(* of it for every later query.                                            *)
Fail(q) ==
    /\ Asking(q) /\ q \in queries
    /\ failed' = failed \cup {q}
    /\ expired' \in {e \in BOOLEAN : expired => e}
    /\ next' = next + 1
    /\ UNCHANGED <<queries, server, windows>>

(* Mutant: after a failure no further answer is used.                      *)
Applied_StopsAtError(q, samples) == IF failed = {} THEN Named(q, samples) ELSE {}

(* The devices whose windows an answer touches, earlier failures or not.   *)
Applied(q, samples) == Named(q, samples)

Answer(q, samples) ==
    /\ Asking(q) /\ q \in queries /\ ~expired
    /\ next' = next + 1
    /\ LET named == Applied(q, samples)
       IN  /\ seen' = seen \cup named
           /\ win' = [u \in Uuids |->
                        IF u \in named /\ q # "JobOwner"
                        THEN [win[u] EXCEPT ![FieldOf[q]] = Field(q, samples, u, @)]
                        ELSE win[u]]
           /\ model' = [u \in Uuids |-> ModelAfter(q, samples, u)]
           /\ job' = [u \in Uuids |-> JobAfter(q, samples, u)]
    /\ UNCHANGED <<queries, server, expired, failed>>

Query == \E q \in Queries : Skip(q) \/ Fail(q) \/ Answer(q, server[q])

(* firstErr is returned only when no device was seen at all.               *)
HardError == failed # {} /\ seen = {}
=============================================================================
