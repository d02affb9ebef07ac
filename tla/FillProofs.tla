----------------------------- MODULE FillProofs ----------------------------
(***************************************************************************)
(* Proofs about one Collect of the metrics collector the agent wires, for  *)
(* every set of devices, every Prometheus and exporter, every spec and     *)
(* every wiring: a failed query degrades its own field only, a peak and a  *)
(* price are a reading, those of the one entry the spec has for the device *)
(* or the table's, and every number that was filled is traceable.          *)
(***************************************************************************)
EXTENDS Fill, WellFoundedInduction, TLAPS

-----------------------------------------------------------------------------
(* The inductive invariant.                                                *)

(* The queries that were run so far, and those of them that were answered. *)
Past(n) == {Order[j] : j \in 1..(n - 1)}
Heard(n, asked, lost) == (Past(n) \cap asked) \ lost
NamedBy(qs, held) == UNION {Named(q, held[q]) : q \in qs}

(* The query that completes a field of a window.                           *)
QueryOf ==
    [peak |-> "PeakFLOPS", cost |-> "CostPerHour", achieved |-> "AchievedFLOPs",
     tensor |-> "TensorActive", ecc |-> "ECCDoubleBit"]

(* What the answers to qs make of a field nobody supplied before.          *)
Gathered(u, q, qs, held) ==
    IF q \in qs /\ u \in Named(q, held[q])
    THEN Field(q, held[q], u, Unknown) ELSE Unknown

IsWindow(w) == w = [f \in Fields |-> w[f]]
IsEntry(e) == e.peak \in Int /\ e.cost \in Int

Shape ==
    /\ pc \in {"prometheus", "chain", "spec", "table", "done"}
    /\ next \in 1..(Len(Order) + 1)
    /\ queries \subseteq Queries /\ failed \subseteq Past(next) \cap queries
    /\ server \in Servers /\ exporter \in Exposed
    /\ seen \subseteq Uuids
    /\ win = [u \in Uuids |-> win[u]] /\ \A u \in Uuids : IsWindow(win[u])
    /\ model = [u \in Uuids |-> model[u]]
    /\ \A u \in Uuids : model[u] \in Spellings \cup {NoModel}
    /\ \A k \in DOMAIN spec.byUUID : IsEntry(spec.byUUID[k])
    /\ \A k \in DOMAIN spec.byModel : IsEntry(spec.byModel[k])

(* Which part of the chain may have answered.                              *)
Routed ==
    /\ pc = "prometheus" => "PROMETHEUS" \in wired /\ next <= Len(Order)
    /\ pc # "prometheus" /\ "PROMETHEUS" \in wired => next > Len(Order)
    /\ "PROMETHEUS" \notin wired => next = 1
    /\ pc \in {"prometheus", "chain"} => source = "none"
    /\ pc \in {"spec", "table"} => source \in {"PROMETHEUS", "DCGM"}
    /\ pc = "done" => source \in {"PROMETHEUS", "DCGM", "error"}
    /\ source # "DCGM" => seen = NamedBy(Heard(next, queries, failed), server)
    /\ source = "DCGM" =>
          /\ seen = DOMAIN exporter
          /\ NamedBy(Heard(next, queries, failed), server) = {}
    /\ source = "PROMETHEUS" => seen # {} \/ failed = {}
    /\ source = "error" => seen = {} /\ (failed # {} \/ "DCGM" \in wired)

(* Until the chain has answered, a window is what the answers so far make  *)
(* of it.                                                                  *)
Gathering ==
    pc \in {"prometheus", "chain"} =>
      \A u \in Uuids : \A f \in Fields :
        win[u][f] = Gathered(u, QueryOf[f], Heard(next, queries, failed), server)

(* The window of u as its source reported it.                              *)
Reported(u) == [f \in Fields |-> Reading(u, QueryOf[f])]

(* What the spec makes of a window, and what the table makes of that.      *)
SpecFilled(w, e) == FillCost(FillPeak(w, e.peak), e.cost)
TableFilled(w, e, peak) == FillPeak(SpecFilled(w, e), peak)

Touches(w, old) == w["peak"] # old["peak"] \/ w["cost"] # old["cost"]

AsReported == pc = "spec" => \A u \in seen : win[u] = Reported(u)

AfterSpec ==
    pc = "table" =>
      /\ \A u \in seen : \E e \in lookup(u) : win[u] = SpecFilled(Reported(u), e)
      /\ filledBySpec = {u \in seen : Touches(win[u], Reported(u))}
      /\ "peak=static-spec" \in stamps <=>
            \E u \in seen : win[u]["peak"] # Reported(u)["peak"]
      /\ "cost=static-spec" \in stamps <=>
            \E u \in seen : win[u]["cost"] # Reported(u)["cost"]
      /\ "achieved=spec-peak" \in stamps <=>
            \E u \in seen : win[u]["achieved"] # Reported(u)["achieved"]
      /\ "peak=builtin-table" \notin stamps /\ "achieved=table-peak" \notin stamps

(* The device u when both collectors are through with it.                  *)
Through(u) ==
    \E e \in lookup(u) :
      /\ win[u] = TableFilled(Reported(u), e, TablePeak(u))
      /\ u \in filledBySpec <=> Touches(SpecFilled(Reported(u), e), Reported(u))
      /\ u \in filledByTable <=> win[u]["peak"] # SpecFilled(Reported(u), e)["peak"]

(* The devices whose field f is not as reported.                           *)
Completed(f) == {u \in seen : win[u][f] # Reported(u)[f]}

(* What the stamps say, and that the table leaves the others alone.        *)
Stamped ==
    /\ "peak=static-spec" \in stamps <=> Completed("peak") \ filledByTable # {}
    /\ "cost=static-spec" \in stamps <=> Completed("cost") # {}
    /\ "peak=builtin-table" \in stamps <=> filledByTable # {}
    /\ "achieved=table-peak" \in stamps <=> Completed("achieved") \cap filledByTable # {}
    /\ "achieved=spec-peak" \in stamps <=>
         /\ Completed("achieved") # {}
         /\ Completed("achieved") \cap filledByTable = {}

AfterTable ==
    Done =>
      /\ \A u \in seen : Through(u)
      /\ filledBySpec \subseteq seen /\ filledByTable \subseteq seen
      /\ Stamped

FInv == Shape /\ Routed /\ Gathering /\ AsReported /\ AfterSpec /\ AfterTable

-----------------------------------------------------------------------------
(* Smallest and largest numbers, the queries and the fields.               *)

(* A set of naturals has a smallest element: less-than is well founded.    *)
LEMMA Smallest ==
    ASSUME NEW T, T \subseteq Nat, T # {}
    PROVE  \E x \in T : \A y \in T : x <= y
<1>1. IsWellFoundedOn(OpToRel(<, Nat), Nat)
  BY NatLessThanWellFounded
<1>2. PICK x \in T : \A y \in T : ~(<<y, x>> \in OpToRel(<, Nat))
  BY <1>1, WFMin
<1>3. ASSUME NEW y \in T PROVE x <= y
  <2>1. ~(<<y, x>> \in OpToRel(<, Nat))
    BY <1>2
  <2>2. ~(y < x)
    BY <2>1, Zenon DEF OpToRel
  <2> QED BY <2>2
<1> QED BY <1>3

(* Min finds it.                                                           *)
LEMMA MinFacts ==
    ASSUME NEW T, T \subseteq Nat, T # {}
    PROVE  Min(T) \in T /\ \A y \in T : Min(T) <= y
  BY Smallest DEF Min

(* Max finds the largest of some indices of a sequence.                    *)
LEMMA MaxFacts ==
    ASSUME NEW n \in Nat, NEW T, T \subseteq 1..n, T # {}
    PROVE  Max(T) \in T /\ \A y \in T : y <= Max(T)
<1> DEFINE U == {n - y : y \in T}
<1>1. \A y \in T : y \in 1..n /\ y \in Nat /\ n - y \in Nat
  OBVIOUS
<1>2. U \subseteq Nat /\ U # {}
  BY <1>1
<1>3. PICK x \in U : \A y \in U : x <= y
  BY <1>2, Smallest
<1>4. PICK m \in T : x = n - m
  BY <1>3
<1>5. ASSUME NEW y \in T PROVE y <= m
  <2>1. n - m <= n - y
    BY <1>3, <1>4
  <2> QED BY <2>1, <1>1
<1>6. \A y \in T : m >= y
  BY <1>5, <1>1
<1> HIDE DEF U
<1> QED BY <1>6 DEF Max

(* Six queries, each asked once.                                           *)
LEMMA OrderFacts ==
    /\ Len(Order) = 6
    /\ Order[1] = "PeakFLOPS" /\ Order[2] = "CostPerHour"
    /\ Order[3] = "AchievedFLOPs" /\ Order[4] = "TensorActive"
    /\ Order[5] = "ECCDoubleBit" /\ Order[6] = "JobOwner"
    /\ \A i, j \in 1..6 : Order[i] = Order[j] => i = j
  BY DEF Order

(* The next query is new to those of the past; in the end all are past.    *)
LEMMA PastFacts ==
    /\ Past(1) = {} /\ Past(7) = Queries
    /\ \A n \in 1..6 :
         /\ Past(n + 1) = Past(n) \cup {Order[n]}
         /\ Order[n] \notin Past(n) /\ Order[n] \in Queries
<1>1. Past(1) = {} /\ Past(7) = Queries
  BY OrderFacts DEF Past, Queries
<1>2. ASSUME NEW n \in 1..6
      PROVE  /\ Past(n + 1) = Past(n) \cup {Order[n]}
             /\ Order[n] \notin Past(n) /\ Order[n] \in Queries
  <2>1. \A j : j \in 1..((n + 1) - 1) <=> j \in 1..(n - 1) \/ j = n
    OBVIOUS
  <2>2. Past(n + 1) = Past(n) \cup {Order[n]}
    BY ONLY <2>1, Zenon DEF Past
  <2>3. Order[n] \notin Past(n)
    <3>1. ASSUME NEW j \in 1..(n - 1) PROVE Order[j] # Order[n]
      <4>1. j \in 1..6 /\ j # n
        OBVIOUS
      <4> QED BY <4>1, OrderFacts
    <3> QED BY <3>1 DEF Past
  <2>4. Order[n] \in Queries
    BY OrderFacts DEF Queries
  <2> QED BY <2>2, <2>3, <2>4
<1> QED BY <1>1, <1>2

(* Each query but that of the jobs completes a field of its own.           *)
LEMMA FieldFacts ==
    /\ \A f \in Fields : QueryOf[f] \in Queries \ {"JobOwner"} /\ FieldOf[QueryOf[f]] = f
    /\ \A q \in Queries \ {"JobOwner"} : FieldOf[q] \in Fields /\ QueryOf[FieldOf[q]] = q
<1>1. Queries = {"PeakFLOPS", "CostPerHour", "AchievedFLOPs", "TensorActive",
                 "ECCDoubleBit", "JobOwner"}
  <2>1. 1..6 = {1, 2, 3, 4, 5, 6}
    OBVIOUS
  <2>2. Queries = {Order[i] : i \in {1, 2, 3, 4, 5, 6}}
    BY <2>1, OrderFacts DEF Queries
  <2> QED BY <2>2, OrderFacts
<1> QED BY <1>1 DEF Fields, FieldOf, QueryOf

-----------------------------------------------------------------------------
(* What filling does to a window, and what is offered to it.               *)

(* A peak fills a missing peak, and completes the FLOPs if it can.         *)
LEMMA FillPeakFacts ==
    ASSUME NEW w, IsWindow(w), NEW p
    PROVE  LET F == FillPeak(w, p)
               fills == p > 0 /\ w["peak"] = Unknown
           IN  /\ IsWindow(F)
               /\ F["peak"] = IF fills THEN p ELSE w["peak"]
               /\ F["achieved"] =
                    IF fills /\ w["tensor"] # Unknown /\ w["achieved"] = Unknown
                    THEN w["tensor"] * p ELSE w["achieved"]
               /\ F["cost"] = w["cost"] /\ F["tensor"] = w["tensor"]
               /\ F["ecc"] = w["ecc"]
<1> DEFINE derived == w["tensor"] * p
           achieved == IF w["tensor"] # Unknown /\ w["achieved"] = Unknown
                       THEN derived ELSE w["achieved"]
           F == IF p > 0 /\ w["peak"] = Unknown
                THEN [w EXCEPT !["peak"] = p, !["achieved"] = achieved] ELSE w
<1>1. FillPeak(w, p) = F
  BY Zenon DEF FillPeak
<1> HIDE DEF derived
<1>2. /\ IsWindow(F)
      /\ F["peak"] = IF p > 0 /\ w["peak"] = Unknown THEN p ELSE w["peak"]
      /\ F["achieved"] =
           IF (p > 0 /\ w["peak"] = Unknown) /\ w["tensor"] # Unknown /\ w["achieved"] = Unknown
           THEN derived ELSE w["achieved"]
      /\ F["cost"] = w["cost"] /\ F["tensor"] = w["tensor"]
      /\ F["ecc"] = w["ecc"]
  BY DEF IsWindow, Fields
<1> HIDE DEF F
<1> QED BY <1>1, <1>2 DEF derived

(* A price fills a missing price, and nothing else.                        *)
LEMMA FillCostFacts ==
    ASSUME NEW w, IsWindow(w), NEW c
    PROVE  LET F == FillCost(w, c)
           IN  /\ IsWindow(F)
               /\ F["cost"] = IF c > 0 /\ w["cost"] = Unknown THEN c ELSE w["cost"]
               /\ F["peak"] = w["peak"] /\ F["tensor"] = w["tensor"]
               /\ F["ecc"] = w["ecc"] /\ F["achieved"] = w["achieved"]
  BY DEF FillCost, IsWindow, Fields

(* The spec offers a device an entry only when it is one of those promised *)
(* to it: its UUID's, else its model's under any spelling, else the        *)
(* wildcard's.                                                             *)
LEMMA LookupFacts ==
    ASSUME Shape, NEW u \in Uuids
    PROVE  /\ lookup(u) \subseteq PromisedEntries(u)
           /\ \A e \in lookup(u) : IsEntry(e)
<1> DEFINE own == Entries(spec.byUUID, {u})
           exact == IF model[u] = NoModel THEN {} ELSE Entries(spec.byModel, {model[u]})
           named == Entries(spec.byModel, Alike(model[u]))
           rest == Entries(spec.byModel, {Wildcard})
           c == <<own, exact, named, rest>>
           hits == {i \in 1..4 : c[i] # {}}
<1>1. lookup(u) = IF hits = {} THEN {NoEntry} ELSE c[Min(hits)]
  BY DEF lookup, Candidates
<1>2. PromisedEntries(u) =
        IF own # {} THEN own ELSE IF named # {} THEN named
        ELSE IF rest # {} THEN rest ELSE {NoEntry}
  BY DEF PromisedEntries
<1>3. exact \subseteq named
  <2>1. CASE model[u] = NoModel
    BY <2>1
  <2>2. CASE model[u] # NoModel
    <3>1. model[u] # Wildcard
      BY <2>2, SpellingAssumption DEF Shape
    <3>2. {model[u]} \cap DOMAIN spec.byModel \subseteq Alike(model[u])
      BY <2>2, <3>1 DEF Alike
    <3> QED BY <2>2, <3>2 DEF Entries
  <2> QED BY <2>1, <2>2
<1>4. \A e \in own \cup named \cup rest : IsEntry(e)
  BY DEF Shape, Entries
<1>5. IsEntry(NoEntry)
  BY DEF IsEntry, NoEntry
<1>6. c[1] = own /\ c[2] = exact /\ c[3] = named /\ c[4] = rest
  OBVIOUS
<1> HIDE DEF own, exact, named, rest, c
<1>7. CASE hits = {}
  <2>1. own = {} /\ named = {} /\ rest = {}
    <3>1. 1 \notin hits /\ 3 \notin hits /\ 4 \notin hits
      BY <1>7
    <3> QED BY <3>1, <1>6
  <2> QED BY <2>1, <1>7, <1>1, <1>2, <1>5
<1>8. CASE hits # {}
  <2>1. hits \subseteq Nat
    OBVIOUS
  <2>2. Min(hits) \in hits /\ \A y \in hits : Min(hits) <= y
    BY <1>8, <2>1, MinFacts
  <2> DEFINE first == Min(hits)
  <2> HIDE DEF first
  <2>3. first \in 1..4 /\ c[first] # {} /\ \A y \in 1..4 : c[y] # {} => first <= y
    BY <2>2 DEF first
  <2>4. lookup(u) = c[first]
    BY <1>8, <1>1 DEF first
  <2>5. /\ first # 1 => c[1] = {}
        /\ first \notin {1, 2} => c[2] = {}
        /\ first \notin {1, 2, 3} => c[3] = {}
    BY <2>3
  <2>6. first \in {1, 2, 3, 4}
    BY <2>3
  <2> HIDE DEF hits
  <2> QED BY <2>3, <2>4, <2>5, <2>6, <1>2, <1>3, <1>4, <1>6
<1> QED BY <1>7, <1>8

(* Every board has a positive peak.                                        *)
LEMMA BoardFacts ==
    /\ \A b \in Boards : b[2] \in Nat
    /\ DOMAIN builtinGPUPeaks = {b[1] : b \in Boards}
    /\ \A n \in DOMAIN builtinGPUPeaks : builtinGPUPeaks[n] \in Nat
<1>1. \A b \in Boards : b[2] \in Nat
  BY DEF Boards
<1>2. DOMAIN builtinGPUPeaks = {b[1] : b \in Boards}
  BY DEF builtinGPUPeaks
<1>3. ASSUME NEW n \in DOMAIN builtinGPUPeaks PROVE builtinGPUPeaks[n] \in Nat
  <2>1. PICK b \in Boards : b[1] = n
    BY <1>2
  <2>2. (CHOOSE x \in Boards : x[1] = n) \in Boards
    BY <2>1
  <2> QED BY <2>2, <1>1, <1>2 DEF builtinGPUPeaks
<1> QED BY <1>1, <1>2, <1>3

(* The table offers a number, whatever the name.                           *)
LEMMA TablePeakFacts ==
    ASSUME NEW u
    PROVE  TablePeak(u) \in Int
<1>1. ASSUME NEW name PROVE matchModelPeak(name) \in Int
  <2> DEFINE n == Without(Without(Without(name, "tesla"), "rtx"), "quadro")
             family == IF n = <<>> THEN "" ELSE n[1]
             variant == IF family = "a100" THEN IF Has(n, "80gb") THEN "80gb" ELSE "40gb"
                        ELSE IF Has(n, "nvl") THEN "nvl"
                        ELSE IF Has(n, "pcie") THEN "pcie" ELSE "sxm"
             leading == LeadingKeys(n)
             longest == CHOOSE k \in leading : \A l \in leading : Len(l) <= Len(k)
  <2> HIDE DEF n
  <2>1. matchModelPeak(name) =
          IF n \in DOMAIN builtinGPUPeaks THEN builtinGPUPeaks[n]
          ELSE IF family \in {"a100", "h100"} THEN builtinGPUPeaks[<<family, variant>>]
          ELSE IF leading # {} THEN builtinGPUPeaks[longest] ELSE 0
    BY Zenon DEF matchModelPeak, n
  <2>2. family \in {"a100", "h100"} => <<family, variant>> \in DOMAIN builtinGPUPeaks
    <3>1. {<<"a100", "40gb">>, <<"a100", "80gb">>, <<"h100", "sxm">>,
           <<"h100", "pcie">>, <<"h100", "nvl">>} \subseteq DOMAIN builtinGPUPeaks
      <4>1. /\ <<<<"a100", "40gb">>, 3120>> \in Boards /\ <<<<"a100", "80gb">>, 3120>> \in Boards
            /\ <<<<"h100", "sxm">>, 9894>> \in Boards /\ <<<<"h100", "pcie">>, 7560>> \in Boards
            /\ <<<<"h100", "nvl">>, 8350>> \in Boards
        BY DEF Boards
      <4> QED BY <4>1, BoardFacts
    <3> HIDE DEF family
    <3> QED BY <3>1
  <2>3. leading # {} => longest \in DOMAIN builtinGPUPeaks
    <3>1. SUFFICES ASSUME leading # {}
                   PROVE  \E k \in leading : \A l \in leading : Len(l) <= Len(k)
      <4>1. leading \subseteq DOMAIN builtinGPUPeaks
        BY DEF LeadingKeys
      <4> HIDE DEF leading
      <4> QED BY <4>1
    <3>2. \A k \in leading : Len(k) \in {1, 2}
      <4>1. \A b \in Boards : Len(b[1]) \in {1, 2}
        BY DEF Boards
      <4>2. leading \subseteq {b[1] : b \in Boards}
        BY BoardFacts DEF LeadingKeys
      <4> HIDE DEF leading
      <4> QED BY <4>1, <4>2
    <3> HIDE DEF leading
    <3> QED BY <3>1, <3>2
  <2> HIDE DEF family, variant, leading, longest
  <2> QED BY <2>1, <2>2, <2>3, BoardFacts
<1> QED BY <1>1 DEF TablePeak

-----------------------------------------------------------------------------
(* The invariant holds initially.                                          *)

(* Every entry of a spec the flags and a file make is one of numbers.      *)
LEMMA SpecFacts ==
    ASSUME NEW file \in Files, NEW flags \in Flags, NEW s \in ParseDeviceSpec(file)
    PROVE  LET d == buildDeviceSpec(s, flags)
           IN  /\ \A k \in DOMAIN d.byUUID : IsEntry(d.byUUID[k])
               /\ \A k \in DOMAIN d.byModel : IsEntry(d.byModel[k])
<1>1. /\ IsEntry(flags)
      /\ \A k \in DOMAIN file.byUUID : IsEntry(file.byUUID[k])
      /\ \A k \in DOMAIN file.byModel : IsEntry(file.byModel[k])
      /\ \A k \in DOMAIN file.flat : IsEntry(file.flat[k])
  BY EntryAssumption DEF IsEntry
<1>2. PICK lost \in SUBSET (DOMAIN file.byModel \cap DOMAIN file.flat) :
        s = [byUUID |-> file.byUUID,
             byModel |-> [k \in DOMAIN file.byModel \cup DOMAIN file.flat |->
                            IF k \in DOMAIN file.flat \ lost THEN file.flat[k]
                            ELSE file.byModel[k]]]
  BY Zenon DEF ParseDeviceSpec
<1> DEFINE merged == [k \in DOMAIN file.byModel \cup DOMAIN file.flat |->
                        IF k \in DOMAIN file.flat \ lost THEN file.flat[k]
                        ELSE file.byModel[k]]
           wild == [k \in DOMAIN merged \cup {Wildcard} |->
                      IF k = Wildcard THEN flags ELSE merged[k]]
<1>3. \A k \in DOMAIN merged : IsEntry(merged[k])
  BY <1>1
<1>4. \A k \in DOMAIN wild : IsEntry(wild[k])
  BY <1>1, <1>3
<1>5. s = [byUUID |-> file.byUUID, byModel |-> merged]
  BY <1>2
<1> HIDE DEF merged
<1>6. buildDeviceSpec(s, flags) =
        IF empty(flags) THEN s ELSE [byUUID |-> file.byUUID, byModel |-> wild]
  BY <1>5 DEF buildDeviceSpec
<1> HIDE DEF wild
<1> QED BY <1>1, <1>3, <1>4, <1>5, <1>6

(* Nothing was asked yet.                                                  *)
LEMMA InitFInv == Init => FInv
<1> SUFFICES ASSUME Init PROVE FInv
  OBVIOUS
<1> USE DEF Init, PromInit
<1>1. Heard(next, queries, failed) = {}
  BY PastFacts DEF Heard
<1>2. NamedBy(Heard(next, queries, failed), server) = {}
  BY <1>1 DEF NamedBy
<1>3. Shape
  <2>1. queries \subseteq Queries
    BY SettingsAssumption DEF wiredQueries, DefaultPromQueries
  <2>2. /\ \A k \in DOMAIN spec.byUUID : IsEntry(spec.byUUID[k])
        /\ \A k \in DOMAIN spec.byModel : IsEntry(spec.byModel[k])
    <3>1. PICK s \in UNION {ParseDeviceSpec(f) : f \in Files}, flags \in Flags :
            spec = buildDeviceSpec(s, flags)
      OBVIOUS
    <3>2. PICK file \in Files : s \in ParseDeviceSpec(file)
      OBVIOUS
    <3> QED BY ONLY <3>1, <3>2, SpecFacts
  <2>3. \A u \in Uuids : IsWindow(win[u])
    BY DEF IsWindow, NoWindow
  <2>4. failed \subseteq Past(next) \cap queries
    OBVIOUS
  <2>5. next \in 1..(Len(Order) + 1)
    BY OrderFacts
  <2>6. pc \in {"prometheus", "chain", "spec", "table", "done"}
    OBVIOUS
  <2>7. \A u \in Uuids : model[u] \in Spellings \cup {NoModel}
    OBVIOUS
  <2> QED BY <2>1, <2>2, <2>3, <2>4, <2>5, <2>6, <2>7 DEF Shape
<1>4. Routed
  BY <1>2, OrderFacts DEF Routed
<1>5. Gathering
  <2>1. \A u \in Uuids : \A f \in Fields : win[u][f] = Unknown
    BY DEF NoWindow
  <2> QED BY <2>1, <1>1 DEF Gathering, Gathered
<1>6. AsReported /\ AfterSpec /\ AfterTable
  BY DEF AsReported, AfterSpec, AfterTable, Done
<1> QED BY <1>3, <1>4, <1>5, <1>6 DEF FInv

-----------------------------------------------------------------------------
(* Every action preserves the invariant.                                   *)

(* A sample supplies a model the labels may hold.                          *)
LEMMA ModelFacts ==
    ASSUME Shape, NEW q \in Queries, NEW u \in Uuids
    PROVE  ModelAfter(q, server[q], u) \in Spellings \cup {NoModel}
<1> DEFINE samples == server[q]
           labelled == {i \in Of(q, samples, u) : samples[i].model # NoModel}
<1>1. /\ Len(samples) \in Nat /\ DOMAIN samples = 1..Len(samples)
      /\ \A i \in DOMAIN samples : samples[i].model \in Spellings \cup {NoModel}
  BY AnswerAssumption, LabelAssumption DEF Shape
<1>2. model[u] \in Spellings \cup {NoModel}
  BY DEF Shape
<1>3. labelled \subseteq DOMAIN samples
  BY DEF Of
<1>4. ModelAfter(q, samples, u) =
        IF model[u] # NoModel \/ labelled = {} THEN model[u]
        ELSE samples[Min(labelled)].model
  BY DEF ModelAfter
<1> HIDE DEF samples, labelled
<1>5. labelled # {} => Min(labelled) \in DOMAIN samples
  BY <1>1, <1>3, MinFacts
<1> QED BY <1>1, <1>2, <1>4, <1>5 DEF samples

(* A query that is skipped or fails changes what was heard no more than    *)
(* what is known; one that is answered is heard for the first time.        *)
LEMMA QueryFacts ==
    ASSUME Shape, NEW q \in Queries, Skip(q) \/ Fail(q) \/ Answer(q, server[q])
    PROVE  LET H == Heard(next, queries, failed)
               HH == Heard(next', queries', failed')
           IN  /\ next' = next + 1 /\ next \in 1..6 /\ q = Order[next]
               /\ queries' = queries /\ server' = server
               /\ failed' \subseteq Past(next') \cap queries
               /\ \/ HH = H /\ UNCHANGED windows
                  \/ q \notin H /\ HH = H \cup {q} /\ Answer(q, server[q])
<1>1. next' = next + 1 /\ next \in 1..6 /\ q = Order[next]
  BY OrderFacts DEF Skip, Fail, Answer, Asking, Shape
<1>2. Past(next') = Past(next) \cup {q} /\ q \notin Past(next)
  BY <1>1, PastFacts
<1>3. failed \subseteq Past(next) \cap queries
  BY DEF Shape
<1>4. CASE Skip(q)
  <2>1. q \notin queries /\ queries' = queries /\ failed' = failed /\ server' = server
        /\ UNCHANGED windows
    BY <1>4 DEF Skip
  <2> QED BY <2>1, <1>1, <1>2, <1>3 DEF Heard
<1>5. CASE Fail(q)
  <2>1. q \in queries /\ queries' = queries /\ failed' = failed \cup {q}
        /\ server' = server /\ UNCHANGED windows
    BY <1>5 DEF Fail
  <2> QED BY <2>1, <1>1, <1>2, <1>3 DEF Heard
<1>6. CASE Answer(q, server[q])
  <2>1. q \in queries /\ queries' = queries /\ failed' = failed /\ server' = server
    BY <1>6 DEF Answer
  <2> QED BY <2>1, <1>1, <1>2, <1>3, <1>6 DEF Heard
<1> QED BY <1>4, <1>5, <1>6

(* An answer names devices and completes their field.                      *)
LEMMA AnswerFacts ==
    ASSUME Shape, NEW q \in Queries, Answer(q, server[q])
    PROVE  /\ seen' = seen \cup Named(q, server[q])
           /\ win' = [u \in Uuids |-> win'[u]]
           /\ model' = [u \in Uuids |-> model'[u]]
           /\ \A u \in Uuids : model'[u] \in Spellings \cup {NoModel}
           /\ \A u \in Uuids : IsWindow(win'[u])
           /\ \A u \in Uuids, f \in Fields :
                win'[u][f] = IF u \in Named(q, server[q]) /\ QueryOf[f] = q
                             THEN Field(q, server[q], u, win[u][f]) ELSE win[u][f]
<1> DEFINE named == Named(q, server[q])
<1>1. /\ seen' = seen \cup named
      /\ win' = [u \in Uuids |->
                   IF u \in named /\ q # "JobOwner"
                   THEN [win[u] EXCEPT ![FieldOf[q]] =
                           Field(q, server[q], u, win[u][FieldOf[q]])]
                   ELSE win[u]]
      /\ model' = [u \in Uuids |-> ModelAfter(q, server[q], u)]
  BY DEF Answer, Applied
<1>2. ASSUME NEW u \in Uuids
      PROVE  /\ IsWindow(win'[u])
             /\ \A f \in Fields :
                  win'[u][f] = IF u \in named /\ QueryOf[f] = q
                               THEN Field(q, server[q], u, win[u][f]) ELSE win[u][f]
  <2>1. IsWindow(win[u])
    BY DEF Shape
  <2> DEFINE value(f) == Field(q, server[q], u, win[u][f])
  <2>2. CASE u \in named /\ q # "JobOwner"
    <3> DEFINE g == FieldOf[q]
    <3>1. g \in Fields /\ QueryOf[g] = q /\ \A f \in Fields : QueryOf[f] = q => f = g
      BY <2>2, FieldFacts
    <3>2. win'[u] = [win[u] EXCEPT ![g] = value(g)]
      BY <1>1, <2>2
    <3> HIDE DEF g, value, named
    <3>3. IsWindow(win'[u]) /\ \A f \in Fields : win'[u][f] = IF f = g THEN value(g) ELSE win[u][f]
      BY <3>1, <3>2, <2>1 DEF IsWindow
    <3> QED BY <3>1, <3>3, <2>2 DEF value
  <2>3. CASE ~(u \in named /\ q # "JobOwner")
    <3>1. win'[u] = win[u]
      BY <1>1, <2>3
    <3>2. \A f \in Fields : ~(u \in named /\ QueryOf[f] = q)
      BY <2>3, FieldFacts
    <3> HIDE DEF named
    <3> QED BY <3>1, <3>2, <2>1
  <2> QED BY <2>2, <2>3
<1>3. \A u \in Uuids : model'[u] \in Spellings \cup {NoModel}
  BY <1>1, ModelFacts
<1> QED BY <1>1, <1>2, <1>3

(* Later conjuncts speak of later states.                                  *)
LEMMA AskFInv == FInv /\ AskPrometheus => FInv'
<1> SUFFICES ASSUME FInv, AskPrometheus PROVE FInv'
  OBVIOUS
<1>0. Shape /\ Routed /\ Gathering
  BY DEF FInv
<1>1. /\ pc = "prometheus" /\ wired' = wired /\ exporter' = exporter /\ spec' = spec
      /\ pc' = IF next' > Len(Order) THEN "chain" ELSE pc
      /\ source' = source /\ source = "none"
  BY <1>0 DEF AskPrometheus, config, Routed
<1>2. PICK q \in Queries : Skip(q) \/ Fail(q) \/ Answer(q, server[q])
  BY DEF AskPrometheus, Query
<1> DEFINE H == Heard(next, queries, failed)
           HH == Heard(next', queries', failed')
<1>3. /\ next' = next + 1 /\ next \in 1..6 /\ q = Order[next]
      /\ queries' = queries /\ server' = server
      /\ failed' \subseteq Past(next') \cap queries
      /\ \/ HH = H /\ UNCHANGED windows
         \/ q \notin H /\ HH = H \cup {q} /\ Answer(q, server[q])
  BY <1>0, <1>2, QueryFacts
<1>4. /\ Len(Order) = 6 /\ next' \in 1..7
      /\ "PROMETHEUS" \in wired
  BY <1>0, <1>1, <1>3, OrderFacts DEF Routed
<1> HIDE DEF H, HH
<1>5. /\ seen' = NamedBy(HH, server) /\ seen' \subseteq Uuids
      /\ win' = [u \in Uuids |-> win'[u]] /\ \A u \in Uuids : IsWindow(win'[u])
      /\ model' = [u \in Uuids |-> model'[u]]
      /\ \A u \in Uuids : model'[u] \in Spellings \cup {NoModel}
      /\ \A u \in Uuids, f \in Fields : win'[u][f] = Gathered(u, QueryOf[f], HH, server)
  <2>1. /\ seen = NamedBy(H, server) /\ seen \subseteq Uuids
        /\ \A u \in Uuids, f \in Fields : win[u][f] = Gathered(u, QueryOf[f], H, server)
    BY <1>0, <1>1 DEF Routed, Gathering, Shape, H
  <2>2. CASE HH = H /\ UNCHANGED windows
    BY <2>1, <2>2, <1>0 DEF windows, Shape
  <2>3. CASE q \notin H /\ HH = H \cup {q} /\ Answer(q, server[q])
    <3>1. /\ seen' = seen \cup Named(q, server[q])
          /\ win' = [u \in Uuids |-> win'[u]]
          /\ model' = [u \in Uuids |-> model'[u]]
          /\ \A u \in Uuids : model'[u] \in Spellings \cup {NoModel}
          /\ \A u \in Uuids : IsWindow(win'[u])
          /\ \A u \in Uuids, f \in Fields :
               win'[u][f] = IF u \in Named(q, server[q]) /\ QueryOf[f] = q
                            THEN Field(q, server[q], u, win[u][f]) ELSE win[u][f]
      BY <1>0, <2>3, AnswerFacts
    <3>2. seen' = NamedBy(HH, server)
      BY <3>1, <2>1, <2>3 DEF NamedBy
    <3>3. seen' \subseteq Uuids
      BY <3>1, <2>1 DEF Named
    <3>4. ASSUME NEW u \in Uuids, NEW f \in Fields
          PROVE  win'[u][f] = Gathered(u, QueryOf[f], HH, server)
      <4>1. win[u][f] = Gathered(u, QueryOf[f], H, server)
        BY <2>1
      <4>2. win'[u][f] = IF u \in Named(q, server[q]) /\ QueryOf[f] = q
                         THEN Field(q, server[q], u, win[u][f]) ELSE win[u][f]
        BY <3>1
      <4>3. CASE QueryOf[f] = q
        <5>1. win[u][f] = Unknown
          BY <4>1, <4>3, <2>3 DEF Gathered
        <5> QED BY <5>1, <4>2, <4>3, <2>3 DEF Gathered
      <4>4. CASE QueryOf[f] # q
        BY <4>1, <4>2, <4>4, <2>3 DEF Gathered
      <4> QED BY <4>3, <4>4
    <3> QED BY <3>1, <3>2, <3>3, <3>4
  <2> QED BY <1>3, <2>2, <2>3
<1>6. Shape'
  BY <1>0, <1>1, <1>3, <1>4, <1>5 DEF Shape
<1>7. Routed'
  BY <1>1, <1>3, <1>4, <1>5 DEF Routed, HH
<1>8. Gathering'
  BY <1>1, <1>3, <1>5 DEF Gathering, HH
<1>9. AsReported' /\ AfterSpec' /\ AfterTable'
  <2>1. pc' \in {"prometheus", "chain"}
    BY <1>1
  <2> QED BY <2>1 DEF AsReported, AfterSpec, AfterTable, Done
<1> QED BY <1>6, <1>7, <1>8, <1>9 DEF FInv

(* When Prometheus answers, its windows are what it reported.              *)
LEMMA PrimaryReported ==
    ASSUME Shape, Routed, Gathering, pc = "chain", "PROMETHEUS" \in wired,
           NEW u \in Uuids, NEW f \in Fields
    PROVE  win[u][f] = IF QueryOf[f] \in queries \ failed /\ u \in Named(QueryOf[f], server[QueryOf[f]])
                       THEN Field(QueryOf[f], server[QueryOf[f]], u, Unknown) ELSE Unknown
<1>1. next = 7
  BY OrderFacts DEF Shape, Routed
<1>2. Heard(next, queries, failed) = queries \ failed
  BY <1>1, PastFacts DEF Heard, Shape
<1> QED BY <1>2 DEF Gathering, Gathered

LEMMA UsePrimaryFInv == FInv /\ UsePrimary => FInv'
<1> SUFFICES ASSUME FInv, UsePrimary PROVE FInv'
  OBVIOUS
<1>0. Shape /\ Routed /\ Gathering
  BY DEF FInv
<1>1. /\ pc = "chain" /\ "PROMETHEUS" \in wired /\ seen # {}
      /\ source' = "PROMETHEUS" /\ pc' = "spec"
      /\ UNCHANGED <<queries, server, next, expired, failed>>
      /\ UNCHANGED <<seen, win, model, job>> /\ UNCHANGED <<wired, exporter, spec>>
  BY DEF UsePrimary, PrimaryAnswered, prom, windows, config
<1>2. Shape'
  BY <1>0, <1>1 DEF Shape
<1>3. Routed'
  BY <1>0, <1>1 DEF Routed
<1>4. AsReported'
  <2> SUFFICES ASSUME NEW u \in seen PROVE win[u] = Reported(u)'
    BY <1>1 DEF AsReported
  <2>1. u \in Uuids /\ IsWindow(win[u])
    BY <1>0 DEF Shape
  <2>2. ASSUME NEW f \in Fields PROVE win[u][f] = Reading(u, QueryOf[f])'
    BY <2>1, <1>0, <1>1, PrimaryReported DEF Reading, Answered
  <2>3. Reported(u)' = [f \in Fields |-> Reading(u, QueryOf[f])']
    BY DEF Reported
  <2> QED BY <2>1, <2>2, <2>3 DEF IsWindow
<1>5. Gathering' /\ AfterSpec' /\ AfterTable'
  BY <1>1 DEF Gathering, AfterSpec, AfterTable, Done
<1> QED BY <1>2, <1>3, <1>4, <1>5 DEF FInv

LEMMA UseFallbackFInv == FInv /\ UseFallback => FInv'
<1> SUFFICES ASSUME FInv, UseFallback PROVE FInv'
  OBVIOUS
<1>0. Shape /\ Routed
  BY DEF FInv
<1> DEFINE scraped(u) == [NoWindow EXCEPT !["tensor"] = exporter[u].tensor,
                                          !["ecc"] = exporter[u].ecc]
<1>1. /\ pc = "chain" /\ ~PrimaryAnswered
      /\ source' = "DCGM" /\ pc' = "spec"
      /\ UNCHANGED <<queries, server, next, expired, failed>>
      /\ UNCHANGED <<wired, exporter, spec>>
      /\ seen' = DOMAIN exporter
      /\ win' = [u \in Uuids |-> IF u \in DOMAIN exporter THEN scraped(u) ELSE NoWindow]
      /\ model' = [u \in Uuids |->
                     IF u \in DOMAIN exporter THEN exporter[u].model ELSE NoModel]
  BY DEF UseFallback, prom, config
<1>2. /\ DOMAIN exporter \subseteq Uuids
      /\ \A u \in DOMAIN exporter : exporter[u].model \in Spellings \cup {NoModel}
  BY <1>0, ExporterAssumption DEF Shape
<1>3. \A u : /\ IsWindow(scraped(u)) /\ IsWindow(NoWindow)
             /\ scraped(u)["tensor"] = exporter[u].tensor
             /\ scraped(u)["ecc"] = exporter[u].ecc
             /\ \A f \in Fields \ {"tensor", "ecc"} : scraped(u)[f] = Unknown
  BY DEF IsWindow, NoWindow, Fields
<1> HIDE DEF scraped
<1>4. Shape'
  <2>1. \A u \in Uuids : IsWindow(win'[u])
    BY <1>1, <1>3
  <2>2. \A u \in Uuids : model'[u] \in Spellings \cup {NoModel}
    BY <1>1, <1>2
  <2>3. win' = [u \in Uuids |-> win'[u]] /\ model' = [u \in Uuids |-> model'[u]]
    BY <1>1
  <2> QED BY <1>0, <1>1, <1>2, <2>1, <2>2, <2>3 DEF Shape
<1>5. NamedBy(Heard(next, queries, failed), server) = {}
  <2>1. seen = NamedBy(Heard(next, queries, failed), server)
    BY <1>0, <1>1 DEF Routed
  <2>2. CASE "PROMETHEUS" \in wired
    BY <2>1, <2>2, <1>1 DEF PrimaryAnswered
  <2>3. CASE "PROMETHEUS" \notin wired
    <3>1. next = 1
      BY <2>3, <1>0 DEF Routed
    <3> QED BY <3>1, PastFacts DEF Heard, NamedBy
  <2> QED BY <2>2, <2>3
<1>6. Routed'
  BY <1>0, <1>1, <1>5 DEF Routed
<1>7. AsReported'
  <2> SUFFICES ASSUME NEW u \in DOMAIN exporter PROVE win'[u] = Reported(u)'
    BY <1>1 DEF AsReported
  <2>1. win'[u] = scraped(u)
    BY <1>1, <1>2
  <2>2. ASSUME NEW f \in Fields PROVE scraped(u)[f] = Reading(u, QueryOf[f])'
    <3>1. \A q : Reading(u, q)' = IF q = "TensorActive" THEN exporter[u].tensor
                                  ELSE IF q = "ECCDoubleBit" THEN exporter[u].ecc
                                  ELSE Unknown
      BY <1>1 DEF Reading
    <3> QED BY <3>1, <1>3 DEF QueryOf, Fields
  <2>3. Reported(u)' = [f \in Fields |-> Reading(u, QueryOf[f])']
    BY DEF Reported
  <2> QED BY <2>1, <2>2, <2>3, <1>3 DEF IsWindow
<1>8. Gathering' /\ AfterSpec' /\ AfterTable'
  BY <1>1 DEF Gathering, AfterSpec, AfterTable, Done
<1> QED BY <1>4, <1>6, <1>7, <1>8 DEF FInv

LEMMA NothingFInv == FInv /\ NothingAnswered => FInv'
<1> SUFFICES ASSUME FInv, NothingAnswered PROVE FInv'
  OBVIOUS
<1>0. Shape /\ Routed
  BY DEF FInv
<1>1. /\ pc = "chain" /\ ~PrimaryAnswered
      /\ UNCHANGED <<queries, server, next, expired, failed>>
      /\ UNCHANGED <<seen, win, model, job>> /\ UNCHANGED <<wired, exporter, spec>>
      /\ IF "DCGM" \in wired \/ HardError
         THEN source' = "error" /\ pc' = "done"
         ELSE source' = "PROMETHEUS" /\ pc' = "spec"
  BY DEF NothingAnswered, prom, windows, config
<1>2. seen = {} /\ source = "none"
  <2>1. source = "none" /\ seen = NamedBy(Heard(next, queries, failed), server)
    BY <1>0, <1>1 DEF Routed
  <2>2. CASE "PROMETHEUS" \in wired
    BY <2>1, <2>2, <1>1 DEF PrimaryAnswered
  <2>3. CASE "PROMETHEUS" \notin wired
    <3>1. next = 1
      BY <2>3, <1>0 DEF Routed
    <3> QED BY <2>1, <3>1, PastFacts DEF Heard, NamedBy
  <2> QED BY <2>1, <2>2, <2>3
<1>3. Shape'
  BY <1>0, <1>1 DEF Shape
<1>4. Routed'
  BY <1>0, <1>1, <1>2 DEF Routed, HardError
<1>5. Gathering' /\ AsReported' /\ AfterSpec' /\ AfterTable'
  BY <1>1, <1>2 DEF Gathering, AsReported, AfterSpec, AfterTable, Done
<1> QED BY <1>3, <1>4, <1>5 DEF FInv

(* What a device is offered and what was reported of it stays.             *)
LEMMA Kept ==
    ASSUME UNCHANGED <<server, queries, failed, source, exporter, model, spec, wired>>
    PROVE  \A u : /\ Reported(u)' = Reported(u)
                  /\ lookup(u)' = lookup(u)
                  /\ TablePeak(u)' = TablePeak(u)
<1> TAKE u
<1>1. \A q : Reading(u, q)' = Reading(u, q)
  BY DEF Reading, Answered
<1>2. Reported(u)' = Reported(u)
  BY <1>1 DEF Reported
<1>3. lookup(u)' = lookup(u)
  <2>1. Candidates(u)' = Candidates(u)
    BY Zenon DEF Candidates, Alike
  <2> QED BY <2>1, Zenon DEF lookup
<1>4. TablePeak(u)' = TablePeak(u)
  BY DEF TablePeak
<1> QED BY <1>2, <1>3, <1>4

LEMMA SpecFilledFacts ==
    ASSUME NEW w, IsWindow(w), NEW e
    PROVE  IsWindow(SpecFilled(w, e))
  BY FillPeakFacts, FillCostFacts, Zenon DEF SpecFilled

(* Each device is given what the entry it found makes of its window.       *)
LEMMA SpecFillFInv ==
    ASSUME FInv, NEW entry, \A u \in Uuids : entry[u] \in lookup(u), SpecFill(entry)
    PROVE  FInv'
<1>0. Shape /\ Routed /\ AsReported
  BY DEF FInv
<1>1. /\ pc = "spec" /\ pc' = "table"
      /\ UNCHANGED <<queries, server, next, expired, failed>>
      /\ UNCHANGED <<wired, exporter, spec>> /\ seen' = seen /\ model' = model /\ source' = source
      /\ win' = [u \in Uuids |-> IF u \in seen THEN SpecFilled(win[u], entry[u]) ELSE win[u]]
      /\ filledBySpec' = Touched
      /\ stamps' = {s \in DOMAIN StampedFor : Changed(StampedFor[s]) # {}}
  BY Zenon DEF SpecFill, prom, config, SpecFilled
<1>2. \A u : /\ Reported(u)' = Reported(u) /\ lookup(u)' = lookup(u)
  BY <1>1, Kept
<1>3. \A u \in seen : u \in Uuids /\ win[u] = Reported(u) /\ win'[u] = SpecFilled(Reported(u), entry[u])
  BY <1>0, <1>1 DEF Shape, AsReported
<1>4. Shape'
  <2>1. \A u \in Uuids : IsWindow(win'[u])
    BY <1>0, <1>1, SpecFilledFacts DEF Shape
  <2>2. win' = [u \in Uuids |-> win'[u]]
    BY <1>1
  <2> QED BY <1>0, <1>1, <2>1, <2>2 DEF Shape
<1>5. Routed'
  BY <1>0, <1>1 DEF Routed
<1>6. AfterSpec'
  <2>1. \A u \in seen : \E e \in lookup(u) : win'[u] = SpecFilled(Reported(u), e)
    BY <1>3
  <2>2. \A f : Changed(f) = {u \in seen : win'[u][f] # Reported(u)[f]}
    BY <1>3 DEF Changed
  <2>3. filledBySpec' = {u \in seen : Touches(win'[u], Reported(u))}
    BY <1>1, <2>2 DEF Touched, Touches
  <2>4. /\ DOMAIN StampedFor = {"peak=static-spec", "cost=static-spec", "achieved=spec-peak"}
        /\ StampedFor["peak=static-spec"] = "peak" /\ StampedFor["cost=static-spec"] = "cost"
        /\ StampedFor["achieved=spec-peak"] = "achieved"
    BY DEF StampedFor
  <2>5. /\ "peak=static-spec" \in stamps' <=> Changed("peak") # {}
        /\ "cost=static-spec" \in stamps' <=> Changed("cost") # {}
        /\ "achieved=spec-peak" \in stamps' <=> Changed("achieved") # {}
        /\ "peak=builtin-table" \notin stamps' /\ "achieved=table-peak" \notin stamps'
    BY <1>1, <2>4
  <2>6. /\ "peak=static-spec" \in stamps' <=>
                \E u \in seen : win'[u]["peak"] # Reported(u)["peak"]
        /\ "cost=static-spec" \in stamps' <=>
                \E u \in seen : win'[u]["cost"] # Reported(u)["cost"]
        /\ "achieved=spec-peak" \in stamps' <=>
                \E u \in seen : win'[u]["achieved"] # Reported(u)["achieved"]
    BY <2>2, <2>5
  <2> QED BY <1>1, <1>2, <2>1, <2>3, <2>5, <2>6 DEF AfterSpec
<1>7. Gathering' /\ AsReported' /\ AfterTable'
  BY <1>1 DEF Gathering, AsReported, AfterTable, Done
<1> QED BY <1>4, <1>5, <1>6, <1>7 DEF FInv

(* A window r, filled by the spec to w and by the table to t: where the    *)
(* table adds a peak the spec added none, and where it adds none it        *)
(* changes nothing.                                                        *)
OnceFilled(r, w, t) ==
    /\ t["peak"] # w["peak"] =>
         w["peak"] = r["peak"] /\ w["achieved"] = r["achieved"]
    /\ t["peak"] = w["peak"] => t["achieved"] = w["achieved"]

LEMMA FilledOnce ==
    ASSUME NEW r, IsWindow(r), NEW e, IsEntry(e), NEW p \in Int
    PROVE  OnceFilled(r, SpecFilled(r, e), FillPeak(SpecFilled(r, e), p))
<1> DEFINE P == FillPeak(r, e.peak)
           W == FillCost(P, e.cost)
           T == FillPeak(W, p)
<1>1. SpecFilled(r, e) = W
  BY DEF SpecFilled
<1>2. /\ IsWindow(P)
      /\ P["peak"] = IF e.peak > 0 /\ r["peak"] = Unknown THEN e.peak ELSE r["peak"]
      /\ P["achieved"] = IF (e.peak > 0 /\ r["peak"] = Unknown) /\ r["tensor"] # Unknown
                              /\ r["achieved"] = Unknown
                         THEN r["tensor"] * e.peak ELSE r["achieved"]
  BY FillPeakFacts, Zenon
<1> HIDE DEF P
<1>3. IsWindow(W) /\ W["peak"] = P["peak"] /\ W["achieved"] = P["achieved"]
  BY <1>2, FillCostFacts, Zenon
<1> HIDE DEF W
<1> DEFINE adds == p > 0 /\ W["peak"] = Unknown
<1>4. /\ T["peak"] = IF adds THEN p ELSE W["peak"]
      /\ ~adds => T["achieved"] = W["achieved"]
  BY <1>3, FillPeakFacts, Zenon
<1> HIDE DEF T
<1>5. e.peak > 0 => e.peak # Unknown
  BY DEF IsEntry, Unknown
<1>6. p > 0 => p # Unknown
  BY DEF Unknown
<1> QED BY <1>1, <1>2, <1>3, <1>4, <1>5, <1>6 DEF OnceFilled, T

(* The table fills the peaks that are still missing.                       *)
LEMMA TableFillFInv == FInv /\ TableFill => FInv'
<1> SUFFICES ASSUME FInv, TableFill PROVE FInv'
  OBVIOUS
<1>0. Shape /\ Routed /\ AfterSpec
  BY DEF FInv
<1>1. /\ pc = "table" /\ pc' = "done"
      /\ UNCHANGED <<queries, server, next, expired, failed>>
      /\ UNCHANGED <<wired, exporter, spec>> /\ seen' = seen /\ model' = model /\ source' = source
      /\ win' = [u \in Uuids |-> IF u \in seen THEN FillPeak(win[u], TablePeak(u)) ELSE win[u]]
      /\ filledByTable' = Changed("peak") /\ filledBySpec' = filledBySpec
      /\ "peak=static-spec" \in stamps' <=> "peak=static-spec" \in stamps
      /\ "cost=static-spec" \in stamps' <=> "cost=static-spec" \in stamps
      /\ "peak=builtin-table" \notin stamps =>
           ("peak=builtin-table" \in stamps' <=> Changed("peak") # {})
      /\ "achieved=table-peak" \notin stamps =>
           ("achieved=table-peak" \in stamps' <=> Changed("achieved") # {})
      /\ "achieved=spec-peak" \in stamps' <=>
           "achieved=spec-peak" \in stamps /\ Changed("achieved") = {}
  <2> HIDE DEF Changed, FillPeak, TablePeak
  <2> QED BY DEF TableFill, prom, config
<1>2. \A u : /\ Reported(u)' = Reported(u) /\ lookup(u)' = lookup(u)
             /\ TablePeak(u)' = TablePeak(u)
  BY <1>1, Kept
<1>3. \A u \in seen : u \in Uuids /\ IsWindow(win[u]) /\ win'[u] = FillPeak(win[u], TablePeak(u))
  BY <1>0, <1>1 DEF Shape
<1>4. \A u \in seen : IsWindow(win'[u]) /\ win'[u]["cost"] = win[u]["cost"]
  BY <1>3, FillPeakFacts
<1>5. Shape'
  <2>1. \A u \in Uuids : IsWindow(win'[u])
    BY <1>0, <1>1, <1>4 DEF Shape
  <2>2. win' = [u \in Uuids |-> win'[u]]
    BY <1>1
  <2> QED BY <1>0, <1>1, <2>1, <2>2 DEF Shape
<1>6. Routed'
  BY <1>0, <1>1 DEF Routed
<1>7. AfterTable'
  <2>1. /\ \A u \in seen : \E e \in lookup(u) : win[u] = SpecFilled(Reported(u), e)
        /\ filledBySpec = {u \in seen : Touches(win[u], Reported(u))}
        /\ "peak=static-spec" \in stamps <=>
              \E u \in seen : win[u]["peak"] # Reported(u)["peak"]
        /\ "cost=static-spec" \in stamps <=>
              \E u \in seen : win[u]["cost"] # Reported(u)["cost"]
        /\ "achieved=spec-peak" \in stamps <=>
              \E u \in seen : win[u]["achieved"] # Reported(u)["achieved"]
        /\ "peak=builtin-table" \notin stamps /\ "achieved=table-peak" \notin stamps
    BY <1>0, <1>1 DEF AfterSpec
  <2>2. ASSUME NEW u \in seen PROVE Through(u)'
    <3>1. PICK e \in lookup(u) : win[u] = SpecFilled(Reported(u), e)
      BY <2>1
    <3>2. win'[u] = TableFilled(Reported(u), e, TablePeak(u))
      BY <3>1, <1>3 DEF TableFilled
    <3>3. u \in filledBySpec <=> Touches(SpecFilled(Reported(u), e), Reported(u))
      BY <2>1, <3>1
    <3>4. u \in Changed("peak") <=> win'[u]["peak"] # SpecFilled(Reported(u), e)["peak"]
      BY <3>1 DEF Changed
    <3> QED BY <3>2, <3>3, <3>4, <1>1, <1>2 DEF Through
  <2>3. Changed("peak") \subseteq seen /\ filledBySpec \subseteq seen
    BY <2>1 DEF Changed
  <2>4. ASSUME NEW u \in seen
        PROVE  /\ u \in Changed("peak") => /\ win[u]["peak"] = Reported(u)["peak"]
                                           /\ win[u]["achieved"] = Reported(u)["achieved"]
               /\ u \in Changed("peak") => win'[u]["peak"] # Reported(u)["peak"]
               /\ u \notin Changed("peak") => /\ win'[u]["peak"] = win[u]["peak"]
                                              /\ win'[u]["achieved"] = win[u]["achieved"]
    <3>1. PICK e \in lookup(u) : win[u] = SpecFilled(Reported(u), e)
      BY <2>1
    <3>2. u \in Uuids /\ IsEntry(e) /\ TablePeak(u) \in Int /\ IsWindow(Reported(u))
      BY <1>0, <1>3, LookupFacts, TablePeakFacts DEF IsWindow, Reported
    <3>3. OnceFilled(Reported(u), win[u], win'[u])
      BY <3>1, <3>2, <1>3, FilledOnce
    <3> QED BY <3>3, <1>3 DEF OnceFilled, Changed
  <2>5. /\ Completed("peak")' \ Changed("peak") = Completed("peak")
        /\ Completed("cost")' = Completed("cost")
        /\ Completed("achieved")' \cap Changed("peak") = Changed("achieved")
        /\ Completed("achieved")' = Completed("achieved") \cup Changed("achieved")
    <3>1. \A f : Completed(f)' = {u \in seen : win'[u][f] # Reported(u)[f]}
      BY <1>1, <1>2 DEF Completed
    <3>2. \A f : Completed(f) = {u \in seen : win[u][f] # Reported(u)[f]}
      BY DEF Completed
    <3>3. Changed("achieved") = {u \in seen : win'[u]["achieved"] # win[u]["achieved"]}
      BY DEF Changed
    <3>4. \A u \in seen : win'[u]["cost"] = win[u]["cost"]
      BY <1>4
    <3> QED BY <2>3, <2>4, <3>1, <3>2, <3>3, <3>4
  <2>6. Stamped'
    <3>1. /\ "peak=static-spec" \in stamps <=> Completed("peak") # {}
          /\ "cost=static-spec" \in stamps <=> Completed("cost") # {}
          /\ "achieved=spec-peak" \in stamps <=> Completed("achieved") # {}
      BY <2>1 DEF Completed
    <3> QED BY <2>1, <2>5, <3>1, <1>1 DEF Stamped
  <2> QED BY <2>2, <2>3, <2>6, <1>1 DEF AfterTable
<1>8. Gathering' /\ AsReported' /\ AfterSpec'
  BY <1>1 DEF Gathering, AsReported, AfterSpec
<1> QED BY <1>5, <1>6, <1>7, <1>8 DEF FInv

LEMMA StutterFInv == FInv /\ UNCHANGED vars => FInv'
<1> SUFFICES ASSUME FInv, UNCHANGED vars PROVE FInv'
  OBVIOUS
<1>1. UNCHANGED <<server, queries, failed, source, exporter, model, spec, wired, next, pc,
                  seen, win, stamps, filledBySpec, filledByTable>>
  BY DEF vars, prom, windows, config, provenance
<1>2. \A u : /\ Reported(u)' = Reported(u) /\ lookup(u)' = lookup(u)
             /\ TablePeak(u)' = TablePeak(u)
  BY <1>1, Kept
<1>3. \A u : Through(u)' = Through(u)
  BY <1>1, <1>2 DEF Through
<1>4. Shape' /\ Routed' /\ Gathering'
  BY <1>1 DEF FInv, Shape, Routed, Gathering
<1>5. AsReported' /\ AfterSpec'
  BY <1>1, <1>2 DEF FInv, AsReported, AfterSpec
<1>6. AfterTable'
  <2>1. Stamped' = Stamped
    BY <1>1, <1>2 DEF Stamped, Completed
  <2> QED BY <2>1, <1>1, <1>3 DEF FInv, AfterTable, Done
<1> QED BY <1>4, <1>5, <1>6 DEF FInv

(* The invariant holds throughout a Collect.                               *)
THEOREM CollectInvariant == Spec => []FInv
<1>1. ASSUME FInv, [Next]_vars PROVE FInv'
  <2>1. CASE AskPrometheus
    BY <2>1, <1>1, AskFInv
  <2>2. CASE UsePrimary
    BY <2>2, <1>1, UsePrimaryFInv
  <2>3. CASE UseFallback
    BY <2>3, <1>1, UseFallbackFInv
  <2>4. CASE NothingAnswered
    BY <2>4, <1>1, NothingFInv
  <2>5. ASSUME NEW entry, \A u \in Uuids : entry[u] \in lookup(u), SpecFill(entry)
        PROVE  FInv'
    BY <2>5, <1>1, SpecFillFInv
  <2>6. CASE TableFill
    BY <2>6, <1>1, TableFillFInv
  <2>7. CASE UNCHANGED vars
    BY <2>7, <1>1, StutterFInv
  <2> QED BY <1>1, <2>1, <2>2, <2>3, <2>4, <2>5, <2>6, <2>7 DEF Next
<1> QED BY <1>1, InitFInv, PTL DEF Spec

-----------------------------------------------------------------------------
(* What follows.                                                           *)

(* What an entry e and then a peak t make of the window w: S, and then T.  *)
Composed(w, e, t, S, T) ==
    LET bySpec == e.peak > 0 /\ w["peak"] = Unknown
        byTable == t > 0 /\ ~(e.peak > 0) /\ w["peak"] = Unknown
        derives == w["tensor"] # Unknown /\ w["achieved"] = Unknown
    IN  /\ S["peak"] = IF bySpec THEN e.peak ELSE w["peak"]
        /\ S["cost"] = IF e.cost > 0 /\ w["cost"] = Unknown THEN e.cost ELSE w["cost"]
        /\ T["peak"] = IF byTable THEN t ELSE S["peak"]
        /\ T["cost"] = S["cost"] /\ T["ecc"] = w["ecc"]
        /\ T["achieved"] = IF derives /\ (bySpec \/ byTable)
                           THEN w["tensor"] * T["peak"] ELSE w["achieved"]

LEMMA TableFilledFacts ==
    ASSUME NEW w, IsWindow(w), NEW e, IsEntry(e), NEW t \in Int
    PROVE  Composed(w, e, t, SpecFilled(w, e), TableFilled(w, e, t))
<1> DEFINE P == FillPeak(w, e.peak)
           S == FillCost(P, e.cost)
           T == FillPeak(S, t)
           bySpec == e.peak > 0 /\ w["peak"] = Unknown
           derives == w["tensor"] # Unknown /\ w["achieved"] = Unknown
<1>1. SpecFilled(w, e) = S /\ TableFilled(w, e, t) = T
  BY DEF SpecFilled, TableFilled
<1>2. /\ IsWindow(P)
      /\ P["peak"] = IF bySpec THEN e.peak ELSE w["peak"]
      /\ P["achieved"] = IF bySpec /\ w["tensor"] # Unknown /\ w["achieved"] = Unknown
                         THEN w["tensor"] * e.peak ELSE w["achieved"]
      /\ P["cost"] = w["cost"] /\ P["tensor"] = w["tensor"] /\ P["ecc"] = w["ecc"]
  BY FillPeakFacts, Zenon
<1> HIDE DEF P
<1>3. /\ IsWindow(S)
      /\ S["cost"] = IF e.cost > 0 /\ P["cost"] = Unknown THEN e.cost ELSE P["cost"]
      /\ S["peak"] = P["peak"] /\ S["tensor"] = P["tensor"]
      /\ S["ecc"] = P["ecc"] /\ S["achieved"] = P["achieved"]
  BY <1>2, FillCostFacts, Zenon
<1> HIDE DEF S
<1>4. /\ T["peak"] = IF t > 0 /\ S["peak"] = Unknown THEN t ELSE S["peak"]
      /\ T["achieved"] = IF (t > 0 /\ S["peak"] = Unknown) /\ S["tensor"] # Unknown
                              /\ S["achieved"] = Unknown
                         THEN S["tensor"] * t ELSE S["achieved"]
      /\ T["cost"] = S["cost"] /\ T["ecc"] = S["ecc"]
  BY <1>3, FillPeakFacts, Zenon
<1> HIDE DEF T
<1>5. e.peak > 0 => e.peak # Unknown
  BY DEF IsEntry, Unknown
<1>6. CASE bySpec
  <2>1. S["peak"] = e.peak /\ S["peak"] # Unknown
    BY <1>2, <1>3, <1>5, <1>6
  <2>2. T["peak"] = e.peak /\ T["achieved"] = P["achieved"]
    BY <2>1, <1>3, <1>4
  <2> QED BY <1>1, <1>2, <1>3, <1>4, <1>6, <2>1, <2>2 DEF Composed
<1>7. CASE ~bySpec
  <2>1. S["peak"] = w["peak"] /\ S["achieved"] = w["achieved"] /\ S["tensor"] = w["tensor"]
    BY <1>2, <1>3, <1>7
  <2> QED BY <1>1, <1>2, <1>3, <1>4, <1>7, <2>1 DEF Composed
<1> QED BY <1>6, <1>7

(* The two collectors are through with every device of an observation:     *)
(* its window is its own readings, an entry promised to it and a peak of   *)
(* the table, put together.                                                *)
LEMMA DoneFacts ==
    ASSUME FInv, Done, NEW u \in seen
    PROVE  \E e \in PromisedEntries(u) :
             LET w == Reported(u)
                 S == SpecFilled(w, e)
             IN  /\ IsEntry(e) /\ TablePeak(u) \in Int
                 /\ Composed(w, e, TablePeak(u), S, win[u])
                 /\ u \in filledBySpec <=> Touches(S, w)
                 /\ u \in filledByTable <=> win[u]["peak"] # S["peak"]
<1>1. u \in Uuids
  BY DEF FInv, Shape
<1>2. PICK e \in lookup(u) :
        /\ win[u] = TableFilled(Reported(u), e, TablePeak(u))
        /\ u \in filledBySpec <=> Touches(SpecFilled(Reported(u), e), Reported(u))
        /\ u \in filledByTable <=> win[u]["peak"] # SpecFilled(Reported(u), e)["peak"]
  <2>1. Through(u)
    BY DEF FInv, AfterTable
  <2> QED BY <2>1, Zenon DEF Through
<1>3. e \in PromisedEntries(u) /\ IsEntry(e)
  BY <1>1, LookupFacts DEF FInv
<1>4. IsWindow(Reported(u))
  BY DEF Reported, IsWindow
<1>5. TablePeak(u) \in Int
  BY TablePeakFacts
<1>6. Composed(Reported(u), e, TablePeak(u), SpecFilled(Reported(u), e), win[u])
  BY <1>2, <1>3, <1>4, <1>5, TableFilledFacts, Zenon
<1> QED BY <1>2, <1>3, <1>5, <1>6, Zenon

(* The fields of what was reported of a device are its readings.           *)
LEMMA ReportedFacts ==
    ASSUME NEW u
    PROVE  /\ Reported(u)["peak"] = Reading(u, "PeakFLOPS")
           /\ Reported(u)["cost"] = Reading(u, "CostPerHour")
           /\ Reported(u)["achieved"] = Reading(u, "AchievedFLOPs")
           /\ Reported(u)["tensor"] = Reading(u, "TensorActive")
           /\ Reported(u)["ecc"] = Reading(u, "ECCDoubleBit")
  BY DEF Reported, QueryOf, Fields

(* A query that fails costs its own field only: every device any answer    *)
(* named is in the observation, and Prometheus is given up only when none  *)
(* named one.                                                              *)
THEOREM FailuresStayLocal == Spec => []PartialAnswerKept
<1>1. ASSUME FInv PROVE PartialAnswerKept
  <2> SUFFICES ASSUME pc = "done", "PROMETHEUS" \in wired
               PROVE  /\ DevicesAnswered # {} => source = "PROMETHEUS" /\ seen = DevicesAnswered
                      /\ source = "PROMETHEUS" /\ seen = {} => failed = {}
                      /\ source = "error" => failed # {} \/ "DCGM" \in wired
    BY DEF PartialAnswerKept
  <2>1. Shape /\ Routed
    BY <1>1 DEF FInv
  <2>2. next = 7
    BY <2>1, OrderFacts DEF Shape, Routed
  <2>3. Heard(next, queries, failed) = Answered
    BY <2>1, <2>2, PastFacts DEF Heard, Shape, Answered
  <2>4. DevicesAnswered = NamedBy(Heard(next, queries, failed), server)
    BY <2>3 DEF DevicesAnswered, NamedBy
  <2> QED BY <2>1, <2>4 DEF Routed
<1> QED BY <1>1, CollectInvariant, PTL

(* FLOPs nobody measured are the tensor time that was measured times the   *)
(* peak that was filled, and are there whenever that can be.               *)
THEOREM DerivedFlopsAreHonest == Spec => []DerivedHonestly
<1>1. ASSUME FInv PROVE DerivedHonestly
  <2> SUFFICES ASSUME Done, NEW u \in seen
               PROVE  LET own == Reading(u, "AchievedFLOPs")
                          tensor == Reading(u, "TensorActive")
                          filled == Reading(u, "PeakFLOPS") = Unknown /\ win[u]["peak"] # Unknown
                      IN  win[u]["achieved"] =
                            IF own # Unknown THEN own
                            ELSE IF tensor # Unknown /\ filled THEN tensor * win[u]["peak"]
                            ELSE Unknown
    BY Zenon DEF DerivedHonestly
  <2> DEFINE w == Reported(u)
             t == TablePeak(u)
  <2>1. PICK e \in PromisedEntries(u) :
          IsEntry(e) /\ t \in Int /\ Composed(w, e, t, SpecFilled(w, e), win[u])
    BY <1>1, DoneFacts, Zenon
  <2>2. /\ w["peak"] = Reading(u, "PeakFLOPS")
        /\ w["achieved"] = Reading(u, "AchievedFLOPs")
        /\ w["tensor"] = Reading(u, "TensorActive")
    BY ReportedFacts
  <2> DEFINE S == SpecFilled(w, e)
             derived == w["tensor"] * win[u]["peak"]
             hasPeak == e.peak > 0
             onSheet == t > 0
  <2> HIDE DEF w, t, S
  <2>3. /\ S["peak"] = IF hasPeak /\ w["peak"] = Unknown THEN e.peak ELSE w["peak"]
        /\ win[u]["peak"] = IF onSheet /\ ~hasPeak /\ w["peak"] = Unknown
                            THEN t ELSE S["peak"]
        /\ win[u]["achieved"] =
             IF /\ w["tensor"] # Unknown /\ w["achieved"] = Unknown
                /\ \/ hasPeak /\ w["peak"] = Unknown
                   \/ onSheet /\ ~hasPeak /\ w["peak"] = Unknown
             THEN derived ELSE w["achieved"]
    <3>1. Composed(w, e, t, S, win[u])
      BY <2>1 DEF S
    <3> QED BY ONLY <3>1 DEF Composed
  <2>4. /\ hasPeak => e.peak # Unknown
        /\ onSheet => t # Unknown
    BY <2>1 DEF IsEntry, Unknown
  <2> HIDE DEF derived, hasPeak, onSheet
  <2>5. win[u]["achieved"] =
          IF w["achieved"] # Unknown THEN w["achieved"]
          ELSE IF w["tensor"] # Unknown /\ w["peak"] = Unknown /\ win[u]["peak"] # Unknown
          THEN derived ELSE Unknown
    BY <2>3, <2>4
  <2> QED BY <2>2, <2>5 DEF derived
<1> QED BY <1>1, CollectInvariant, PTL

(* A device is in the list of the collector that filled its peak or price  *)
(* and in no other; a stamp is there exactly if a number of its kind was   *)
(* filled, that of derived FLOPs with the table before the spec.           *)
THEOREM EveryFillIsListed == Spec => []FillsAreListed
<1>1. ASSUME FInv PROVE FillsAreListed
  <2> SUFFICES ASSUME Done PROVE FillsAreListed
    BY DEF FillsAreListed
  <2> DEFINE peaks == {u \in seen : Reading(u, "PeakFLOPS") = Unknown /\ win[u]["peak"] # Unknown}
             costs == {u \in seen : Reading(u, "CostPerHour") = Unknown /\ win[u]["cost"] # Unknown}
             derived == {u \in seen : Reading(u, "AchievedFLOPs") = Unknown
                                        /\ win[u]["achieved"] # Unknown}
  <2>1. ASSUME NEW u \in seen
        PROVE  /\ u \in filledByTable => u \in peaks
               /\ u \in filledBySpec <=> (u \in peaks /\ u \notin filledByTable) \/ u \in costs
               /\ \E e \in PromisedEntries(u) :
                    /\ u \in peaks /\ u \notin filledByTable => win[u]["peak"] = e.peak
                    /\ u \in filledByTable => win[u]["peak"] = TablePeak(u) /\ ~(e.peak > 0)
               /\ win[u]["peak"] # Reported(u)["peak"] <=> u \in peaks
               /\ win[u]["cost"] # Reported(u)["cost"] <=> u \in costs
               /\ win[u]["achieved"] # Reported(u)["achieved"] <=> u \in derived
    <3> DEFINE w == Reported(u)
               t == TablePeak(u)
    <3>1. PICK e \in PromisedEntries(u) :
            /\ IsEntry(e) /\ t \in Int
            /\ Composed(w, e, t, SpecFilled(w, e), win[u])
            /\ u \in filledBySpec <=> Touches(SpecFilled(w, e), w)
            /\ u \in filledByTable <=> win[u]["peak"] # SpecFilled(w, e)["peak"]
      BY <1>1, DoneFacts, Zenon
    <3>2. /\ w["peak"] = Reading(u, "PeakFLOPS")
          /\ w["cost"] = Reading(u, "CostPerHour")
          /\ w["achieved"] = Reading(u, "AchievedFLOPs")
      BY ReportedFacts
    <3> DEFINE S == SpecFilled(w, e)
               product == w["tensor"] * win[u]["peak"]
               derives == /\ w["tensor"] # Unknown /\ w["achieved"] = Unknown
                          /\ \/ e.peak > 0 /\ w["peak"] = Unknown
                             \/ t > 0 /\ ~(e.peak > 0) /\ w["peak"] = Unknown
    <3> HIDE DEF w, t, S
    <3>3. /\ S["peak"] = IF e.peak > 0 /\ w["peak"] = Unknown THEN e.peak ELSE w["peak"]
          /\ S["cost"] = IF e.cost > 0 /\ w["cost"] = Unknown THEN e.cost ELSE w["cost"]
          /\ win[u]["peak"] = IF t > 0 /\ ~(e.peak > 0) /\ w["peak"] = Unknown
                              THEN t ELSE S["peak"]
          /\ win[u]["cost"] = S["cost"]
      BY <3>1, Zenon DEF Composed, S
    <3>4. win[u]["achieved"] = IF derives THEN product ELSE w["achieved"]
      <4>1. Composed(w, e, t, S, win[u])
        BY <3>1 DEF S
      <4> QED BY ONLY <4>1 DEF Composed
    <3> HIDE DEF product
    <3>5. /\ e.peak > 0 => e.peak # Unknown
          /\ e.cost > 0 => e.cost # Unknown
          /\ t > 0 => t # Unknown
      BY <3>1 DEF IsEntry, Unknown
    <3>6. /\ u \in filledBySpec <=> S["peak"] # w["peak"] \/ S["cost"] # w["cost"]
          /\ u \in filledByTable <=> win[u]["peak"] # S["peak"]
      BY <3>1 DEF Touches, S
    <3>7. /\ u \in peaks <=> w["peak"] = Unknown /\ win[u]["peak"] # Unknown
          /\ u \in costs <=> w["cost"] = Unknown /\ win[u]["cost"] # Unknown
          /\ u \in derived <=> w["achieved"] = Unknown /\ win[u]["achieved"] # Unknown
      BY <3>2
    <3> HIDE DEF peaks, costs, derived
    <3>8. /\ u \in filledByTable => u \in peaks
          /\ u \in filledBySpec <=> (u \in peaks /\ u \notin filledByTable) \/ u \in costs
          /\ u \in peaks /\ u \notin filledByTable => win[u]["peak"] = e.peak
          /\ u \in filledByTable => win[u]["peak"] = t /\ ~(e.peak > 0)
          /\ win[u]["peak"] # w["peak"] <=> u \in peaks
          /\ win[u]["cost"] # w["cost"] <=> u \in costs
      BY ONLY <3>3, <3>5, <3>6, <3>7
    <3>9. win[u]["achieved"] # w["achieved"] <=> u \in derived
      BY ONLY <3>4, <3>7
    <3> QED BY <3>1, <3>8, <3>9 DEF w, t
  <2>2. filledBySpec \subseteq seen /\ filledByTable \subseteq seen /\ Stamped
    BY <1>1 DEF FInv, AfterTable
  <2>3. peaks \subseteq seen /\ costs \subseteq seen /\ derived \subseteq seen
    OBVIOUS
  <2> HIDE DEF peaks, costs, derived
  <2>4. /\ Completed("peak") = peaks /\ Completed("cost") = costs
        /\ Completed("achieved") = derived
    BY <2>1, <2>3 DEF Completed
  <2> DEFINE peaksBySpec == peaks \ filledByTable
  <2>5. filledByTable \subseteq peaks /\ filledBySpec = peaksBySpec \cup costs
    BY <2>1, <2>2, <2>3
  <2>6. /\ \A u \in peaksBySpec : \E e \in PromisedEntries(u) : win[u]["peak"] = e.peak
        /\ \A u \in filledByTable :
             win[u]["peak"] = TablePeak(u) /\ \E e \in PromisedEntries(u) : ~(e.peak > 0)
    BY <2>1, <2>2, <2>3
  <2>7. /\ "peak=static-spec" \in stamps <=> peaksBySpec # {}
        /\ "cost=static-spec" \in stamps <=> costs # {}
        /\ "peak=builtin-table" \in stamps <=> filledByTable # {}
        /\ "achieved=table-peak" \in stamps <=> derived \cap filledByTable # {}
        /\ "achieved=spec-peak" \in stamps <=>
             derived # {} /\ derived \cap filledByTable = {}
    BY <2>2, <2>4 DEF Stamped
  <2> QED BY <2>5, <2>6, <2>7, Zenon DEF FillsAreListed, peaks, costs, derived
<1> QED BY <1>1, CollectInvariant, PTL

(* The datasheets the table was built from agree with it on every name a   *)
(* label may hold.                                                         *)
TableIsRight == \A m \in Spellings : matchModelPeak(normModel[m]) = Datasheet[m]

(* An entry promised to a device gives a number if any entry of its does.  *)
LEMMA PromisedFacts ==
    ASSUME NEW u, NEW e \in PromisedEntries(u), NEW d \in EntriesOf(u)
    PROVE  ~empty(e)
<1> DEFINE own == Entries(spec.byUUID, {u})
           named == Entries(spec.byModel, Alike(model[u]))
           rest == Entries(spec.byModel, {Wildcard})
<1>1. \A x \in own \cup named \cup rest : ~empty(x)
  BY DEF Entries
<1>2. d \in own \cup named \cup rest
  BY DEF EntriesOf, Entries
<1>3. e \in IF own # {} THEN own ELSE IF named # {} THEN named
             ELSE IF rest # {} THEN rest ELSE {NoEntry}
  BY DEF PromisedEntries
<1> HIDE DEF own, named, rest
<1> QED BY <1>1, <1>2, <1>3

(* A peak and a price are the device's own reading, else those of the one  *)
(* entry the spec has for it, else the datasheet's peak; and only an entry *)
(* that gives a number passes over what a less specific one gives.         *)
THEOREM SourcesTakePrecedence ==
    ASSUME TableIsRight
    PROVE  Spec => []FilledByPrecedence
<1>1. ASSUME FInv PROVE FilledByPrecedence
  <2> SUFFICES ASSUME Done, NEW u \in seen
               PROVE  \E e \in PromisedEntries(u) :
                        /\ win[u]["peak"] =
                             Preferred(Reading(u, "PeakFLOPS"), e.peak,
                                       Preferred(Unknown, DatasheetPeak(u), Unknown))
                        /\ win[u]["cost"] = Preferred(Reading(u, "CostPerHour"), e.cost, Unknown)
                        /\ \A d \in EntriesOf(u) : PassesOver(e, d) => ~empty(e)
    BY Zenon DEF FilledByPrecedence
  <2> DEFINE w == Reported(u)
             t == TablePeak(u)
  <2>1. PICK e \in PromisedEntries(u) :
          IsEntry(e) /\ t \in Int /\ Composed(w, e, t, SpecFilled(w, e), win[u])
    BY <1>1, DoneFacts, Zenon
  <2>2. /\ w["peak"] = Reading(u, "PeakFLOPS")
        /\ w["cost"] = Reading(u, "CostPerHour")
    BY ReportedFacts
  <2>3. t = DatasheetPeak(u)
    <3>1. u \in Uuids /\ model[u] \in Spellings \cup {NoModel}
      BY <1>1 DEF FInv, Shape
    <3> QED BY <3>1 DEF TableIsRight, TablePeak, DatasheetPeak
  <2> DEFINE S == SpecFilled(w, e)
  <2> HIDE DEF w, t, S
  <2>4. /\ S["peak"] = IF e.peak > 0 /\ w["peak"] = Unknown THEN e.peak ELSE w["peak"]
        /\ S["cost"] = IF e.cost > 0 /\ w["cost"] = Unknown THEN e.cost ELSE w["cost"]
        /\ win[u]["peak"] = IF t > 0 /\ ~(e.peak > 0) /\ w["peak"] = Unknown
                            THEN t ELSE S["peak"]
        /\ win[u]["cost"] = S["cost"]
    BY <2>1, Zenon DEF Composed, S
  <2>5. /\ win[u]["peak"] = Preferred(w["peak"], e.peak, Preferred(Unknown, t, Unknown))
        /\ win[u]["cost"] = Preferred(w["cost"], e.cost, Unknown)
    BY <2>4 DEF Preferred
  <2>6. \A d \in EntriesOf(u) : ~empty(e)
    BY <2>1, PromisedFacts
  <2> QED BY <2>1, <2>2, <2>3, <2>5, <2>6
<1> QED BY <1>1, CollectInvariant, PTL

(* Every configuration asks for the ECC counter.                           *)
EccIsAsked == \A s \in Settings : "ECCDoubleBit" \in wiredQueries(s)

Asked == "ECCDoubleBit" \in queries

(* The queries stay those of the configuration.                            *)
LEMMA AskedInvariant ==
    ASSUME EccIsAsked
    PROVE  Spec => []Asked
<1>1. Init => Asked
  BY DEF Init, PromInit, EccIsAsked, Asked
<1>2. ASSUME Asked, [Next]_vars PROVE Asked'
  BY <1>2 DEF Asked, Next, vars, prom, AskPrometheus, Query, Skip, Fail, Answer, UsePrimary,
              UseFallback, NothingAnswered, SpecFill, TableFill
<1> QED BY <1>1, <1>2, PTL DEF Spec

(* An increase of the ECC counter that Prometheus answers with is in the   *)
(* window of its device, rounded, when the configuration asks for it.      *)
THEOREM AskedEccIsReported ==
    ASSUME EccIsAsked
    PROVE  Spec => []EccIncreaseReported
<1>1. ASSUME FInv, Asked PROVE EccIncreaseReported
  <2> DEFINE E == "ECCDoubleBit"
             held == server["ECCDoubleBit"]
  <2> SUFFICES ASSUME Done, "PROMETHEUS" \in wired, source = "PROMETHEUS", E \notin failed,
                      NEW u \in Named(E, held)
               PROVE  LET tenths == {held[i].value : i \in Of(E, held, u)}
                      IN  IF \A t \in tenths : t < 5 THEN win[u]["ecc"] = Unknown
                          ELSE /\ win[u]["ecc"] >= 1
                               /\ \E t \in tenths : 10 * win[u]["ecc"] \in t - 4 .. t + 5
    BY Zenon DEF EccIncreaseReported
  <2>1. Shape /\ Routed
    BY <1>1 DEF FInv
  <2>2. E \in Answered /\ E \in Queries
    BY <1>1, <2>1 DEF Answered, Shape, Asked
  <2>3. u \in seen
    <3>1. next = 7
      BY <2>1, OrderFacts DEF Shape, Routed, Done
    <3>2. Heard(next, queries, failed) = Answered
      BY <2>1, <3>1, PastFacts DEF Heard, Shape, Answered
    <3> QED BY <3>2, <2>1, <2>2 DEF Routed, NamedBy
  <2>4. win[u]["ecc"] = Field(E, held, u, Unknown)
    <3>1. win[u]["ecc"] = Reported(u)["ecc"]
      BY <1>1, <2>3, DoneFacts DEF Composed
    <3> QED BY <3>1, <2>2, ReportedFacts DEF Reading
  <2> DEFINE of == Of(E, held, u)
             counted == Counted(E, held, u)
             whole(i) == (held[i].value + 5) \div 10
  <2>5. /\ Len(held) \in Nat /\ of \subseteq 1..Len(held)
        /\ \A i \in of : held[i].value \in Int
    BY <2>1, <2>2, AnswerAssumption DEF Of, Shape
  <2>6. \A i \in of : Converted(E, held[i].value) = whole(i)
    BY DEF Converted
  <2>7. counted = {i \in of : whole(i) >= 1}
    BY <2>6 DEF Counted
  <2>8. win[u]["ecc"] = IF counted = {} THEN Unknown ELSE whole(Max(counted))
    <3>1. counted # {} => Max(counted) \in of
      BY <2>5, <2>7, MaxFacts
    <3> QED BY <2>4, <2>6, <3>1 DEF Field
  <2> HIDE DEF of, counted
  <2>9. \A i \in of : whole(i) >= 1 <=> held[i].value >= 5
    BY <2>5
  <2> HIDE DEF whole
  <2>10. CASE \A i \in of : held[i].value < 5
    <3>1. \A i \in of : ~(held[i].value >= 5)
      BY <2>5, <2>10
    <3>2. counted = {}
      BY <2>7, <2>9, <3>1
    <3> QED BY <3>2, <2>8, <2>10 DEF of
  <2>11. CASE ~ \A i \in of : held[i].value < 5
    <3>1. counted # {}
      BY <2>5, <2>7, <2>9, <2>11
    <3>2. Max(counted) \in counted
      BY <3>1, <2>5, <2>7, MaxFacts
    <3> DEFINE m == Max(counted)
    <3> HIDE DEF m
    <3>3. m \in of /\ win[u]["ecc"] = whole(m) /\ whole(m) >= 1
      BY <3>1, <3>2, <2>7, <2>8 DEF m
    <3>4. 10 * whole(m) \in held[m].value - 4 .. held[m].value + 5
      <4> DEFINE v == held[m].value
      <4>1. v \in Int
        BY <3>3, <2>5
      <4> HIDE DEF v
      <4>2. 10 * ((v + 5) \div 10) \in v - 4 .. v + 5
        BY <4>1
      <4> QED BY <4>2 DEF v, whole
    <3> QED BY <3>3, <3>4, <2>11 DEF of
  <2> QED BY <2>10, <2>11
<1> QED BY <1>1, AskedInvariant, CollectInvariant, PTL
====
