------------------------------- MODULE MCFill ------------------------------
(***************************************************************************)
(* Fill for TLC: two devices, of a board with variants and of one nobody   *)
(* publishes a peak for; answers that name both, one, none or no device,   *)
(* twice the same one or without a number; specs that name a device by     *)
(* UUID, by two spellings of its model, or not at all.                     *)
(***************************************************************************)
EXTENDS Fill, TLC

MCUuids == {"g1", "g2"}

MCnormModel ==
    "NVIDIA H100 NVL" :> <<"h100", "nvl">> @@ "h100 nvl" :> <<"h100", "nvl">> @@
    "NVIDIA H100 PCIe 80GB" :> <<"h100", "pcie", "80gb">> @@
    "NVIDIA GB10" :> <<"gb10">> @@ "Tesla T4" :> <<"tesla", "t4">>
MCSpellings == DOMAIN MCnormModel
MCDatasheet ==
    "NVIDIA H100 NVL" :> 8350 @@ "h100 nvl" :> 8350 @@
    "NVIDIA H100 PCIe 80GB" :> 7560 @@ "NVIDIA GB10" :> 0 @@ "Tesla T4" :> 650

Sample(u, m, v) == [uuid |-> u, model |-> m, value |-> v, job |-> ""]
S1(v) == Sample("g1", "NVIDIA H100 NVL", v)
S2(v) == Sample("g2", "NVIDIA GB10", v)
Nobody(v) == Sample("", "Tesla T4", v)

MCServers ==
    [PeakFLOPS : {<<>>, <<S1(7), S1(8)>>, <<S2(7)>>},
     CostPerHour : {<<>>, <<S1(3), S2(0)>>},
     AchievedFLOPs : {<<>>, <<S1(5)>>},
     TensorActive : {<<>>, <<S2(2), Sample("g1", "", 2)>>, <<Nobody(1), S1(NotANumber)>>},
     ECCDoubleBit : {<<>>, <<S1(4), S2(16), S2(3)>>},
     JobOwner : {<<[S1(1) EXCEPT !.job = "train"], [S1(1) EXCEPT !.job = ""]>>}]

\* A configuration left empty, as in the tests; and those of cmd/agent/main.go,
\* whose flags name every expression but the ECC one.
MCSettings == {{}}
MainSettings == {overrideQueries(q) : q \in SUBSET (Queries \ {"ECCDoubleBit"})}
MCFlags == {NoEntry, [peak |-> 11, cost |-> 0]}
NoFile == [byUUID |-> <<>>, byModel |-> <<>>, flat |-> <<>>]
MCFiles ==
    { NoFile,
      [NoFile EXCEPT !.byUUID = "g1" :> [peak |-> 0, cost |-> 4],
                     !.byModel = "NVIDIA H100 NVL" :> [peak |-> 12, cost |-> 5]],
      [NoFile EXCEPT !.byModel = "h100 nvl" :> [peak |-> 13, cost |-> 6],
                     !.flat = "NVIDIA H100 NVL" :> NoEntry @@
                              "h100 nvl" :> [peak |-> 14, cost |-> -3]],
      [NoFile EXCEPT !.flat = "NVIDIA GB10" :> [peak |-> 15, cost |-> 7] @@
                              "*" :> [peak |-> 16, cost |-> 8]] }
MCWirings == {{"PROMETHEUS", "DCGM", "PeakTable"}, {"PROMETHEUS"}, {"DCGM", "PeakTable"}}
MCExposed ==
    { "g1" :> [model |-> "Tesla T4", tensor |-> 4, ecc |-> 0] @@
      "g2" :> [model |-> "NVIDIA H100 PCIe 80GB", tensor |-> Unknown, ecc |-> 1] }
=============================================================================
