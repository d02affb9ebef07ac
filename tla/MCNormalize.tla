----------------------------- MODULE MCNormalize ----------------------------
(***************************************************************************)
(* Normalize for TLC: one device that two metrics sources may describe and *)
(* one that only one of them sees, honest collectors of every source, and  *)
(* collectors that carry facts of sources they do not speak for.           *)
(***************************************************************************)
EXTENDS Normalize

MCUuids == {"g1", "g2"}

Obs(source) ==
    [source |-> source, windows |-> [u \in {} |-> NoWindow], measured |-> {},
     xids |-> {}, nccl |-> {}, timeline |-> {}, jobs |-> [u \in {} |-> ""]]

MCWindow(u, fields) == [v \in {u} |-> [f \in Fields |->
                            IF f \in DOMAIN fields THEN fields[f] ELSE Unknown]]

MCXids(xid) == {[xid |-> xid, dev |-> "g1"]}
MCTimeout == {[kind |-> "OP_TIMEOUT", scope |-> "comm"],
              [kind |-> "OP_COMPLETED", scope |-> "other"]}
MCLost(source) == {[source |-> source, id |-> <<"device.lost", "bus">>]}

MCDcgm(fields) == [Obs("DCGM") EXCEPT !.windows = MCWindow("g1", fields),
                                      !.measured = {"g1"}]
MCProm(u, fields, job) ==
    [Obs("PROMETHEUS") EXCEPT !.windows = MCWindow(u, fields),
                              !.jobs = [v \in {u} |-> job]]

MCObservations ==
    { \* metrics: a counter at 0, one that went up, peaks and rates
      MCDcgm([ecc |-> 0, link |-> 1]), MCDcgm([ecc |-> 1, link |-> 0, tensor |-> 1]),
      MCDcgm([achieved |-> 1]),
      MCProm("g1", [ecc |-> 0, peak |-> 1, cost |-> 2], "job1"),
      MCProm("g1", [ecc |-> 1, peak |-> 2, achieved |-> 2], ""),
      MCProm("g2", [cost |-> 1], "job2"),
      \* logs
      [Obs("DMESG_XID") EXCEPT !.xids = MCXids(79)],
      [Obs("DMESG_XID") EXCEPT !.xids = MCXids(94) \cup MCXids(13), !.nccl = MCTimeout],
      [Obs("NCCL") EXCEPT !.nccl = MCTimeout],
      [Obs("PROC") EXCEPT !.timeline = MCLost("PROC")],
      [Obs("PROC") EXCEPT !.timeline = MCLost(Unspecified)],
      \* a collector that claims what others observe
      [Obs("DMESG_XID") EXCEPT !.xids = MCXids(94),
                               !.windows = MCWindow("g1", [ecc |-> 1, link |-> 1]),
                               !.timeline = MCLost("PROC")],
      [Obs("NCCL") EXCEPT !.xids = MCXids(79), !.nccl = MCTimeout] }
=============================================================================
