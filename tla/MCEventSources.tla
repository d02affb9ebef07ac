--------------------------- MODULE MCEventSources --------------------------
(***************************************************************************)
(* EventSources for TLC: kernel texts of up to four lines, a GPU and a     *)
(* network card whose links change twice during a scan, a log of five lines *)
(* of which a read takes about three.                                      *)
(***************************************************************************)
EXTENDS EventSources

Head1(tokens) == [cont |-> FALSE, tokens |-> tokens]
More(tokens) == [cont |-> TRUE, tokens |-> tokens]

MCKmsgTexts ==
    UNION {[1..n -> { Head1(<<"Xid", "79">>), Head1(<<"usb">>),
                      Head1(<<"GPU-1", "Xid">>), More(<<"94">>),
                      More(<<"GPU-2", "Xid", "48">>) }] : n \in 0..4}
MCNcclLines ==
    { [kind |-> "timeout", len |-> 1], [kind |-> "timeout", len |-> 2],
      [kind |-> "op", len |-> 1], [kind |-> "noise", len |-> 3] }
=============================================================================
