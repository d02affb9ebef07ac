---------------------------- MODULE MCInvestigate ---------------------------
(***************************************************************************)
(* Investigate for TLC.  The requested budgets cover each branch of the    *)
(* clamp: no budget, all defaults, under the cap, over the cap.            *)
(***************************************************************************)
EXTENDS Investigate

MCDcgm(budget) == [capability |-> "dcgm.fields", budget |-> budget]

MCBudgets ==
    {NoBudget, Budget(0, 0, 0, 0), Budget(1, 1, 0, 1),
     Budget(86400, 201, 1, 6001)}

MCDirectives ==
    {NilDirective,
     [capability |-> "not.in.catalog", budget |-> NoBudget],
     [capability |-> "ebpf.nvlink.retrans", budget |-> NoBudget]}
    \cup {MCDcgm(b) : b \in MCBudgets}

(* Every single directive, and the pairs that end with an executed one.    *)
MCLists ==
    {<<d>> : d \in MCDirectives}
    \cup {<<d, MCDcgm(NoBudget)>> : d \in MCDirectives}
=============================================================================
