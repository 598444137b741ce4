----------------------------- MODULE MCAuditDb -----------------------------
(***************************************************************************)
(* A small instance of AuditDb for TLC.                                    *)
(***************************************************************************)
EXTENDS AuditDb, TLC

CONSTANTS p1, p2, p3

MCConns == {p1, p2, p3}
ConnSymmetry == Permutations(MCConns)
MCDecisions ==
    {[tool |-> "Bash", decision |-> "deny", text |-> {"push"}],
     [tool |-> "Read", decision |-> "ask",  text |-> {}]}
MCFilters ==
    {NoFilter, LogFilter(FALSE, TRUE, TRUE),
     [LogFilter(TRUE, TRUE, FALSE) EXCEPT !.since = 1, !.grep = "push"],
     [LogFilter(FALSE, FALSE, TRUE) EXCEPT !.until = 0, !.tool = "Read"]}
=============================================================================
