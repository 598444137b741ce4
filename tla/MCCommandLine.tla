--------------------------- MODULE MCCommandLine ---------------------------
(***************************************************************************)
(* Small instances of CommandLine for TLC.                                 *)
(***************************************************************************)
EXTENDS CommandLine, TLC

CONSTANTS p1, p2, slack, slackConnect, r1, t1, t2

MCCli == {p1, p2}
MCRecorders == {t1, t2}
CliSymmetry == Permutations(MCCli) \cup Permutations(MCRecorders)
MCQuotes == {<<r1, RuleFor(Pattern(c), "allow")>> : c \in Calls}
PushCall == [tool |-> "Bash", words |-> <<"git", "push", "origin">>]
MCCalls == {PushCall}
MCTargets == {slack, slackConnect}
MCStartsWith == {<<t, t>> : t \in MCTargets} \cup {<<slackConnect, slack>>}
MCOwn == [ours |-> FALSE, runs |-> {"lint"}]
MCByHand == [ours |-> FALSE, runs |-> {"homn hook"}]
MCUserEntries == {MCOwn, MCByHand}

(* A bound on both at once: three observations whose calls overlap, at any   *)
(* times; two, one call after the other, a command, a fault and an edit; or  *)
(* two commands and either.                                                  *)
MCTogether ==
    /\ issued > 0 =>
          /\ Len(observed) <= 2 /\ \A i \in DOMAIN observed : observed[i].ts = 1
          /\ Cardinality({r \in Recorders : recording[r] # None}) <= 2 - issued
    /\ issued > 1 => faults + edits <= 1

Command(cmd, arg) == [cmd |-> cmd, arg |-> arg]
MCCommands ==
    {Command("add", r1), Command("setup", None), Command("uninstall", None),
     Command("purge", None), Command("install", None)}
        \cup {Command("accept", p) : p \in Patterns}
        \cup {Command(c, t) : c \in {"exclude", "include"}, t \in MCTargets}
=============================================================================
