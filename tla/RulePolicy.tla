----------------------------- MODULE RulePolicy -----------------------------
(***************************************************************************)
(* The decision rules of crates/homn-policy: a policy file is a list of    *)
(* rules, one a line; Engine::eval answers a tool call with the first rule *)
(* that fires in deny, ask, allow order, Engine::trace explains it.  What  *)
(* a rule's expression computes is data: the calls it is true for, and the *)
(* calls its evaluation fails on (an error, or the operation budget).      *)
(***************************************************************************)
EXTENDS Naturals, Sequences, SequencesExt, FiniteSetsExt, Listing

CONSTANT Calls    \* tool calls Claude Code may ask permission for

Verbs == {"deny", "ask", "allow"}

Rule == [verb : Verbs, on : SUBSET Calls, fails : SUBSET Calls]

(* A failed evaluation is logged and counts as a rule that did not match.    *)
Fires(rule, call) == call \in rule.on \ rule.fails

(* The decision and the line of the rule that made it; no line when no rule  *)
(* fired.                                                                    *)
Outcome(verb, line) == [decision |-> verb, line |-> line]
DefaultAsk == Outcome("ask", 0)

Firing(rules, verb, call) ==
    {i \in DOMAIN rules : rules[i].verb = verb /\ Fires(rules[i], call)}

First(rules, verb, call) == Outcome(verb, Min(Firing(rules, verb, call)))

Eval_InFileOrder(rules, call) ==                              \* mutant: no priority
    LET fired == {i \in DOMAIN rules : Fires(rules[i], call)}
    IN  IF fired = {} THEN DefaultAsk ELSE Outcome(rules[Min(fired)].verb, Min(fired))

Eval(rules, call) ==
    LET fires(verb) == Firing(rules, verb, call) # {}
    IN  CASE fires("deny")                                      -> First(rules, "deny", call)
          [] ~fires("deny") /\ fires("ask")                     -> First(rules, "ask", call)
          [] ~fires("deny") /\ ~fires("ask") /\ fires("allow")  -> First(rules, "allow", call)
          [] OTHER                                              -> DefaultAsk

(* Every line, grouped by verb as RuleSet keeps them.                        *)
Grouped(rules) ==
    LET of(verb) == Only([i \in DOMAIN rules |-> i], {i \in DOMAIN rules : rules[i].verb = verb})
    IN  of("deny") \o of("ask") \o of("allow")

(* trace does not stop at the first match: it visits every rule, and the     *)
(* first that matched while there was no outcome is the decisive one.        *)
Visit_EveryMatch(rules, call, trace, i) ==                    \* mutant: last match decides
    IF Fires(rules[i], call)
    THEN [decisive |-> trace.decisive \cup {i}, outcome |-> Outcome(rules[i].verb, i)]
    ELSE trace

Visit(rules, call, trace, i) ==
    LET decisive == Fires(rules[i], call) /\ trace.outcome = DefaultAsk
    IN  [decisive |-> IF decisive THEN trace.decisive \cup {i} ELSE trace.decisive,
         outcome  |-> IF decisive THEN Outcome(rules[i].verb, i) ELSE trace.outcome]

Unvisited == [decisive |-> {}, outcome |-> DefaultAsk]

Trace(rules, call) ==
    LET order == Grouped(rules)
        upto[n \in 0 .. Len(order)] ==
            IF n = 0 THEN Unvisited ELSE Visit(rules, call, upto[n - 1], order[n])
    IN  upto[Len(order)]
=============================================================================
