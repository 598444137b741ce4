--------------------------- MODULE MCHookDecision ---------------------------
(***************************************************************************)
(* Small instances of HookDecision for TLC.                                *)
(***************************************************************************)
EXTENDS HookDecision

CONSTANTS h1, h2, push, edit

MCHooks == {h1, h2}
MCCalls == {push, edit}
MCCallOf == [h \in MCHooks |-> IF h = h1 THEN push ELSE edit]

RuleOn(verb, calls) == [verb |-> verb, on |-> calls, fails |-> {}]

(* Rules that ask about both calls, and rules that decide both.              *)
Cautious == <<>>
Decided  == <<RuleOn("deny", {push}), RuleOn("allow", MCCalls)>>

MCRulesets == {Cautious, Decided}
=============================================================================
