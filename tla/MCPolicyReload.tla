--------------------------- MODULE MCPolicyReload ---------------------------
(***************************************************************************)
(* Small instances of PolicyReload for TLC.                                *)
(***************************************************************************)
EXTENDS PolicyReload

CONSTANTS read, push

MCCalls == {read, push}

RuleOn(verb, calls) == [verb |-> verb, on |-> calls, fails |-> {}]

(* Permissive lines above and below a deny, two rules of one verb, a rule    *)
(* that cannot be evaluated on one of its calls, and a file with a mistake.  *)
Guarded == <<RuleOn("allow", MCCalls), RuleOn("deny", {push}), RuleOn("ask", {read})>>
Layered == <<RuleOn("deny", {push}), RuleOn("allow", {push}), RuleOn("allow", MCCalls)>>
Failing == <<[verb |-> "deny", on |-> {push}, fails |-> {push}], RuleOn("ask", {read})>>
Broken  == <<RuleOn("allow", {read}), Malformed>>

MCVersions == {Guarded, Layered, Failing, Broken}
=============================================================================
