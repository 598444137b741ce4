---------------------------- MODULE MCPtyWrapper ----------------------------
(***************************************************************************)
(* Small instances of PtyWrapper for TLC: two sessions, of which the rules *)
(* in force deny one and ask about the other.                              *)
(***************************************************************************)
EXTENDS PtyWrapper

CONSTANTS h1, h2, push, edit

MCHooks == {h1, h2}
MCCalls == {push, edit}
MCCallOf == [h \in MCHooks |-> IF h = h1 THEN push ELSE edit]

Denies(call) == <<[verb |-> "deny", on |-> {call}, fails |-> {}]>>
MCRulesets == {Denies(push)}
MCBothRulesets == {Denies(push), Denies(edit)}
=============================================================================
