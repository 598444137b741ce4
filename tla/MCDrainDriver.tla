--------------------------- MODULE MCDrainDriver ---------------------------
(***************************************************************************)
(* Small instances of DrainDriver for TLC.                                 *)
(***************************************************************************)
EXTENDS DrainDriver

CONSTANTS a1, a2, blank, t1, t2, c1, c2

MCTexts == {t1, t2}
MCApps == {a1, a2}
MCClean == {c1, c2}

(* Two texts that stay different after redaction and a frame without text.   *)
MCFrames == {[text |-> t1, app |-> a1, at |-> 0],
             [text |-> t2, app |-> a2, at |-> 3],
             [text |-> blank, app |-> a1, at |-> 4]}

Permissive == [denies |-> {},
               scrub |-> [a \in MCApps |-> [t \in MCTexts |-> IF t = t1 THEN c1 ELSE c2]]]
Strict     == [denies |-> {a2}, scrub |-> [a \in MCApps |-> [t \in MCTexts |-> c1]]]

MCPolicies == {Permissive, Strict}
=============================================================================
