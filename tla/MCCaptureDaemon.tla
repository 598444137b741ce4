-------------------------- MODULE MCCaptureDaemon --------------------------
(***************************************************************************)
(* A small instance of CaptureDaemon for TLC.                              *)
(***************************************************************************)
EXTENDS CaptureDaemon

CONSTANTS a1, a2, blank, t1, t2, c1, c2

MCTexts == {t1, t2}
MCApps == {a1, a2}
MCClean == {c1, c2}

(* A text seen in one app, another text in the other app, and a frame        *)
(* without text.                                                             *)
MCThreeFrames == {[text |-> t1, app |-> a1, at |-> 0],
                  [text |-> t2, app |-> a2, at |-> 3],
                  [text |-> blank, app |-> a1, at |-> 4]}

(* A permissive policy under which the two texts differ only in what         *)
(* redaction removes, and a strict one that denies app a2 and redacts t1 to  *)
(* another text.                                                             *)
Permissive == [denies |-> {}, scrub |-> [a \in MCApps |-> [t \in MCTexts |-> c1]]]
Strict     == [denies |-> {a2},
               scrub |-> [a \in MCApps |-> [t \in MCTexts |-> IF t = t1 THEN c2 ELSE c1]]]

MCPolicies == {Permissive, Strict}
=============================================================================
