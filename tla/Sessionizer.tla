---------------------------- MODULE Sessionizer ----------------------------
(***************************************************************************)
(* The session rule of crates/homnd/src/session.rs.  A Sessionizer keeps   *)
(* the one session it is extending.  A pipeline reads a single source, so  *)
(* the source and the session kind that the code compares never differ     *)
(* between two observations and are left out; the app and the capture time *)
(* decide.                                                                 *)
(***************************************************************************)
EXTENDS Integers

CONSTANTS Apps,        \* values of RawCapture.app, None included
          Gap,         \* the focus gap, in the time unit of captured_at
          None         \* the absent value of an Option

ASSUME GapAssumption == Gap \in Nat

Session == [app : Apps, id : Nat, last : Int]

ASSUME NoSessionAssumption == None \notin Session

(* A new session starts at a change of app or after more than Gap of quiet. *)
(* A capture time that goes backwards gives a negative difference: the      *)
(* session is extended.                                                     *)
StartsNew_AnyApp(open, app, at) ==                       \* mutant
    open = None \/ at - open.last > Gap

StartsNew(open, app, at) ==
    \/ open = None
    \/ open.app # app
    \/ at - open.last > Gap

(* The session after an observation of `app` at time `at`; `fresh` is the   *)
(* id a new session would get.                                              *)
Assign(open, app, at, fresh) ==
    IF StartsNew(open, app, at)
    THEN [app |-> app, id |-> fresh, last |-> at]
    ELSE [open EXCEPT !.last = at]
=============================================================================
