---------------------------- MODULE PolicyReload ----------------------------
(***************************************************************************)
(* The rules of a running daemon.  build_state_with_reloader               *)
(* (crates/homn-daemon/src/lib.rs) starts without rules and without a      *)
(* watcher when there is no policy file; otherwise spawn_reloader          *)
(* (crates/homn-policy/src/watcher.rs) reads the rules once, watches the   *)
(* directory, and a callback on the watcher's thread reads the file again  *)
(* after every change and swaps the handle.                                *)
(*                                                                         *)
(* An editor replaces the file by a rename or writes it in place, in which *)
(* case the file holds a prefix of the new version between two writes (cut *)
(* at line ends here).  Every change queues one event once the watch is    *)
(* registered.                                                             *)
(***************************************************************************)
EXTENDS RulePolicy

CONSTANTS Versions,   \* policy files a user may save, sequences of lines
          Malformed,  \* a line that is not a rule
          NoFile,     \* no file, no ruleset, no write under way
          MaxEdits    \* bound: versions saved, files deleted

ASSUME VersionsAssumption == Versions \subseteq Seq(Rule \cup {Malformed})
ASSUME MalformedAssumption == Malformed \notin Rule
ASSUME NoFileAssumption == NoFile \notin Seq(Rule \cup {Malformed})
ASSUME MaxEditsAssumption == MaxEdits \in Nat

VARIABLES
    file,      \* lines in the policy file, NoFile when there is none
    writing,   \* the version an in-place write is half way through
    pc,        \* start, load, watch, wait, debounce, store; failed, unwatched
    loaded,    \* what the callback has read
    handle,    \* the RuleSetHandle
    events,    \* file events queued for the callback
    missed,    \* history: the file changed after the load and without a watch
    edits      \* bound

reload == <<file, writing, pc, loaded, handle, events, missed, edits>>

(* RuleSet::load: an unreadable file and a malformed line are errors.        *)
Parses(lines) == lines # NoFile /\ \A i \in DOMAIN lines : lines[i] # Malformed

(* The kernel tells the watcher, if it is registered.                        *)
Notify_OnlyWaiting ==                                         \* mutant: deaf while it sleeps
    /\ events' = IF pc = "wait" THEN events + 1 ELSE events
    /\ missed' = (missed \/ pc \in {"watch", "unwatched"})

Notify ==
    /\ events' = IF pc \in {"wait", "debounce", "store"} THEN events + 1 ELSE events
    /\ missed' = (missed \/ pc \in {"watch", "unwatched"})

Edit == edits < MaxEdits /\ writing = NoFile /\ edits' = edits + 1

Replace == \E v \in Versions :
    /\ Edit
    /\ file' = v
    /\ Notify
    /\ UNCHANGED <<writing, pc, loaded, handle>>

Delete ==
    /\ file # NoFile
    /\ Edit
    /\ file' = NoFile
    /\ Notify
    /\ UNCHANGED <<writing, pc, loaded, handle>>

(* The first half of an in-place write truncates the file.                   *)
BeginWrite == \E v \in Versions :
    /\ Edit
    /\ file' = <<>>
    /\ writing' = v
    /\ Notify
    /\ UNCHANGED <<pc, loaded, handle>>

WriteOn ==
    /\ writing # NoFile
    /\ \E n \in Len(file)..Len(writing) :
          /\ n > Len(file) \/ n = Len(writing)
          /\ file' = SubSeq(writing, 1, n)
          /\ writing' = IF n = Len(writing) THEN NoFile ELSE writing
    /\ Notify
    /\ UNCHANGED <<pc, loaded, handle, edits>>

(* Nobody looks for the file a second time.                                  *)
FindPolicy ==
    /\ pc = "start"
    /\ IF file = NoFile THEN handle' = <<>> /\ pc' = "unwatched"
                      ELSE pc' = "load" /\ UNCHANGED handle
    /\ UNCHANGED <<file, writing, loaded, events, missed, edits>>

Load ==
    /\ pc = "load"
    /\ IF Parses(file) THEN handle' = file /\ pc' = "watch"
                       ELSE pc' = "failed" /\ UNCHANGED handle
    /\ UNCHANGED <<file, writing, loaded, events, missed, edits>>

Watch ==
    /\ pc = "watch"
    /\ pc' = "wait"
    /\ UNCHANGED <<file, writing, loaded, handle, events, missed, edits>>

(* The callback sleeps before it reads.                                      *)
Wake_NoEvent ==                                               \* mutant: no event needed
    /\ pc = "wait"
    /\ events' = events - 1
    /\ pc' = "debounce"
    /\ UNCHANGED <<file, writing, loaded, handle, missed, edits>>

Wake_LeavesLast ==                                            \* mutant: off by one
    /\ pc = "wait"
    /\ events > 1
    /\ events' = events - 1
    /\ pc' = "debounce"
    /\ UNCHANGED <<file, writing, loaded, handle, missed, edits>>

Wake ==
    /\ pc = "wait"
    /\ events > 0
    /\ events' = events - 1
    /\ pc' = "debounce"
    /\ UNCHANGED <<file, writing, loaded, handle, missed, edits>>

ReadFile ==
    /\ pc = "debounce"
    /\ loaded' = file
    /\ pc' = "store"
    /\ UNCHANGED <<file, writing, handle, events, missed, edits>>

(* A file that does not load leaves the last good rules in place.            *)
Store ==
    /\ pc = "store"
    /\ handle' = IF Parses(loaded) THEN loaded ELSE handle
    /\ pc' = "wait"
    /\ loaded' = NoFile
    /\ UNCHANGED <<file, writing, events, missed, edits>>

ReloadInit ==
    /\ file \in Versions \cup {NoFile}
    /\ writing = NoFile
    /\ pc = "start"
    /\ loaded = NoFile
    /\ handle = NoFile
    /\ events = 0
    /\ missed = FALSE
    /\ edits = 0

Reloader == FindPolicy \/ Load \/ Watch \/ Wake \/ ReadFile \/ Store

ReloadNext == Replace \/ Delete \/ BeginWrite \/ WriteOn \/ Reloader

ReloadSpec == ReloadInit /\ [][ReloadNext]_reload

(* The daemon and its watcher's thread run; nobody has to edit the file.     *)
ReloadFairSpec == ReloadSpec /\ WF_reload(Reloader)

-----------------------------------------------------------------------------
(* Every variable has its type.                                             *)
ReloadTypeOK ==
    /\ file = NoFile \/ file \in Seq(Rule \cup {Malformed})
    /\ writing \in Versions \cup {NoFile}
    /\ pc \in {"start", "load", "watch", "wait", "debounce", "store", "failed", "unwatched"}
    /\ loaded = NoFile \/ loaded \in Seq(Rule \cup {Malformed})
    /\ handle = NoFile \/ handle \in Seq(Rule)
    /\ events \in Nat
    /\ missed \in BOOLEAN
    /\ edits \in 0..MaxEdits

Settled == writing = NoFile /\ Parses(file)

(* Once the queue is empty the rules in force are the file's: a callback     *)
(* that reads after its sleep never leaves an older version behind, however  *)
(* writes, deletions and callbacks interleave (watcher.rs).                  *)
CurrentWhenQuiet ==
    (pc = "wait" /\ events = 0 /\ Settled /\ ~missed) => handle = file

(* A save that parses comes into force without another one (watcher.rs).     *)
EditsTakeEffect ==
    []<>((pc # "failed" /\ Settled /\ ~missed) => handle = file)

(* trace explains the decision eval made: the same outcome, and its rule is  *)
(* the one decisive rule (Engine::eval, Engine::trace).                      *)
TraceExplainsEval ==
    handle # NoFile => \A call \in Calls :
        LET trace == Trace(handle, call)
        IN  /\ trace.outcome = Eval(handle, call)
            /\ trace.decisive = {Eval(handle, call).line} \ {0}

(* Deny is sticky: what one line alone denies, no other lines permit,        *)
(* wherever in the file they stand (Engine::eval's order).                   *)
DenyIsSticky ==
    handle # NoFile => \A call \in Calls, i \in DOMAIN handle :
        Eval(<<handle[i]>>, call).decision = "deny" => Eval(handle, call).decision = "deny"

=============================================================================
