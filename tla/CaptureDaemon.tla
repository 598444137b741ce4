---------------------------- MODULE CaptureDaemon ----------------------------
(***************************************************************************)
(* The capture daemon of crates/homnd/src/daemon.rs: its drain loop around *)
(* the ingestion pipeline, the control socket of                           *)
(* crates/homnd/src/control.rs, and the process's crashes and restarts.    *)
(*                                                                         *)
(* The drain loop and the socket server are two tasks of one process.      *)
(* pc = "dead" says the drain task has returned; the server goes on.       *)
(***************************************************************************)
EXTENDS IngestPipeline

CONSTANTS MaxCrashes,  \* bound: crashes of the process
          MaxPauses    \* bound: Pause requests

ASSUME DaemonBoundsAssumption == MaxCrashes \in Nat /\ MaxPauses \in Nat

VARIABLES
    paused,      \* ControlState::paused
    shown,       \* ControlState::stats, what `homn status` prints
    late,        \* history: fetches since the last Pause was answered
    pauses       \* history: Pause requests

daemonVars == <<paused, shown, late, pauses>>
vars == <<pipelineVars, daemonVars>>

(* The process is up: the control socket answers.                            *)
Up == pc # "down"

(* The drain loop's own pause check, and the tick it starts.  While paused   *)
(* the loop only sleeps.                                                     *)
LoopTick_Unpaused ==                                     \* mutant: no pause check
    /\ BeginTick
    /\ UNCHANGED daemonVars

LoopTick ==
    /\ ~paused
    /\ BeginTick
    /\ UNCHANGED daemonVars

Ticking ==
    /\ TickStep
    /\ late' = IF paused /\ pc = "fetch" THEN late + 1 ELSE late
    /\ UNCHANGED <<paused, shown, pauses>>

(* drain_loop after a tick that returned Ok: the stats are mirrored, except  *)
(* after Paused.                                                             *)
Mirrored_OnlyIdle == IF pc = "exhausted" THEN stats ELSE shown   \* mutant
Mirrored == IF pc = "paused" THEN shown ELSE stats

LoopAgain ==
    /\ pc \in {"paused", "exhausted", "drained"}
    /\ pc' = "idle"
    /\ shown' = Mirrored
    /\ UNCHANGED <<rows, durable, object, pausedFlag, locals, ulid, life, faults, rewinds,
                   paused, late, pauses>>

(* drain_loop after a tick that returned an error: `?` ends the task.        *)
LoopDies ==
    /\ pc = "failed"
    /\ pc' = "dead"
    /\ UNCHANGED <<rows, durable, object, pausedFlag, locals, ulid, life, faults, rewinds,
                   daemonVars>>

(* The control socket.  A Status request changes nothing.                    *)
Pause ==
    /\ Up
    /\ pauses < MaxPauses
    /\ paused' = TRUE
    /\ late' = 0
    /\ pauses' = pauses + 1
    /\ UNCHANGED <<pipelineVars, shown>>

Resume ==
    /\ Up
    /\ paused
    /\ paused' = FALSE
    /\ late' = 0
    /\ UNCHANGED <<pipelineVars, shown, pauses>>

(* The process dies.  Its memory is gone: the pipeline object and the        *)
(* control state keep their values here and are not read until Start.        *)
Crash ==
    /\ Up
    /\ life < MaxCrashes
    /\ pc' = "down"
    /\ EndTick
    /\ life' = life + 1
    /\ UNCHANGED <<rows, durable, object, pausedFlag, ulid, faults, rewinds, daemonVars>>

(* run_capture_daemon: the policy file, possibly edited since, is compiled,  *)
(* and a new pipeline and a new control state are built.                     *)
Start ==
    /\ pc = "down"
    /\ pc' = "idle"
    /\ \E p \in Policies : NewPipeline(p)
    /\ paused' = FALSE
    /\ shown' = NoStats
    /\ late' = 0
    /\ UNCHANGED <<rows, durable, locals, ulid, life, faults, rewinds, pauses>>

Init ==
    /\ InitPipeline
    /\ paused = FALSE
    /\ shown = NoStats
    /\ late = 0
    /\ pauses = 0

(* Steps of the drain task.                                                  *)
DrainLoop == LoopTick \/ Ticking \/ LoopAgain \/ LoopDies

Next ==
    \/ FrameArrives /\ UNCHANGED daemonVars
    \/ DrainLoop
    \/ Pause
    \/ Resume
    \/ Crash
    \/ Start

Spec == Init /\ [][Next]_vars

(* The drain task is scheduled; nothing obliges Screenpipe, the user or a    *)
(* supervisor to act.                                                        *)
FairSpec == Spec /\ WF_vars(DrainLoop)

-----------------------------------------------------------------------------
(* Safety.                                                                   *)

(* Every variable has its type.                                             *)
TypeOK ==
    /\ PipelineTypeOK
    /\ paused \in BOOLEAN
    /\ shown \in Stats
    /\ late \in Nat
    /\ pauses \in Nat

(* Two observations stored one after the other by the same pipeline share a  *)
(* session exactly when they share the app and lie within the gap; a session *)
(* never continues in another process.                                       *)
Follows(q, o) ==
    /\ q.life = o.life /\ q.id > o.id
    /\ ~\E m \in brain : m.id > o.id /\ m.id < q.id
SessionBoundaries ==
    \A o, q \in brain :
        /\ o.session = q.session => o.life = q.life
        /\ Follows(q, o) =>
              (o.session = q.session <=>
                  (o.app = q.app /\ rows[q.row].at - rows[o.row].at <= Gap))

(* What one process stores keeps its order and its distance, over crashes,   *)
(* replays, failures and edits of the policy: sessions follow the stored     *)
(* stream and not the fetched one, and the dedupe window holds for all of    *)
(* its length (Sessionizer::assign, DedupeWindow::check_and_record).         *)
StoredStreamKeepsItsRules == SessionBoundaries /\ WindowSpacing

(* Every row the watermark covers that was not denied had commitments and    *)
(* beliefs extracted from a stored copy of its content: a crash between the  *)
(* brain's write and the extraction is made good by the replay.  (A row      *)
(* stored before the crash and denied by a policy edited since is not: the   *)
(* Deny receipt is the last word on it and the first copy stays.)            *)
Extracted(h) == \E o \in brain : ObsHash(o) = h /\ \E d \in derived : d.obs = o.id
ExtractionCatchesUp ==
    \A r \in 1..watermark :
        \/ rows[r].text = Blank
        \/ DeniedByReceipt(r)
        \/ \E i \in 1..Len(ledger) :
               ledger[i].row = r /\ ledger[i].outcome = "allow" /\ Extracted(ledger[i].hash)

(* PipelineStats account for every item: between ticks each fetched item is  *)
(* counted once as dropped, deduped or stored, inside a tick the items       *)
(* processed so far are ahead of `fetched`; the mirrored counters are those  *)
(* of the last tick that returned.                                           *)
Processed == stats.dropped + stats.deduped + stats.stored
StatsAccount ==
    /\ pc \in {"idle", "fetch", "exhausted", "drained"} => Processed = stats.fetched
    /\ pc \in {"items", "store", "extract"} =>
           Processed = stats.fetched + batch.count - Cardinality(todo)
    /\ pc \in {"idle", "fetch"} => shown = stats

(* Once Pause is answered at most one more batch is fetched, the one whose   *)
(* pause check came before.                                                  *)
PauseBound == late <= 1

(* No row at or below the watermark is stored again unless a watermark read  *)
(* failed: a crash replays the interrupted batch and nothing before it.      *)
ReplayOnlyUnconfirmed ==
    [][rewinds = 0 => \A o \in brain' \ brain : o.row > watermark]_vars

-----------------------------------------------------------------------------
(* Refinement.                                                               *)

Durable == INSTANCE DurableIngest WITH
    arrived <- Len(rows),
    settled <- {r \in 1..Len(rows) : Settled(r)},
    confirmed <- watermark

(* The daemon, with its crashes, failures and edited policies, does what     *)
(* DurableIngest promises: it never unsettles a row and never confirms one   *)
(* that is not settled.                                                      *)
ImplementsDurableIngest == Durable!Spec

-----------------------------------------------------------------------------
(* Liveness.                                                                 *)

(* A drain loop that stays alive and is left unpaused confirms every row.    *)
CatchesUp ==
    <>[](~paused /\ pc \notin {"dead", "down"}) => <>[](watermark = Len(rows))

=============================================================================
