----------------------------- MODULE DrainDriver -----------------------------
(***************************************************************************)
(* pipeline::drain (crates/homnd/src/pipeline.rs), the run loop an         *)
(* embedder of homnd calls on each poll interval, with one Pipeline object *)
(* that outlives the calls.  drain returns when tick answers Paused or     *)
(* Exhausted, or with tick's error; the next poll calls it again.          *)
(***************************************************************************)
EXTENDS IngestPipeline

VARIABLES
    draining,    \* a call of drain is in progress
    known,       \* history: rows Screenpipe had at the last fetch
    answer       \* what the last call of drain returned

driverVars == <<draining, known, answer>>
drainVars == <<pipelineVars, driverVars>>

(* The poll interval is over.                                                *)
Poll ==
    /\ ~draining
    /\ pc = "idle"
    /\ draining' = TRUE
    /\ answer' = "none"
    /\ UNCHANGED <<pipelineVars, known>>

DrainTick ==
    /\ draining
    /\ BeginTick
    /\ UNCHANGED driverVars

DrainTicking ==
    /\ TickStep
    /\ known' = IF pc = "fetch" THEN Len(rows) ELSE known
    /\ UNCHANGED <<draining, answer>>

(* The match in drain's loop: Drained goes round again, anything else        *)
(* returns.                                                                  *)
DrainAgain ==
    /\ pc = "drained"
    /\ pc' = "idle"
    /\ UNCHANGED <<rows, durable, object, pausedFlag, locals, ulid, life, faults, rewinds,
                   driverVars>>

DrainReturns ==
    /\ pc \in {"paused", "exhausted", "failed"}
    /\ draining' = FALSE
    /\ answer' = pc
    /\ pc' = "idle"
    /\ UNCHANGED <<rows, durable, object, pausedFlag, locals, ulid, life, faults, rewinds,
                   known>>

(* The embedder flips Pipeline::pause_flag.                                  *)
FlipPause ==
    /\ pausedFlag' = ~pausedFlag
    /\ UNCHANGED <<rows, durable, object, pc, locals, ulid, life, faults, rewinds,
                   driverVars>>

DrainInit ==
    /\ InitPipeline
    /\ draining = FALSE
    /\ known = 0
    /\ answer = "none"

Drain == DrainTick \/ DrainTicking \/ DrainAgain \/ DrainReturns

DrainNext ==
    \/ FrameArrives /\ UNCHANGED driverVars
    \/ Poll
    \/ Drain
    \/ FlipPause

DrainSpec == DrainInit /\ [][DrainNext]_drainVars

(* A call of drain runs on; the embedder need not poll again.                *)
FairDrainSpec == DrainSpec /\ WF_drainVars(Drain)

-----------------------------------------------------------------------------
(* Every variable has its type.                                              *)
DrainTypeOK ==
    /\ PipelineTypeOK
    /\ draining \in BOOLEAN
    /\ known \in Nat
    /\ answer \in {"none", "paused", "exhausted", "failed"}

(* A call of drain returns once rows stop arriving: each pass consumes rows, *)
(* finds none, or hands an error to the embedder (drain, tick).              *)
DrainTerminates == draining ~> ~draining

(* drain answers Exhausted with rows left that it knew of only after a full  *)
(* batch of frames without text: anything else that is left keeps it going.  *)
LeavesOnlyBehindBlankBatch ==
    (answer = "exhausted" /\ watermark < known) =>
        /\ watermark >= Batch
        /\ \A r \in (watermark - Batch + 1)..watermark : rows[r].text = Blank
=============================================================================
