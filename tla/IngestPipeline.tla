--------------------------- MODULE IngestPipeline ---------------------------
(***************************************************************************)
(* One source's ingestion pipeline, crates/homnd/src/pipeline.rs, over the *)
(* Screenpipe tail (crates/homn-sources/src/screenpipe.rs), the watermark  *)
(* table and the receipt ledger (crates/homn-audit), the dedupe window and *)
(* the sessionizer (crates/homnd), and the extracting store.               *)
(*                                                                         *)
(* `tick` runs as a sequence of steps, one per await whose result another  *)
(* process or a crash can see.  pc is the place in it:                     *)
(*    idle     no tick is running                                          *)
(*    fetch    past the pause check, before the watermark is read          *)
(*    items    in the loop over the batch; `todo` are the items left       *)
(*    store    `held` has its receipt and goes to Store::store             *)
(*    extract  `held` is in the brain; commitments and beliefs follow      *)
(*    paused, exhausted, drained, failed   what tick returned              *)
(*    down     the process is not running (a module that composes this     *)
(*             one enters and leaves it)                                   *)
(* The caller of tick is not here: CaptureDaemon and DrainDriver are.      *)
(***************************************************************************)
EXTENDS Integers, Sequences, FiniteSets, Sessionizer

CONSTANTS Frames,     \* rows Screenpipe may write
          Blank,      \* the text of a frame with neither text nor title
          Texts,      \* raw capture texts
          Clean,      \* texts after redaction
          Policies,   \* ingest policies the policy file may hold
          Batch,      \* ScreenpipeTail::batch_size
          Capacity,   \* Dedupe::capacity
          MaxRows,    \* bound: rows Screenpipe writes
          MaxFaults,  \* bound: calls that return an error
          MaxRewinds  \* bound: watermark reads that fail

ASSUME BatchAssumption == Batch \in Nat \ {0}
ASSUME CapacityAssumption == Capacity \in Nat \ {0}
ASSUME BlankAssumption == Blank \notin Texts
ASSUME FramesAssumption == Frames \subseteq [text : Texts \cup {Blank}, app : Apps, at : Int]
ASSUME PoliciesAssumption ==
    Policies \subseteq [denies : SUBSET Apps, scrub : [Apps -> [Texts -> Clean]]]
ASSUME BoundsAssumption == MaxRows \in Nat /\ MaxFaults \in Nat /\ MaxRewinds \in Nat

VARIABLES
    (* Durable. *)
    rows,        \* Screenpipe's frames table; the id of a row is its index
    watermark,   \* the watermarks row of this source, 0 for none
    ledger,      \* the receipt ledger, in chain order
    brain,       \* observations Store::store has persisted
    derived,     \* extraction attempts, per observation id
    (* The Pipeline object. *)
    policy,      \* the compiled policy inside the Gate
    window,      \* Dedupe::seen
    open,        \* Sessionizer::current
    stats,       \* PipelineStats
    pausedFlag,  \* Pipeline::paused
    (* Locals of tick and process_one. *)
    pc, batch, todo, held,
    (* History and bounds. *)
    ulid,        \* identifiers minted so far, by the gate and the sessionizer
    recorded,    \* hashes this Pipeline has put in its window
    life,        \* which Pipeline object this is
    faults,      \* calls that have returned an error
    rewinds      \* watermark reads that failed and were taken for "none"

durable  == <<watermark, ledger, brain, derived>>
object   == <<policy, window, open, stats, recorded>>
locals   == <<batch, todo, held>>
pipelineVars == <<rows, watermark, ledger, brain, derived, policy, window, open, stats,
                  pausedFlag, pc, batch, todo, held, ulid, recorded, life, faults, rewinds>>

-----------------------------------------------------------------------------
(* Data.                                                                     *)

Hash == Apps \X Clean

(* A DecisionReceipt.  `obs` is observation_ref, 0 for None.  `row` and      *)
(* `hash`, the item it decides and its content hash, are history: the code's *)
(* receipt has neither.                                                      *)
Receipt == [outcome : {"allow", "deny"}, obs : Nat, row : Nat, hash : Hash \cup {None}]

(* An Observation.  seq is the chain position its redactions refer to; life  *)
(* and pos say which window, and which entry of it, its hash became.         *)
Observation == [id : Nat, row : Nat, app : Apps, text : Clean, session : Nat,
                seq : Nat, life : Nat, pos : Nat]

Stats == [fetched : Nat, dropped : Nat, deduped : Nat, stored : Nat]

NoStats == [fetched |-> 0, dropped |-> 0, deduped |-> 0, stored |-> 0]
NoBatch == [next |-> 0, count |-> 0]

ASSUME NoObservationAssumption == None \notin Observation

ObsHash(o) == <<o.app, o.text>>

Oldest(S) == CHOOSE r \in S : \A s \in S : r <= s

(* Gate::run: the policy sees the app (ingest_ctx leaves the domain, the     *)
(* window title and the incognito flag empty) and denies the item or says    *)
(* what to redact; the content hash is over the redacted text.               *)
Admitted(r) == rows[r].app \notin policy.denies
GateText_Raw(r) == rows[r].text                         \* mutant: no redaction
GateText(r) == policy.scrub[rows[r].app][rows[r].text]
GateHash(r) == <<rows[r].app, GateText(r)>>

(* Dedupe::is_duplicate.                                                     *)
InWindow_SkipsNewest(h) == \E i \in 1..(Len(window) - 1) : window[i] = h   \* mutant
InWindow(h) == \E i \in 1..Len(window) : window[i] = h
Remember(w, h) == Append(IF Len(w) >= Capacity THEN Tail(w) ELSE w, h)

(* read_batch: up to Batch rows after the cursor.  Rows with no text count   *)
(* against the limit and move the cursor, and make no item.                  *)
BatchEnd(cursor) ==
    IF cursor + Batch <= Len(rows) THEN cursor + Batch ELSE Len(rows)
ItemsAfter_Inclusive(cursor) ==                          \* mutant: id >= cursor
    {r \in (IF cursor = 0 THEN 1 ELSE cursor)..BatchEnd(cursor) : rows[r].text # Blank}
ItemsAfter(cursor) ==
    {r \in (cursor + 1)..BatchEnd(cursor) : rows[r].text # Blank}

-----------------------------------------------------------------------------
(* Screenpipe.                                                               *)

FrameArrives ==
    /\ Len(rows) < MaxRows
    /\ \E f \in Frames : rows' = Append(rows, f)
    /\ UNCHANGED <<durable, object, pausedFlag, pc, locals, ulid, life, faults, rewinds>>

-----------------------------------------------------------------------------
(* Pipeline::tick.                                                           *)

(* The pause check at the top.                                               *)
BeginTick ==
    /\ pc = "idle"
    /\ pc' = IF pausedFlag THEN "paused" ELSE "fetch"
    /\ UNCHANGED <<rows, durable, object, pausedFlag, locals, ulid, life, faults, rewinds>>

(* get_watermark and fetch_since, from `cursor`.                             *)
FetchFrom(cursor) ==
    /\ todo' = ItemsAfter(cursor)
    /\ batch' = [next |-> BatchEnd(cursor), count |-> Cardinality(ItemsAfter(cursor))]
    /\ pc' = "items"
    /\ UNCHANGED <<rows, durable, object, pausedFlag, held, ulid, life, faults>>

Fetch ==
    /\ pc = "fetch"
    /\ FetchFrom(watermark)
    /\ UNCHANGED rewinds

(* get_watermark turns an error of its query into "no watermark": the source *)
(* starts again from its first row.                                          *)
FetchFromStart ==
    /\ pc = "fetch"
    /\ rewinds < MaxRewinds
    /\ FetchFrom(0)
    /\ rewinds' = rewinds + 1

(* The locals of tick and process_one are gone when tick returns.            *)
EndTick == todo' = {} /\ batch' = NoBatch /\ held' = None

(* Any awaited call of tick or process_one may return an error instead; `?`  *)
(* hands it to the caller and the rest of the batch is abandoned.            *)
Abandon ==
    /\ faults < MaxFaults
    /\ faults' = faults + 1
    /\ pc' = "failed"
    /\ EndTick
    /\ UNCHANGED <<rows, durable, policy, stats, pausedFlag, life, rewinds>>

FetchFails ==
    /\ pc = "fetch"
    /\ Abandon
    /\ UNCHANGED <<window, open, recorded, ulid>>

(* The watermark is written when no item of the batch is left.               *)
BatchDone_OneEarly == Cardinality(todo) <= 1             \* mutant
BatchDone == todo = {}

(* tick's answer: Exhausted for a batch without items.                       *)
Answer_ShortBatch == IF batch.count < Batch THEN "exhausted" ELSE "drained"   \* mutant
Answer_AlwaysDrained == "drained"                        \* mutant
Answer == IF batch.count = 0 THEN "exhausted" ELSE "drained"

NextWatermark_OnlyItems ==                               \* mutant: empty batch not confirmed
    IF batch.count = 0 THEN watermark ELSE batch.next
NextWatermark == batch.next

CommitWatermark ==
    /\ pc = "items"
    /\ BatchDone
    /\ watermark' = NextWatermark
    /\ stats' = [stats EXCEPT !.fetched = @ + batch.count]
    /\ pc' = Answer
    /\ EndTick
    /\ UNCHANGED <<rows, ledger, brain, derived, policy, window, open, recorded,
                   pausedFlag, ulid, life, faults, rewinds>>

CommitFails ==
    /\ pc = "items"
    /\ BatchDone
    /\ Abandon
    /\ UNCHANGED <<window, open, recorded, ulid>>

-----------------------------------------------------------------------------
(* Pipeline::process_one, for the next item of the batch.                    *)

AtItem(r) ==
    /\ pc = "items"
    /\ todo # {}
    /\ r = Oldest(todo)

(* The chain position append_receipt returns for the next receipt.            *)
NextSeq_Head == Len(ledger)                              \* mutant: the head before it
NextSeq == Len(ledger) + 1

Write(receipt) == ledger' = Append(ledger, receipt)

Count(field) == stats' = [stats EXCEPT ![field] = @ + 1]

(* is_duplicate records the hash whatever it answers.                        *)
RememberHash(r) ==
    /\ window' = Remember(window, GateHash(r))
    /\ recorded' = recorded + 1

(* The gate drops the item: a Deny receipt, and on to the next.              *)
ProcessDropped(r) ==
    /\ AtItem(r)
    /\ ~Admitted(r)
    /\ Write([outcome |-> "deny", obs |-> 0, row |-> r, hash |-> None])
    /\ Count("dropped")
    /\ todo' = todo \ {r}
    /\ UNCHANGED <<rows, watermark, brain, derived, policy, window, open, recorded,
                   pausedFlag, pc, batch, held, ulid, life, faults, rewinds>>

(* A hash in the window: an Allow receipt for an observation that is not     *)
(* stored.                                                                   *)
ProcessDuplicate(r) ==
    /\ AtItem(r)
    /\ Admitted(r)
    /\ InWindow(GateHash(r))
    /\ RememberHash(r)
    /\ ulid' = ulid + 1
    /\ Write([outcome |-> "allow", obs |-> ulid + 1, row |-> r, hash |-> GateHash(r)])
    /\ Count("deduped")
    /\ todo' = todo \ {r}
    /\ UNCHANGED <<rows, watermark, brain, derived, policy, open,
                   pausedFlag, pc, batch, held, life, faults, rewinds>>

(* The session of the item's observation.  The gate mints the observation's  *)
(* id first, the sessionizer then mints one when a session starts.           *)
SessionOf(r) == Assign(open, rows[r].app, rows[r].at, ulid + 2)

Minted(r) == IF StartsNew(open, rows[r].app, rows[r].at) THEN 2 ELSE 1

(* A new hash: the session is assigned and the Allow receipt is written; the *)
(* observation is in hand.                                                   *)
ProcessNew(r) ==
    /\ AtItem(r)
    /\ Admitted(r)
    /\ ~InWindow(GateHash(r))
    /\ RememberHash(r)
    /\ open' = SessionOf(r)
    /\ ulid' = ulid + Minted(r)
    /\ Write([outcome |-> "allow", obs |-> ulid + 1, row |-> r, hash |-> GateHash(r)])
    /\ held' = [id |-> ulid + 1, row |-> r, app |-> rows[r].app, text |-> GateText(r),
                session |-> SessionOf(r).id, seq |-> NextSeq,
                life |-> life, pos |-> recorded]
    /\ pc' = "store"
    /\ UNCHANGED <<rows, watermark, brain, derived, policy, stats,
                   pausedFlag, batch, todo, life, faults, rewinds>>

(* append_receipt returns an error.  The window and the session have already *)
(* taken the item in.                                                        *)
ReceiptFails(r) ==
    /\ AtItem(r)
    /\ Abandon
    /\ IF Admitted(r)
       THEN /\ RememberHash(r)
            /\ IF InWindow(GateHash(r))
               THEN UNCHANGED open /\ ulid' = ulid + 1
               ELSE open' = SessionOf(r) /\ ulid' = ulid + Minted(r)
       ELSE UNCHANGED <<window, open, recorded, ulid>>

(* ExtractingStore::store, the inner store.                                  *)
Store ==
    /\ pc = "store"
    /\ brain' = brain \cup {held}
    /\ pc' = "extract"
    /\ UNCHANGED <<rows, watermark, ledger, derived, object, pausedFlag, locals,
                   ulid, life, faults, rewinds>>

StoreFails_Skips ==                                      \* mutant: log and go on
    /\ pc = "store"
    /\ faults < MaxFaults
    /\ faults' = faults + 1
    /\ todo' = todo \ {held.row}
    /\ held' = None
    /\ pc' = "items"
    /\ UNCHANGED <<rows, durable, object, pausedFlag, batch, ulid, life, rewinds>>

StoreFails ==
    /\ pc = "store"
    /\ Abandon
    /\ UNCHANGED <<window, open, recorded, ulid>>

(* ExtractingStore::store, commitments and beliefs.  An add that fails is    *)
(* logged and the store still succeeds.                                      *)
Extract ==
    /\ pc = "extract"
    /\ \E added \in BOOLEAN :
          /\ derived' = derived \cup {[obs |-> held.id, added |-> added]}
          /\ ~added => faults < MaxFaults
          /\ faults' = IF added THEN faults ELSE faults + 1
    /\ Count("stored")
    /\ todo' = todo \ {held.row}
    /\ held' = None
    /\ pc' = "items"
    /\ UNCHANGED <<rows, watermark, ledger, brain, policy, window, open, recorded,
                   pausedFlag, batch, ulid, life, rewinds>>

ProcessOne ==
    \/ \E r \in todo :
          \/ ProcessDropped(r)
          \/ ProcessDuplicate(r)
          \/ ProcessNew(r)
          \/ ReceiptFails(r)
    \/ Store
    \/ StoreFails
    \/ Extract

(* What a running tick does after its pause check.                           *)
TickStep ==
    \/ Fetch
    \/ FetchFromStart
    \/ FetchFails
    \/ ProcessOne
    \/ CommitWatermark
    \/ CommitFails

-----------------------------------------------------------------------------
(* A Pipeline object just built by Pipeline::new with policy p.              *)

NewPipeline_KeepsWindow(p) ==                            \* mutant: a persisted window
    /\ policy' = p
    /\ open' = None
    /\ stats' = NoStats
    /\ pausedFlag' = FALSE
    /\ UNCHANGED <<window, recorded>>

NewPipeline(p) ==
    /\ policy' = p
    /\ window' = <<>>
    /\ open' = None
    /\ stats' = NoStats
    /\ pausedFlag' = FALSE
    /\ recorded' = 0

InitPipeline ==
    /\ rows = <<>>
    /\ watermark = 0
    /\ ledger = <<>>
    /\ brain = {}
    /\ derived = {}
    /\ policy \in Policies
    /\ window = <<>>
    /\ open = None
    /\ stats = NoStats
    /\ pausedFlag = FALSE
    /\ pc = "idle"
    /\ batch = NoBatch
    /\ todo = {}
    /\ held = None
    /\ ulid = 0
    /\ recorded = 0
    /\ life = 0
    /\ faults = 0
    /\ rewinds = 0

-----------------------------------------------------------------------------
(* What every caller of tick relies on.                                      *)

PipelineTypeOK ==
    /\ rows \in Seq(Frames)
    /\ watermark \in Nat
    /\ ledger \in Seq(Receipt)
    /\ brain \subseteq Observation
    /\ derived \subseteq [obs : Nat, added : BOOLEAN]
    /\ policy \in Policies
    /\ window \in Seq(Hash)
    /\ open \in Session \cup {None}
    /\ stats \in Stats
    /\ pausedFlag \in BOOLEAN
    /\ pc \in {"idle", "fetch", "items", "store", "extract",
               "paused", "exhausted", "drained", "failed", "dead", "down"}
    /\ batch \in [next : Nat, count : Nat]
    /\ todo \subseteq Nat
    /\ held \in Observation \cup {None}
    /\ ulid \in Nat /\ recorded \in Nat /\ life \in Nat
    /\ faults \in Nat /\ rewinds \in Nat

(* What became of a row, by the durable state alone: it had no text, or a    *)
(* Deny receipt says it was dropped, or an Allow receipt was written for it  *)
(* and its content is in the brain.                                          *)
DeniedByReceipt(r) ==
    \E i \in 1..Len(ledger) : ledger[i].row = r /\ ledger[i].outcome = "deny"
Kept(h) == \E o \in brain : ObsHash(o) = h
StoredByReceipt(r) ==
    \E i \in 1..Len(ledger) :
        ledger[i].row = r /\ ledger[i].outcome = "allow" /\ Kept(ledger[i].hash)
Settled(r) == rows[r].text = Blank \/ DeniedByReceipt(r) \/ StoredByReceipt(r)

(* The watermark covers settled rows only: whatever failed, crashed or was   *)
(* replayed, no captured row at or below it is missing from both the brain   *)
(* and the ledger's denials (rules R-3 and R-4 of the gate-pipeline          *)
(* contract, tick and process_one).                                          *)
NoLoss == \A r \in 1..watermark : Settled(r)

(* Every stored observation has, at the chain position its redactions refer  *)
(* to, the Allow receipt that was written for it before it was stored.       *)
ReceiptBehindEveryObservation ==
    \A o \in brain :
        /\ o.seq \in 1..Len(ledger)
        /\ ledger[o.seq].outcome = "allow"
        /\ ledger[o.seq].obs = o.id
        /\ ledger[o.seq].row = o.row
        /\ ledger[o.seq].hash = ObsHash(o)

(* One pipeline object stores the same content twice only when more than     *)
(* Capacity other lookups lie between: a crash loop, a re-read from the      *)
(* first row or a full window cannot shorten that distance.                  *)
WindowSpacing ==
    \A o, q \in brain :
        (o.life = q.life /\ ObsHash(o) = ObsHash(q) /\ o # q)
            => (o.pos - q.pos > Capacity \/ q.pos - o.pos > Capacity)
=============================================================================
