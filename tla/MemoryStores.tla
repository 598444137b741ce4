---------------------------- MODULE MemoryStores ----------------------------
(***************************************************************************)
(* What is remembered, and how it is removed.  The capture daemon writes   *)
(* each observation to the brain, the promises it makes to commitments.db, *)
(* the position it takes to beliefs.db, and the watermark once a batch is  *)
(* through (homnd); `homn forget` unlearns episode by episode and appends  *)
(* a receipt; `homn destroy` deletes files (homn-bin).  Statements fail,   *)
(* processes end anywhere, and destroy does not ask who has a file open.   *)
(* The brain (agidb) is external: an exclusive lock, episodes stamped with *)
(* its own clock, a ranked recall.                                         *)
(***************************************************************************)
EXTENDS Integers, Sequences, FiniteSets, FiniteSetsExt, SequencesExt, Listing

CONSTANTS Feed,         \* the source: observations in the order of its cursor
          Texts,        \* words, names and topics
          BatchSize,
          CueLimit,     \* episodes agidb surfaces for a cue
          Scopes,       \* scopes `homn forget` is run with
          None,
          MaxNow,       \* bound: the clock
          MaxForgets,   \* bound: runs of forget
          MaxTroubles   \* bound: crashes, failing steps and destroys together

(* What an observation says and hints at, the promise it makes, and the      *)
(* position it takes on a topic since a time.                                *)
Observation ==
    [says : SUBSET Texts, hints : SUBSET Texts,
     promise : [due : Int \cup {None}, with : Texts \cup {None}] \cup {None},
     topic : Texts \cup {None}, from : Int]

ASSUME FeedAssumption == Feed \in Seq(Observation)
ASSUME NoneAssumption == None \notin Int /\ None \notin {"daemon", "forget", "mcp"}
ASSUME BatchAssumption == BatchSize \in Nat \ {0} /\ CueLimit \in Nat

VARIABLES
    brain,      \* the episodes of the brain directory
    minted,     \* episode ids given out
    promises,   \* the rows of commitments.db, oldest first
    beliefs,    \* the rows of beliefs.db, oldest first
    mark,       \* the watermark of the source, in the audit db
    receipts,   \* the deletion receipts of the ledger, each a match_count
    holder,     \* who holds the lock of the brain, or None
    daemon, forgetter, destroyer,
    now,
    used,       \* what the bounds have let happen
    past        \* history: see Past0

files == <<brain, minted, promises, beliefs, mark, receipts, holder>>
memoryVars == <<files, daemon, forgetter, destroyer, now, used, past>>

Down == [at |-> "down", seen |-> 0, pos |-> 0, last |-> 0,
         brain |-> "gone", audit |-> "gone"]

Resting == [at |-> "idle", scope |-> None, left |-> {}, removed |-> {}]

Past0 == [ephemeral |-> {},    \* observations whose episode went to no file
          unlearned |-> {},    \* episodes removed by forget
          forgotten |-> {},    \* what receipts cover: see Covered
          gap       |-> {},    \* observations that superseded, and added nothing
          missed    |-> {}]    \* <<table, observation>>: a failed statement

Here == Feed[daemon.pos]

Trouble == used.crashes + used.destroys + Cardinality(used.failed) < MaxTroubles

Failed(table) == used' = [used EXCEPT !.failed = @ \cup {table}]

-----------------------------------------------------------------------------
(* The capture daemon.                                                       *)

Resume_Overlapping == IF mark > 0 THEN mark - 1 ELSE 0  \* mutant: the last one again, to be safe

Resume == mark

(* run_capture_daemon.  Without --brain, which is how `homn capture start`   *)
(* spawns it, the store keeps nothing; the watermark is durable either way.  *)
StartDaemon(withBrain) ==
    /\ daemon.at = "down"
    /\ withBrain => holder = None
    /\ daemon' = [Down EXCEPT !.at = "idle", !.seen = Resume, !.audit = "file",
                              !.brain = IF withBrain THEN "file" ELSE "gone"]
    /\ holder' = IF withBrain THEN "daemon" ELSE holder
    /\ destroyer' = IF destroyer = "done" THEN "idle" ELSE destroyer
    /\ UNCHANGED <<brain, minted, promises, beliefs, mark, receipts, forgetter, now, used, past>>

BatchEnd_Unclipped == daemon.seen + BatchSize          \* mutant: no end to the source

BatchEnd == IF daemon.seen + BatchSize < Len(Feed) THEN daemon.seen + BatchSize ELSE Len(Feed)

Fetch ==
    /\ daemon.at = "idle" /\ daemon.seen < Len(Feed)
    /\ daemon' = [daemon EXCEPT !.at = "store", !.pos = daemon.seen + 1,
                                !.last = BatchEnd]
    /\ UNCHANGED <<files, forgetter, destroyer, now, used, past>>

(* AgidbStore::store: the text and its source, no time.                      *)
StoreEpisode ==
    /\ daemon.at = "store"
    /\ daemon' = [daemon EXCEPT !.at = "promise"]
    /\ IF daemon.brain = "file"
       THEN /\ brain' = brain \cup {[id |-> minted + 1, obs |-> daemon.pos, at |-> now]}
            /\ minted' = minted + 1
            /\ UNCHANGED past
       ELSE /\ past' = [past EXCEPT !.ephemeral = @ \cup {daemon.pos}]
            /\ UNCHANGED <<brain, minted>>
    /\ UNCHANGED <<promises, beliefs, mark, receipts, holder, forgetter, destroyer, now, used>>

(* The next observation of the batch, or the watermark.                      *)
Onward ==
    IF daemon.pos < daemon.last THEN [daemon EXCEPT !.at = "store", !.pos = @ + 1]
    ELSE [daemon EXCEPT !.at = "mark"]

Statement(table, ok) ==
    IF ok THEN UNCHANGED used ELSE Trouble /\ Failed(table)

Missed(table, ok) == IF ok THEN past.missed ELSE past.missed \cup {<<table, daemon.pos>>}

(* ExtractingStore::store, the commitments: an add that fails is a warning.  *)
(* Every row is new (a fresh id) and open.                                   *)
AddPromise(ok) ==
    /\ daemon.at = "promise" /\ (Here.promise = None => ok)
    /\ Statement("promise", ok)
    /\ promises' = IF Here.promise = None \/ ~ok THEN promises
                   ELSE Append(promises, [obs |-> daemon.pos, due |-> Here.promise.due,
                                          with |-> Here.promise.with, status |-> "open",
                                          created |-> now])
    /\ daemon' = IF Here.topic = None THEN Onward ELSE [daemon EXCEPT !.at = "supersede"]
    /\ past' = [past EXCEPT !.missed = Missed("promise", ok)]
    /\ UNCHANGED <<brain, minted, beliefs, mark, receipts, holder, forgetter, destroyer, now>>

IsCurrent(row) == row.superseded = None

Superseded_NewerOnly(rows, topic, from) ==             \* mutant: AND valid_from < ?1
    [i \in DOMAIN rows |->
        IF rows[i].topic = topic /\ IsCurrent(rows[i]) /\ rows[i].from < from
        THEN [rows[i] EXCEPT !.superseded = from - 1] ELSE rows[i]]

Superseded(rows, topic, from) ==
    [i \in DOMAIN rows |->
        IF rows[i].topic = topic /\ IsCurrent(rows[i])
        THEN [rows[i] EXCEPT !.superseded = from - 1] ELSE rows[i]]

(* SqliteBeliefStore::add, the UPDATE; its error is dropped (.ok()).         *)
Supersede(ok) ==
    /\ daemon.at = "supersede"
    /\ Statement("supersede", ok)
    /\ beliefs' = IF ok THEN Superseded(beliefs, Here.topic, Here.from) ELSE beliefs
    /\ past' = [past EXCEPT !.gap = IF beliefs' = beliefs THEN @ ELSE @ \cup {daemon.pos}]
    /\ daemon' = [daemon EXCEPT !.at = "insert"]
    /\ UNCHANGED <<brain, minted, promises, mark, receipts, holder, forgetter, destroyer, now>>

Inserted_OrIgnore(rows) ==                             \* mutant: one row for an observation
    IF \E i \in DOMAIN rows : rows[i].obs = daemon.pos THEN rows
    ELSE Append(rows, [obs |-> daemon.pos, topic |-> Here.topic,
                       from |-> Here.from, superseded |-> None])

Inserted(rows) ==
    Append(rows, [obs |-> daemon.pos, topic |-> Here.topic,
                  from |-> Here.from, superseded |-> None])

(* The INSERT, a statement and a transaction of its own.                     *)
InsertBelief(ok) ==
    /\ daemon.at = "insert"
    /\ Statement("belief", ok)
    /\ beliefs' = IF ok THEN Inserted(beliefs) ELSE beliefs
    /\ past' = [past EXCEPT !.gap = IF ok THEN @ \ {daemon.pos} ELSE @,
                            !.missed = Missed("belief", ok)]
    /\ daemon' = Onward
    /\ UNCHANGED <<brain, minted, promises, mark, receipts, holder, forgetter, destroyer, now>>

Reached_ReadAhead ==                                   \* mutant: the cursor of the next batch
    IF daemon.last < Len(Feed) THEN daemon.last + 1 ELSE daemon.last

Reached == daemon.last

(* The watermark, once the batch is through; a deleted file keeps nothing.   *)
Mark ==
    /\ daemon.at = "mark"
    /\ mark' = IF daemon.audit = "file" THEN Reached ELSE mark
    /\ daemon' = [daemon EXCEPT !.at = "idle", !.seen = Reached, !.pos = 0, !.last = 0]
    /\ UNCHANGED <<brain, minted, promises, beliefs, receipts, holder, forgetter, destroyer,
                   now, used, past>>

CrashDaemon ==
    /\ daemon.at # "down" /\ Trouble
    /\ used' = [used EXCEPT !.crashes = @ + 1]
    /\ daemon' = Down
    /\ holder' = IF holder = "daemon" THEN None ELSE holder
    /\ UNCHANGED <<brain, minted, promises, beliefs, mark, receipts, forgetter, destroyer,
                   now, past>>

-----------------------------------------------------------------------------
(* `homn forget`.                                                            *)

Says(e, cue) == cue \in Feed[e.obs].says

(* What agidb surfaces for a cue: at most CueLimit of the episodes that      *)
(* match, which ones is its ranking.                                         *)
Surfaced(cue) ==
    LET matching == {e \in brain : Says(e, cue)}
    IN IF Cardinality(matching) <= CueLimit THEN {matching} ELSE kSubset(CueLimit, matching)

Within(scope) == {e \in brain : scope.from <= e.at /\ e.at <= scope.to}

(* The ids are collected first.                                              *)
BeginForget(scope) ==
    /\ forgetter.at = "idle" /\ holder = None /\ used.forgets < MaxForgets
    /\ \E ids \in IF scope.cue = None THEN {Within(scope)} ELSE Surfaced(scope.cue) :
          forgetter' = [at |-> "unlearn", scope |-> scope, left |-> ids, removed |-> {}]
    /\ holder' = "forget"
    /\ used' = [used EXCEPT !.forgets = @ + 1]
    /\ UNCHANGED <<brain, minted, promises, beliefs, mark, receipts, daemon, destroyer, now, past>>

Unlearn ==
    /\ forgetter.at = "unlearn" /\ forgetter.left # {}
    /\ \E e \in forgetter.left :
          /\ forgetter' = [forgetter EXCEPT !.left = @ \ {e}, !.removed = @ \cup {e}]
          /\ brain' = brain \ {e}
          /\ past' = [past EXCEPT !.unlearned = @ \cup {e}]
    /\ UNCHANGED <<minted, promises, beliefs, mark, receipts, holder, daemon, destroyer, now, used>>

ForgetEnds ==
    /\ forgetter' = Resting
    /\ holder' = IF holder = "forget" THEN None ELSE holder

(* agidb fails, or the process ends, with some episodes gone: no receipt.    *)
ForgetStops ==
    /\ forgetter.at = "unlearn"
    /\ Trouble /\ Failed("forget")
    /\ ForgetEnds
    /\ UNCHANGED <<brain, minted, promises, beliefs, mark, receipts, daemon, destroyer, now, past>>

Receipt_Collected(f) == Cardinality(f.removed) + 1     \* mutant: counts before it removes

Receipt(f) == Cardinality(f.removed)

(* What a receipt covers: an observation it removed an episode of, with what *)
(* there was when it was written: the ids given out, the watermark, and the  *)
(* episodes of the observation that were not removed.                        *)
Covered(f) ==
    {[obs |-> i, minted |-> minted, mark |-> mark, rest |-> {e \in brain : e.obs = i}] :
        i \in {e.obs : e \in f.removed}}

(* The receipt.  An append that fails (AuditDb) leaves the removal without   *)
(* one.                                                                      *)
AppendDeletion(ok) ==
    /\ forgetter.at = "unlearn" /\ forgetter.left = {}
    /\ Statement("receipt", ok)
    /\ receipts' = IF ok THEN Append(receipts, Receipt(forgetter)) ELSE receipts
    /\ past' = IF ok THEN [past EXCEPT !.forgotten = @ \cup Covered(forgetter)] ELSE past
    /\ ForgetEnds
    /\ UNCHANGED <<brain, minted, promises, beliefs, mark, daemon, destroyer, now>>

-----------------------------------------------------------------------------
(* `homn destroy`: the brain directory, then the audit db with its sidecars; *)
(* an error in between leaves the rest.                                      *)

DestroyBrain ==
    /\ destroyer # "audit" /\ Trouble
    /\ destroyer' = "audit"
    /\ used' = [used EXCEPT !.destroys = @ + 1]
    /\ brain' = {}
    /\ holder' = None
    /\ daemon' = [daemon EXCEPT !.brain = "gone"]
    /\ UNCHANGED <<minted, promises, beliefs, mark, receipts, forgetter, now, past>>

DestroyAudit ==
    /\ destroyer = "audit"
    /\ destroyer' = "done"
    /\ mark' = 0
    /\ receipts' = <<>>
    /\ daemon' = [daemon EXCEPT !.audit = "gone"]
    /\ past' = [past EXCEPT !.forgotten = {}]
    /\ UNCHANGED <<brain, minted, promises, beliefs, holder, forgetter, now, used>>

DestroyStops ==
    /\ destroyer = "audit"
    /\ Trouble /\ Failed("destroy")
    /\ destroyer' = "idle"
    /\ UNCHANGED <<files, daemon, forgetter, now, past>>

Tick ==
    /\ now < MaxNow
    /\ now' = now + 1
    /\ UNCHANGED <<files, daemon, forgetter, destroyer, used, past>>

MemoryInit ==
    /\ brain = {} /\ minted = 0 /\ promises = <<>> /\ beliefs = <<>>
    /\ mark = 0 /\ receipts = <<>> /\ holder = None
    /\ daemon = Down /\ forgetter = Resting /\ destroyer = "idle"
    /\ now = 0
    /\ used = [crashes |-> 0, failed |-> {}, forgets |-> 0, destroys |-> 0]
    /\ past = Past0

MemoryNext ==
    \/ \E b \in BOOLEAN : StartDaemon(b)
    \/ Fetch \/ StoreEpisode \/ Mark \/ CrashDaemon
    \/ \E ok \in BOOLEAN : AddPromise(ok) \/ Supersede(ok) \/ InsertBelief(ok)
    \/ \E scope \in Scopes : BeginForget(scope)
    \/ Unlearn \/ ForgetStops
    \/ \E ok \in BOOLEAN : AppendDeletion(ok)
    \/ DestroyBrain \/ DestroyAudit \/ DestroyStops \/ Tick

-----------------------------------------------------------------------------
Episode == [id : Nat \ {0}, obs : 1 .. Len(Feed), at : Nat]

(* Every variable has its type.                                              *)
MemoryTypeOK ==
    /\ \A e \in brain : e \in Episode /\ e.id <= minted
    /\ mark \in 0 .. Len(Feed)
    /\ \A i \in DOMAIN promises : promises[i].obs \in 1 .. Len(Feed)
    /\ \A i \in DOMAIN beliefs : beliefs[i].obs \in 1 .. Len(Feed)
    /\ holder \in {None, "daemon", "forget", "mcp"}
    /\ daemon.at \in {"down", "idle", "store", "promise", "supersede", "insert", "mark"}
    /\ daemon.pos \in 0 .. daemon.last /\ daemon.last \in 0 .. Len(Feed)
    /\ forgetter.at \in {"idle", "unlearn"}
    /\ destroyer \in {"idle", "audit", "done"}
    /\ now \in Nat

(* Whatever the watermark says is done has left an episode, its promise and  *)
(* its belief, through crashes, replays, forget and destroy: unless forget   *)
(* removed the episode, a daemon without a brain of its own on disk stored   *)
(* it, destroy has begun, or the statement for it failed                     *)
(* (ExtractingStore::store, tick).                                           *)
MarkedIsDone ==
    destroyer # "audit" =>
        \A i \in 1 .. mark :
            /\ \/ \E e \in brain \cup past.unlearned : e.obs = i
               \/ i \in past.ephemeral
               \/ "destroy" \in used.failed
            /\ Feed[i].promise = None \/ <<"promise", i>> \in past.missed
                 \/ \E j \in DOMAIN promises : promises[j].obs = i
            /\ Feed[i].topic = None \/ <<"belief", i>> \in past.missed
                 \/ \E j \in DOMAIN beliefs : beliefs[j].obs = i

(* An observation on the topic has superseded and then failed or was cut off *)
(* before its insert; it is unmarked, so that a replay repairs it, or its    *)
(* insert is the one that failed.                                            *)
Waits(topic) ==
    \E i \in past.gap : Feed[i].topic = topic /\ (i > mark \/ <<"belief", i>> \in past.missed)

(* A topic with a history has a current belief, or waits for one             *)
(* (SqliteBeliefStore::add).                                                 *)
TopicKeepsCurrent ==
    \A j \in DOMAIN beliefs :
        \/ \E k \in DOMAIN beliefs : beliefs[k].topic = beliefs[j].topic /\ IsCurrent(beliefs[k])
        \/ Waits(beliefs[j].topic)

(* A topic has at most one current belief, and none of an observation that   *)
(* comes before the last marked one on the topic, whatever was replayed,     *)
(* unless an UPDATE failed (its error is dropped).                           *)
CurrentIsLatest ==
    "supersede" \notin used.failed =>
        \A j \in {k \in DOMAIN beliefs : IsCurrent(beliefs[k])} :
            /\ \A k \in DOMAIN beliefs :
                  IsCurrent(beliefs[k]) /\ beliefs[k].topic = beliefs[j].topic => k = j
            /\ \A i \in 1 .. mark : Feed[i].topic = beliefs[j].topic => i <= beliefs[j].obs

(* Receipts never claim more than was removed, and while no step of a run    *)
(* has failed and no ledger was destroyed they account for all of it         *)
(* (forget_command, AgidbStore::forget).                                     *)
ReceiptsAccount ==
    LET claimed == Total(receipts)
        gone    == Cardinality(past.unlearned)
    IN /\ claimed <= gone
       /\ forgetter.at = "idle" /\ used.failed \cap {"forget", "receipt"} = {}
          /\ used.destroys = 0 => claimed = gone
=============================================================================
