------------------------ MODULE CaptureDaemonProofs ------------------------
(***************************************************************************)
(* What every step of a tick preserves, whoever calls tick; the safety     *)
(* theorems of the capture daemon, for any number of rows, crashes,        *)
(* failures and policies; and those of drain, the other driver of the same *)
(* pipeline.                                                               *)
(***************************************************************************)
EXTENDS CaptureDaemon, DrainDriver, FiniteSetTheorems, TLAPS

-----------------------------------------------------------------------------
(* The steps of a tick.                                                      *)

InTick == pc \in {"items", "store", "extract"}

(* The items left are captured rows with text.                              *)
TodoOK == \A r \in todo : r \in 1..Len(rows) /\ rows[r].text # Blank

(* The observation in hand exists, is one of the items left and has its     *)
(* receipt.                                                                 *)
Receipted(o) ==
    /\ o.seq \in 1..Len(ledger)
    /\ ledger[o.seq].outcome = "allow"
    /\ ledger[o.seq].obs = o.id
    /\ ledger[o.seq].row = o.row
    /\ ledger[o.seq].hash = ObsHash(o)
HeldOK ==
    pc \in {"store", "extract"} =>
        /\ held \in Observation
        /\ held.row \in todo
        /\ Receipted(held)
        /\ pc = "extract" => held \in brain

(* No position lies past the end of Screenpipe's table.                     *)
InTable == watermark <= Len(rows) /\ batch.next <= Len(rows)

(* Types, with what they need about the locals of a tick.                   *)
TypeInv == PipelineTypeOK /\ InTable /\ TodoOK /\ HeldOK

(* Every row the batch in progress passes over is one of the items left or  *)
(* has met its fate.                                                        *)
BatchCovered == \A r \in 1..batch.next : r \in todo \/ Settled(r)

(* Until a call fails, a hash in the window stands for content that is in   *)
(* the brain, or about to be.                                               *)
WindowHonest ==
    pc \notin {"failed", "dead", "down"} =>
        \A i \in 1..Len(window) :
            Kept(window[i]) \/ (pc = "store" /\ window[i] = ObsHash(held))

(* What makes NoLoss inductive.                                             *)
SafeInv == NoLoss /\ BatchCovered /\ WindowHonest

(* Time only adds: rows, receipts and observations are never taken away or  *)
(* changed.                                                                 *)
Grows ==
    /\ Len(rows') >= Len(rows) /\ \A r \in 1..Len(rows) : rows'[r] = rows[r]
    /\ Len(ledger') >= Len(ledger) /\ \A i \in 1..Len(ledger) : ledger'[i] = ledger[i]
    /\ brain \subseteq brain'

-----------------------------------------------------------------------------
(* The batch a fetch returns lies within the table and holds rows with text. *)
LEMMA BatchEndInTable ==
    ASSUME PipelineTypeOK, NEW c \in 0..Len(rows)
    PROVE  BatchEnd(c) \in c..Len(rows)
BY BatchAssumption DEF BatchEnd, PipelineTypeOK

LEMMA ItemsInTable ==
    ASSUME PipelineTypeOK, NEW c \in 0..Len(rows)
    PROVE  /\ \A r \in ItemsAfter(c) : r \in 1..Len(rows) /\ rows[r].text # Blank
           /\ ItemsAfter(c) \subseteq Nat
           /\ Cardinality(ItemsAfter(c)) \in Nat
<1>1. BatchEnd(c) \in c..Len(rows)
  BY BatchEndInTable
<1>2. \A r \in ItemsAfter(c) : r \in 1..Len(rows) /\ rows[r].text # Blank
  BY <1>1 DEF ItemsAfter, PipelineTypeOK
<1>3. IsFiniteSet((c + 1)..BatchEnd(c))
  BY <1>1, FS_Interval DEF PipelineTypeOK
<1>4. IsFiniteSet(ItemsAfter(c))
  BY <1>3, FS_Subset DEF ItemsAfter
<1>5. QED
  BY <1>2, <1>4, FS_CardinalityType

(* What the gate makes of an item is a clean text with a hash.               *)
LEMMA GateTypes ==
    ASSUME TypeInv, NEW r \in todo
    PROVE  /\ r \in Nat
           /\ rows[r].app \in Apps /\ rows[r].at \in Int
           /\ GateText(r) \in Clean
           /\ GateHash(r) \in Hash
<1>1. rows[r] \in Frames /\ rows[r].text # Blank /\ r \in 1..Len(rows)
  BY DEF TypeInv, TodoOK, PipelineTypeOK
<1>2. rows[r].app \in Apps /\ rows[r].at \in Int /\ rows[r].text \in Texts
  BY <1>1, FramesAssumption
<1>3. policy.scrub \in [Apps -> [Texts -> Clean]]
  BY PoliciesAssumption DEF TypeInv, PipelineTypeOK
<1>4. GateText(r) \in Clean
  BY <1>2, <1>3 DEF GateText
<1>5. QED
  BY <1>1, <1>2, <1>4 DEF GateHash, Hash

LEMMA RememberType ==
    ASSUME NEW w \in Seq(Hash), NEW h \in Hash
    PROVE  /\ Remember(w, h) \in Seq(Hash)
           /\ \A i \in 1..Len(Remember(w, h)) :
                 Remember(w, h)[i] = h \/ \E j \in 1..Len(w) : Remember(w, h)[i] = w[j]
<1> DEFINE kept == IF Len(w) >= Capacity THEN Tail(w) ELSE w
<1>1. kept \in Seq(Hash) /\ \A i \in 1..Len(kept) : \E j \in 1..Len(w) : kept[i] = w[j]
  <2>1. CASE Len(w) >= Capacity
    <3>1. w # <<>>
      BY <2>1, CapacityAssumption
    <3>2. /\ Tail(w) \in Seq(Hash)
          /\ Len(Tail(w)) = Len(w) - 1
          /\ \A i \in 1..Len(Tail(w)) : Tail(w)[i] = w[i + 1]
      BY <3>1
    <3>3. \A i \in 1..Len(Tail(w)) : i + 1 \in 1..Len(w)
      BY <3>2
    <3>4. kept = Tail(w)
      BY <2>1
    <3>5. QED
      BY <3>2, <3>3, <3>4
  <2>2. CASE ~(Len(w) >= Capacity)
    BY <2>2
  <2>3. QED
    BY <2>1, <2>2
<1>2. Remember(w, h) = Append(kept, h)
  BY DEF Remember
<1> HIDE DEF kept
<1>3. /\ Append(kept, h) \in Seq(Hash)
      /\ Len(Append(kept, h)) = Len(kept) + 1
      /\ \A i \in 1..Len(kept) : Append(kept, h)[i] = kept[i]
      /\ Append(kept, h)[Len(kept) + 1] = h
  BY <1>1
<1>4. ASSUME NEW i \in 1..Len(Append(kept, h))
      PROVE  Append(kept, h)[i] = h \/ \E j \in 1..Len(w) : Append(kept, h)[i] = w[j]
  <2>1. i \in 1..Len(kept) \/ i = Len(kept) + 1
    BY <1>1, <1>3
  <2>2. QED
    BY <1>1, <1>3, <2>1
<1>5. QED
  BY <1>2, <1>3, <1>4

LEMMA AssignType ==
    ASSUME NEW o \in Session \cup {None}, NEW app \in Apps, NEW at \in Int, NEW id \in Nat
    PROVE  Assign(o, app, at, id) \in Session /\ Assign(o, app, at, id).id \in Nat
BY NoSessionAssumption DEF Assign, StartsNew, Session

-----------------------------------------------------------------------------
(* Typing, action by action.                                                 *)

LEMMA FrameArrivesType ==
    ASSUME TypeInv, FrameArrives
    PROVE  TypeInv' /\ Grows
<1>1. PICK f \in Frames : rows' = Append(rows, f)
  BY DEF FrameArrives
<1>2. /\ rows' \in Seq(Frames)
      /\ Len(rows') = Len(rows) + 1
      /\ \A r \in 1..Len(rows) : rows'[r] = rows[r]
  BY <1>1 DEF TypeInv, PipelineTypeOK
<1>3. UNCHANGED <<watermark, ledger, brain, derived, policy, window, open, stats, recorded,
                  pausedFlag, pc, batch, todo, held, ulid, life, faults, rewinds>>
  BY DEF FrameArrives, durable, object, locals
<1>4. PipelineTypeOK'
  BY <1>2, <1>3 DEF TypeInv, PipelineTypeOK
<1>5. InTable' /\ TodoOK'
  <2>1. Len(rows) \in Nat /\ watermark \in Nat /\ batch.next \in Nat
    BY DEF TypeInv, PipelineTypeOK
  <2>2. InTable'
    BY <1>2, <1>3, <2>1 DEF TypeInv, InTable
  <2>3. TodoOK'
    BY <1>2, <1>3, <2>1 DEF TypeInv, TodoOK
  <2>4. QED
    BY <2>2, <2>3
<1>6. HeldOK'
  BY <1>3 DEF TypeInv, HeldOK, Receipted, ObsHash
<1>7. Grows
  BY <1>2, <1>3 DEF Grows, TypeInv, PipelineTypeOK
<1>8. QED
  BY <1>4, <1>5, <1>6, <1>7 DEF TypeInv

LEMMA BeginTickType ==
    ASSUME TypeInv, BeginTick
    PROVE  TypeInv' /\ Grows
<1>1. /\ UNCHANGED <<rows, watermark, ledger, brain, derived, policy, window, open, stats,
                     recorded, pausedFlag, batch, todo, held, ulid, life, faults, rewinds>>
      /\ pc' \in {"paused", "fetch"}
  BY DEF BeginTick, durable, object, locals
<1>2. QED
  BY <1>1 DEF TypeInv, PipelineTypeOK, InTable, TodoOK, HeldOK, Grows

(* The counters stay counters.                                               *)
LEMMA StatsType ==
    ASSUME NEW s \in Stats, NEW n \in Nat
    PROVE  /\ [s EXCEPT !.fetched = @ + n] \in Stats
           /\ [s EXCEPT !["dropped"] = @ + 1] \in Stats
           /\ [s EXCEPT !["deduped"] = @ + 1] \in Stats
           /\ [s EXCEPT !["stored"] = @ + 1] \in Stats
BY DEF Stats

(* FetchFrom from any position inside the table.                             *)
LEMMA FetchFromType ==
    ASSUME TypeInv, NEW c \in 0..Len(rows), FetchFrom(c), rewinds' \in Nat
    PROVE  TypeInv' /\ Grows
<1>1. UNCHANGED <<rows, watermark, ledger, brain, derived, policy, window, open, stats,
                  recorded, pausedFlag, held, ulid, life, faults>>
  BY DEF FetchFrom, durable, object
<1>2. /\ todo' = ItemsAfter(c)
      /\ batch' = [next |-> BatchEnd(c), count |-> Cardinality(ItemsAfter(c))]
      /\ pc' = "items"
  BY DEF FetchFrom
<1>3. /\ \A r \in ItemsAfter(c) : r \in 1..Len(rows) /\ rows[r].text # Blank
      /\ ItemsAfter(c) \subseteq Nat
      /\ Cardinality(ItemsAfter(c)) \in Nat
  BY ItemsInTable DEF TypeInv
<1>4. BatchEnd(c) \in c..Len(rows)
  BY BatchEndInTable DEF TypeInv
<1>5. PipelineTypeOK'
  BY <1>1, <1>2, <1>3, <1>4 DEF TypeInv, PipelineTypeOK
<1>6. InTable' /\ TodoOK' /\ HeldOK'
  BY <1>1, <1>2, <1>3, <1>4 DEF TypeInv, InTable, TodoOK, HeldOK, PipelineTypeOK
<1>7. QED
  BY <1>1, <1>5, <1>6 DEF TypeInv, Grows, PipelineTypeOK

(* An error: whatever the failing call left behind, the locals are gone.     *)
LEMMA AbandonType ==
    ASSUME TypeInv, Abandon,
           window' \in Seq(Hash), open' \in Session \cup {None},
           ulid' \in Nat, recorded' \in Nat
    PROVE  TypeInv' /\ Grows
<1>1. UNCHANGED <<rows, watermark, ledger, brain, derived, policy, stats, pausedFlag,
                  life, rewinds>>
  BY DEF Abandon, durable
<1>2. /\ faults' = faults + 1 /\ pc' = "failed"
      /\ todo' = {} /\ batch' = [next |-> 0, count |-> 0] /\ held' = None
  BY DEF Abandon, EndTick, NoBatch
<1>3. PipelineTypeOK'
  BY <1>1, <1>2 DEF TypeInv, PipelineTypeOK
<1>4. InTable' /\ TodoOK' /\ HeldOK' /\ Grows
  BY <1>1, <1>2 DEF TypeInv, InTable, TodoOK, HeldOK, PipelineTypeOK, Grows
<1>5. QED
  BY <1>3, <1>4 DEF TypeInv

LEMMA CommitWatermarkType ==
    ASSUME TypeInv, CommitWatermark
    PROVE  TypeInv' /\ Grows
<1>1. UNCHANGED <<rows, ledger, brain, derived, policy, window, open, recorded,
                  pausedFlag, ulid, life, faults, rewinds>>
  BY DEF CommitWatermark
<1>2. /\ watermark' = batch.next
      /\ stats' = [stats EXCEPT !.fetched = @ + batch.count]
      /\ pc' \in {"exhausted", "drained"}
      /\ todo' = {} /\ batch' = [next |-> 0, count |-> 0] /\ held' = None
  BY DEF CommitWatermark, NextWatermark, Answer, EndTick, NoBatch
<1>3. stats' \in Stats
  <2>1. stats \in Stats /\ batch.count \in Nat
    BY DEF TypeInv, PipelineTypeOK
  <2>2. QED
    BY <1>2, <2>1, StatsType
<1>4. PipelineTypeOK'
  BY <1>1, <1>2, <1>3 DEF TypeInv, PipelineTypeOK
<1>5. InTable' /\ TodoOK' /\ HeldOK' /\ Grows
  BY <1>1, <1>2 DEF TypeInv, InTable, TodoOK, HeldOK, PipelineTypeOK, Grows
<1>6. QED
  BY <1>4, <1>5 DEF TypeInv

(* A receipt is appended; the items left do not grow.                        *)
LEMMA ProcessDroppedType ==
    ASSUME TypeInv, NEW r \in todo, ProcessDropped(r)
    PROVE  TypeInv' /\ Grows
<1> DEFINE receipt == [outcome |-> "deny", obs |-> 0, row |-> r, hash |-> None]
<1>1. UNCHANGED <<rows, watermark, brain, derived, policy, window, open, recorded,
                  pausedFlag, pc, batch, held, ulid, life, faults, rewinds>>
  BY DEF ProcessDropped
<1>2. /\ pc = "items"
      /\ ledger' = Append(ledger, receipt)
      /\ todo' = todo \ {r}
      /\ stats' = [stats EXCEPT !["dropped"] = @ + 1]
  BY DEF ProcessDropped, AtItem, Write, Count
<1>3. receipt \in Receipt
  BY DEF Receipt, TypeInv, PipelineTypeOK
<1>4. stats' \in Stats
  BY <1>2, StatsType DEF TypeInv, PipelineTypeOK
<1>5. /\ ledger' \in Seq(Receipt) /\ Len(ledger') = Len(ledger) + 1
      /\ \A i \in 1..Len(ledger) : ledger'[i] = ledger[i]
  BY <1>2, <1>3 DEF TypeInv, PipelineTypeOK
<1>6. PipelineTypeOK'
  BY <1>1, <1>2, <1>4, <1>5 DEF TypeInv, PipelineTypeOK
<1>7. InTable' /\ TodoOK' /\ HeldOK'
  BY <1>1, <1>2 DEF TypeInv, InTable, TodoOK, HeldOK
<1>8. Grows
  BY <1>1, <1>5 DEF Grows, TypeInv, PipelineTypeOK
<1>9. QED
  BY <1>6, <1>7, <1>8 DEF TypeInv

LEMMA ProcessDuplicateType ==
    ASSUME TypeInv, NEW r \in todo, ProcessDuplicate(r)
    PROVE  TypeInv' /\ Grows
<1> DEFINE receipt == [outcome |-> "allow", obs |-> ulid + 1, row |-> r, hash |-> GateHash(r)]
<1>1. UNCHANGED <<rows, watermark, brain, derived, policy, open,
                  pausedFlag, pc, batch, held, life, faults, rewinds>>
  BY DEF ProcessDuplicate
<1>2. /\ pc = "items"
      /\ ledger' = Append(ledger, receipt)
      /\ todo' = todo \ {r}
      /\ stats' = [stats EXCEPT !["deduped"] = @ + 1]
      /\ window' = Remember(window, GateHash(r)) /\ recorded' = recorded + 1
      /\ ulid' = ulid + 1
  BY DEF ProcessDuplicate, AtItem, Write, Count, RememberHash
<1>3. receipt \in Receipt /\ GateHash(r) \in Hash
  BY GateTypes DEF Receipt, TypeInv, PipelineTypeOK
<1>4. stats' \in Stats
  BY <1>2, StatsType DEF TypeInv, PipelineTypeOK
<1>5. /\ ledger' \in Seq(Receipt) /\ Len(ledger') = Len(ledger) + 1
      /\ \A i \in 1..Len(ledger) : ledger'[i] = ledger[i]
  BY <1>2, <1>3 DEF TypeInv, PipelineTypeOK
<1>6. window' \in Seq(Hash)
  BY <1>2, <1>3, RememberType DEF TypeInv, PipelineTypeOK
<1>7. PipelineTypeOK'
  BY <1>1, <1>2, <1>4, <1>5, <1>6 DEF TypeInv, PipelineTypeOK
<1>8. InTable' /\ TodoOK' /\ HeldOK'
  BY <1>1, <1>2 DEF TypeInv, InTable, TodoOK, HeldOK
<1>9. Grows
  BY <1>1, <1>5 DEF Grows, TypeInv, PipelineTypeOK
<1>10. QED
  BY <1>7, <1>8, <1>9 DEF TypeInv

(* The session of an item and what the sessionizer mints.                    *)
LEMMA SessionTypes ==
    ASSUME TypeInv, NEW r \in todo
    PROVE  /\ SessionOf(r) \in Session /\ SessionOf(r).id \in Nat
           /\ Minted(r) \in Nat
<1>1. ulid + 2 \in Nat /\ open \in Session \cup {None}
  BY DEF TypeInv, PipelineTypeOK
<1>2. rows[r].app \in Apps /\ rows[r].at \in Int
  BY GateTypes
<1>3. QED
  BY <1>1, <1>2, AssignType DEF SessionOf, Minted

LEMMA ProcessNewType ==
    ASSUME TypeInv, NEW r \in todo, ProcessNew(r)
    PROVE  TypeInv' /\ Grows
<1> DEFINE receipt == [outcome |-> "allow", obs |-> ulid + 1, row |-> r, hash |-> GateHash(r)]
<1>1. UNCHANGED <<rows, watermark, brain, derived, policy, stats,
                  pausedFlag, batch, todo, life, faults, rewinds>>
  BY DEF ProcessNew
<1>2. /\ ledger' = Append(ledger, receipt)
      /\ window' = Remember(window, GateHash(r)) /\ recorded' = recorded + 1
      /\ open' = SessionOf(r)
      /\ ulid' = ulid + Minted(r)
      /\ pc' = "store"
      /\ held' = [id |-> ulid + 1, row |-> r, app |-> rows[r].app, text |-> GateText(r),
                  session |-> SessionOf(r).id, seq |-> Len(ledger) + 1,
                  life |-> life, pos |-> recorded]
  BY DEF ProcessNew, Write, RememberHash, NextSeq
<1>3. /\ r \in Nat /\ rows[r].app \in Apps /\ GateText(r) \in Clean
      /\ GateHash(r) \in Hash /\ GateHash(r) = <<rows[r].app, GateText(r)>>
      /\ SessionOf(r) \in Session /\ SessionOf(r).id \in Nat
      /\ Minted(r) \in Nat
  BY GateTypes, SessionTypes DEF GateHash
<1>4. receipt \in Receipt
  BY <1>3 DEF Receipt, TypeInv, PipelineTypeOK
<1>5. /\ ledger' \in Seq(Receipt) /\ Len(ledger') = Len(ledger) + 1
      /\ ledger'[Len(ledger) + 1] = receipt
      /\ \A i \in 1..Len(ledger) : ledger'[i] = ledger[i]
  BY <1>2, <1>4 DEF TypeInv, PipelineTypeOK
<1>6. window' \in Seq(Hash)
  BY <1>2, <1>3, RememberType DEF TypeInv, PipelineTypeOK
<1>7. held' \in Observation
  BY <1>2, <1>3 DEF Observation, TypeInv, PipelineTypeOK
<1>8. PipelineTypeOK'
  <2>1. open' \in Session /\ ulid' \in Nat /\ recorded' \in Nat
    BY <1>2, <1>3 DEF TypeInv, PipelineTypeOK
  <2>2. pc' = "store"
    BY <1>2
  <2>3. QED
    BY <1>1, <1>5, <1>6, <1>7, <2>1, <2>2 DEF TypeInv, PipelineTypeOK
<1>9. InTable' /\ TodoOK'
  BY <1>1 DEF TypeInv, InTable, TodoOK
<1>10. HeldOK'
  <2>1. held'.seq = Len(ledger) + 1 /\ held'.id = ulid + 1 /\ held'.row = r
        /\ ObsHash(held') = GateHash(r)
    BY <1>2, <1>3 DEF ObsHash
  <2>2. Receipted(held)'
    BY <1>5, <2>1 DEF Receipted, TypeInv, PipelineTypeOK, ObsHash
  <2>3. QED
    BY <1>1, <1>2, <1>7, <2>1, <2>2 DEF HeldOK
<1>11. Grows
  BY <1>1, <1>5 DEF Grows, TypeInv, PipelineTypeOK
<1>12. QED
  BY <1>8, <1>9, <1>10, <1>11 DEF TypeInv

LEMMA ReceiptFailsType ==
    ASSUME TypeInv, NEW r \in todo, ReceiptFails(r)
    PROVE  TypeInv' /\ Grows
<1>1. /\ SessionOf(r) \in Session /\ Minted(r) \in Nat /\ GateHash(r) \in Hash
      /\ Remember(window, GateHash(r)) \in Seq(Hash)
  BY GateTypes, SessionTypes, RememberType DEF TypeInv, PipelineTypeOK
<1>2. /\ window' \in Seq(Hash) /\ open' \in Session \cup {None}
      /\ ulid' \in Nat /\ recorded' \in Nat
  <2>1. CASE Admitted(r)
    BY <1>1, <2>1 DEF ReceiptFails, RememberHash, TypeInv, PipelineTypeOK
  <2>2. CASE ~Admitted(r)
    BY <2>2 DEF ReceiptFails, TypeInv, PipelineTypeOK
  <2>3. QED
    BY <2>1, <2>2
<1>3. QED
  BY <1>2, AbandonType DEF ReceiptFails

LEMMA StoreType ==
    ASSUME TypeInv, Store
    PROVE  TypeInv' /\ Grows
<1>1. UNCHANGED <<rows, watermark, ledger, derived, policy, window, open, stats, recorded,
                  pausedFlag, batch, todo, held, ulid, life, faults, rewinds>>
  BY DEF Store, object, locals
<1>2. pc = "store" /\ pc' = "extract" /\ brain' = brain \cup {held}
  BY DEF Store
<1>3. held \in Observation /\ held.row \in todo /\ Receipted(held)
  BY <1>2 DEF TypeInv, HeldOK
<1>4. PipelineTypeOK'
  BY <1>1, <1>2, <1>3 DEF TypeInv, PipelineTypeOK
<1>5. InTable' /\ TodoOK'
  BY <1>1 DEF TypeInv, InTable, TodoOK
<1>6. HeldOK'
  BY <1>1, <1>2, <1>3 DEF HeldOK, Receipted, ObsHash
<1>7. QED
  BY <1>1, <1>2, <1>4, <1>5, <1>6 DEF TypeInv, Grows, PipelineTypeOK

LEMMA ExtractType ==
    ASSUME TypeInv, Extract
    PROVE  TypeInv' /\ Grows
<1>1. UNCHANGED <<rows, watermark, ledger, brain, policy, window, open, recorded,
                  pausedFlag, batch, ulid, life, rewinds>>
  BY DEF Extract
<1>2. /\ pc = "extract" /\ pc' = "items"
      /\ todo' = todo \ {held.row} /\ held' = None
      /\ stats' = [stats EXCEPT !["stored"] = @ + 1]
  BY DEF Extract, Count
<1>3. PICK added \in BOOLEAN :
          /\ derived' = derived \cup {[obs |-> held.id, added |-> added]}
          /\ faults' = IF added THEN faults ELSE faults + 1
  BY DEF Extract
<1>4. held.id \in Nat
  BY <1>2 DEF TypeInv, HeldOK, Observation
<1>5. derived' \subseteq [obs : Nat, added : BOOLEAN] /\ faults' \in Nat
  BY <1>3, <1>4 DEF TypeInv, PipelineTypeOK
<1>6. stats' \in Stats
  BY <1>2, StatsType DEF TypeInv, PipelineTypeOK
<1>7. PipelineTypeOK'
  BY <1>1, <1>2, <1>5, <1>6 DEF TypeInv, PipelineTypeOK
<1>8. InTable' /\ TodoOK' /\ HeldOK'
  BY <1>1, <1>2 DEF TypeInv, InTable, TodoOK, HeldOK
<1>9. QED
  BY <1>1, <1>7, <1>8 DEF TypeInv, Grows, PipelineTypeOK

(* Every step of a running tick keeps the types and only adds.               *)
LEMMA TickStepType ==
    ASSUME TypeInv, TickStep
    PROVE  TypeInv' /\ Grows
<1>1. CASE Fetch
  <2>1. watermark \in 0..Len(rows)
    BY DEF TypeInv, InTable, PipelineTypeOK
  <2>2. FetchFrom(watermark) /\ rewinds' \in Nat
    BY <1>1 DEF Fetch, TypeInv, PipelineTypeOK
  <2>3. QED
    BY <2>1, <2>2, FetchFromType
<1>2. CASE FetchFromStart
  <2>1. 0 \in 0..Len(rows)
    BY DEF TypeInv, PipelineTypeOK
  <2>2. FetchFrom(0) /\ rewinds' \in Nat
    BY <1>2 DEF FetchFromStart, TypeInv, PipelineTypeOK
  <2>3. QED
    BY <2>1, <2>2, FetchFromType
<1>3. CASE FetchFails \/ CommitFails \/ StoreFails
  <2>1. Abandon /\ UNCHANGED <<window, open, recorded, ulid>>
    BY <1>3 DEF FetchFails, CommitFails, StoreFails
  <2>2. QED
    BY <2>1, AbandonType DEF TypeInv, PipelineTypeOK
<1>4. CASE \E r \in todo : ProcessDropped(r) \/ ProcessDuplicate(r)
                              \/ ProcessNew(r) \/ ReceiptFails(r)
  BY <1>4, ProcessDroppedType, ProcessDuplicateType, ProcessNewType, ReceiptFailsType
<1>5. CASE Store \/ Extract \/ CommitWatermark
  BY <1>5, StoreType, ExtractType, CommitWatermarkType
<1>6. QED
  BY <1>1, <1>2, <1>3, <1>4, <1>5 DEF TickStep, ProcessOne

-----------------------------------------------------------------------------
(* What time cannot undo.                                                    *)

LEMMA LedgerGrows ==
    ASSUME TypeInv, TypeInv', Grows
    PROVE  Len(ledger) \in Nat /\ Len(ledger') \in Nat /\ Len(ledger') >= Len(ledger)
<1>1. ledger \in Seq(Receipt)
  BY DEF TypeInv, PipelineTypeOK
<1>2. ledger' \in Seq(Receipt)
  BY DEF TypeInv, PipelineTypeOK
<1>3. Len(ledger') >= Len(ledger)
  BY DEF Grows
<1>4. QED
  BY <1>1, <1>2, <1>3

(* A receipt stays behind an observation.                                    *)
LEMMA ReceiptedStays ==
    ASSUME TypeInv, TypeInv', Grows, NEW o, Receipted(o)
    PROVE  /\ o.seq \in 1..Len(ledger')
           /\ ledger'[o.seq] = ledger[o.seq]
<1>1. Len(ledger) \in Nat /\ Len(ledger') \in Nat /\ Len(ledger') >= Len(ledger)
  BY LedgerGrows
<1>2. o.seq \in 1..Len(ledger)
  BY DEF Receipted
<1>3. QED
  BY <1>1, <1>2 DEF Grows

(* A settled row stays settled.                                              *)
LEMMA SettledStays ==
    ASSUME TypeInv, TypeInv', Grows, NEW r \in 1..Len(rows), Settled(r)
    PROVE  Settled(r)'
<1>1. Len(ledger) \in Nat /\ Len(ledger') \in Nat /\ Len(ledger') >= Len(ledger)
  BY LedgerGrows
<1>2. rows'[r] = rows[r]
  BY DEF Grows
<1>3. CASE rows[r].text = Blank
  BY <1>2, <1>3 DEF Settled
<1>4. CASE DeniedByReceipt(r)
  <2>1. PICK i \in 1..Len(ledger) : ledger[i].row = r /\ ledger[i].outcome = "deny"
    BY <1>4 DEF DeniedByReceipt
  <2>2. i \in 1..Len(ledger') /\ ledger'[i] = ledger[i]
    BY <1>1, <2>1 DEF Grows
  <2>3. DeniedByReceipt(r)'
    BY <2>1, <2>2 DEF DeniedByReceipt
  <2>4. QED
    BY <2>3 DEF Settled
<1>5. CASE StoredByReceipt(r)
  <2>1. PICK i \in 1..Len(ledger) :
            ledger[i].row = r /\ ledger[i].outcome = "allow" /\ Kept(ledger[i].hash)
    BY <1>5 DEF StoredByReceipt
  <2>2. i \in 1..Len(ledger') /\ ledger'[i] = ledger[i]
    BY <1>1, <2>1 DEF Grows
  <2>3. PICK o \in brain : ObsHash(o) = ledger[i].hash
    BY <2>1 DEF Kept
  <2>4. o \in brain'
    BY <2>3 DEF Grows
  <2>5. StoredByReceipt(r)'
    BY <2>1, <2>2, <2>3, <2>4 DEF StoredByReceipt, Kept, ObsHash
  <2>6. QED
    BY <2>5 DEF Settled
<1>6. QED
  BY <1>3, <1>4, <1>5 DEF Settled

(* A step that writes no observation keeps receipts behind them.             *)
LEMMA ReceiptsStay ==
    ASSUME TypeInv, TypeInv', Grows, ReceiptBehindEveryObservation,
           \A o \in brain' : o \in brain \/ Receipted(o)
    PROVE  ReceiptBehindEveryObservation'
<1> SUFFICES ASSUME NEW o \in brain'
             PROVE  /\ o.seq \in 1..Len(ledger')
                    /\ ledger'[o.seq].outcome = "allow"
                    /\ ledger'[o.seq].obs = o.id
                    /\ ledger'[o.seq].row = o.row
                    /\ ledger'[o.seq].hash = ObsHash(o)
  BY DEF ReceiptBehindEveryObservation, ObsHash
<1>1. Receipted(o)
  BY DEF ReceiptBehindEveryObservation, Receipted
<1>2. o.seq \in 1..Len(ledger') /\ ledger'[o.seq] = ledger[o.seq]
  BY <1>1, ReceiptedStays
<1>3. QED
  BY <1>1, <1>2 DEF Receipted

(* Only Store writes to the brain, and what it writes has its receipt.       *)
LEMMA TickStepBrain ==
    ASSUME TypeInv, TickStep
    PROVE  \A o \in brain' : o \in brain \/ Receipted(o)
<1>1. CASE Store
  BY <1>1 DEF Store, TypeInv, HeldOK
<1>2. CASE ~Store
  <2>1. brain' = brain
    BY <1>2 DEF TickStep, Fetch, FetchFromStart, FetchFrom, FetchFails, Abandon, durable,
                ProcessOne, ProcessDropped, ProcessDuplicate, ProcessNew, ReceiptFails,
                StoreFails, Extract, CommitWatermark, CommitFails
  <2>2. QED
    BY <2>1
<1>3. QED
  BY <1>1, <1>2

LEMMA TickStepReceipts ==
    ASSUME TypeInv, TickStep, ReceiptBehindEveryObservation
    PROVE  ReceiptBehindEveryObservation'
BY TickStepType, TickStepBrain, ReceiptsStay

-----------------------------------------------------------------------------
(* No loss, action by action.                                                *)

LEMMA NoLossStays ==
    ASSUME TypeInv, TypeInv', Grows, NoLoss, watermark' = watermark
    PROVE  NoLoss'
<1>1. watermark \in Nat /\ Len(rows) \in Nat /\ watermark <= Len(rows)
  BY DEF TypeInv, PipelineTypeOK, InTable
<1>2. ASSUME NEW r \in 1..watermark PROVE Settled(r)'
  <2>1. r \in 1..Len(rows) /\ Settled(r)
    BY <1>1 DEF NoLoss
  <2>2. QED
    BY <2>1, SettledStays
<1>3. QED
  BY <1>2 DEF NoLoss

LEMMA CoveredStays ==
    ASSUME TypeInv, TypeInv', Grows, BatchCovered, batch' = batch,
           \A r \in todo : r \in todo' \/ Settled(r)'
    PROVE  BatchCovered'
<1>1. batch.next \in Nat /\ Len(rows) \in Nat /\ batch.next <= Len(rows)
  BY DEF TypeInv, PipelineTypeOK, InTable
<1>2. ASSUME NEW r \in 1..batch.next PROVE r \in todo' \/ Settled(r)'
  <2>1. r \in 1..Len(rows)
    BY <1>1
  <2>2. CASE r \in todo
    BY <2>2
  <2>3. CASE Settled(r)
    BY <2>1, <2>3, SettledStays
  <2>4. QED
    BY <2>2, <2>3 DEF BatchCovered
<1>3. QED
  BY <1>2 DEF BatchCovered

LEMMA KeptStays ==
    ASSUME Grows, NEW h, Kept(h)
    PROVE  Kept(h)'
<1>1. PICK o \in brain : ObsHash(o) = h
  BY DEF Kept
<1>2. o \in brain'
  BY DEF Grows
<1>3. QED
  BY <1>1, <1>2 DEF Kept, ObsHash

(* The window is left alone, and an observation in hand gets to the brain.   *)
LEMMA HonestStays ==
    ASSUME Grows, WindowHonest, window' = window,
           pc \notin {"failed", "dead", "down"},
           pc = "store" => \E o \in brain' : ObsHash(o) = ObsHash(held)
    PROVE  WindowHonest'
<1>1. ASSUME NEW i \in 1..Len(window) PROVE Kept(window[i])'
  <2>1. CASE Kept(window[i])
    BY <2>1, KeptStays
  <2>2. CASE pc = "store" /\ window[i] = ObsHash(held)
    BY <2>2 DEF Kept, ObsHash
  <2>3. QED
    BY <2>1, <2>2 DEF WindowHonest
<1>2. QED
  BY <1>1 DEF WindowHonest, Kept

(* A batch read from c passes over settled rows, rows without text and items. *)
LEMMA FetchFromSafe ==
    ASSUME TypeInv, SafeInv, NEW c \in 0..Len(rows), \A r \in 1..c : Settled(r),
           pc = "fetch", FetchFrom(c), rewinds' \in Nat
    PROVE  SafeInv'
<1>1. TypeInv' /\ Grows
  BY FetchFromType
<1>2. /\ UNCHANGED <<rows, watermark, ledger, brain, window>>
      /\ todo' = ItemsAfter(c)
      /\ batch'.next = BatchEnd(c)
  BY DEF FetchFrom, durable, object
<1>3. NoLoss'
  BY <1>1, <1>2, NoLossStays DEF SafeInv
<1>4. WindowHonest'
  BY <1>1, <1>2, HonestStays DEF SafeInv
<1>5. BatchEnd(c) \in c..Len(rows) /\ Len(rows) \in Nat
  BY BatchEndInTable DEF TypeInv, PipelineTypeOK
<1>6. ASSUME NEW r \in 1..BatchEnd(c) PROVE r \in todo' \/ Settled(r)'
  <2>1. r \in 1..Len(rows) /\ (r \in 1..c \/ r \in (c + 1)..BatchEnd(c))
    BY <1>5
  <2>2. CASE r \in 1..c \/ rows[r].text = Blank
    <3>1. Settled(r)
      BY <2>2 DEF Settled
    <3>2. QED
      BY <1>1, <2>1, <3>1, SettledStays
  <2>3. CASE r \in (c + 1)..BatchEnd(c) /\ rows[r].text # Blank
    BY <1>2, <2>3 DEF ItemsAfter
  <2>4. QED
    BY <2>1, <2>2, <2>3
<1>7. BatchCovered'
  BY <1>2, <1>6 DEF BatchCovered
<1>8. QED
  BY <1>3, <1>4, <1>7 DEF SafeInv

(* A failed call leaves nothing in progress, and the window is not trusted   *)
(* again.                                                                    *)
LEMMA AbandonSafe ==
    ASSUME TypeInv, TypeInv', Grows, SafeInv, Abandon
    PROVE  SafeInv'
<1>1. watermark' = watermark /\ pc' = "failed" /\ batch'.next = 0
  BY DEF Abandon, durable, EndTick, NoBatch
<1>2. NoLoss'
  BY <1>1, NoLossStays DEF SafeInv
<1>3. BatchCovered'
  BY <1>1 DEF BatchCovered
<1>4. WindowHonest'
  BY <1>1 DEF WindowHonest
<1>5. QED
  BY <1>2, <1>3, <1>4 DEF SafeInv

(* The watermark is written over settled rows.                               *)
LEMMA CommitWatermarkSafe ==
    ASSUME TypeInv, SafeInv, CommitWatermark
    PROVE  SafeInv'
<1>1. TypeInv' /\ Grows
  BY CommitWatermarkType
<1>2. /\ pc = "items" /\ todo = {} /\ watermark' = batch.next
      /\ batch'.next = 0 /\ window' = window
  BY DEF CommitWatermark, BatchDone, NextWatermark, EndTick, NoBatch
<1>3. ASSUME NEW r \in 1..batch.next PROVE Settled(r)'
  <2>1. Settled(r)
    BY <1>2 DEF SafeInv, BatchCovered
  <2>2. r \in 1..Len(rows)
    BY DEF TypeInv, InTable, PipelineTypeOK
  <2>3. QED
    BY <1>1, <2>1, <2>2, SettledStays
<1>4. NoLoss'
  BY <1>2, <1>3 DEF NoLoss
<1>5. BatchCovered'
  BY <1>2 DEF BatchCovered
<1>6. WindowHonest'
  BY <1>1, <1>2, HonestStays DEF SafeInv
<1>7. QED
  BY <1>4, <1>5, <1>6 DEF SafeInv

LEMMA ProcessDroppedSafe ==
    ASSUME TypeInv, SafeInv, NEW r \in todo, ProcessDropped(r)
    PROVE  SafeInv'
<1>1. TypeInv' /\ Grows
  BY ProcessDroppedType
<1>2. /\ UNCHANGED <<watermark, batch, window>>
      /\ todo' = todo \ {r} /\ pc = "items"
      /\ ledger' = Append(ledger, [outcome |-> "deny", obs |-> 0, row |-> r, hash |-> None])
  BY DEF ProcessDropped, AtItem, Write
<1>3. Settled(r)'
  <2>1. ledger \in Seq(Receipt)
    BY DEF TypeInv, PipelineTypeOK
  <2>2. /\ Len(ledger) + 1 \in 1..Len(ledger')
        /\ ledger'[Len(ledger) + 1] = [outcome |-> "deny", obs |-> 0, row |-> r, hash |-> None]
    BY <1>2, <2>1
  <2>3. DeniedByReceipt(r)'
    BY <2>2 DEF DeniedByReceipt
  <2>4. QED
    BY <2>3 DEF Settled
<1>4. NoLoss'
  BY <1>1, <1>2, NoLossStays DEF SafeInv
<1>5. BatchCovered'
  BY <1>1, <1>2, <1>3, CoveredStays DEF SafeInv
<1>6. WindowHonest'
  BY <1>1, <1>2, HonestStays DEF SafeInv
<1>7. QED
  BY <1>4, <1>5, <1>6 DEF SafeInv

LEMMA ProcessDuplicateSafe ==
    ASSUME TypeInv, SafeInv, NEW r \in todo, ProcessDuplicate(r)
    PROVE  SafeInv'
<1> DEFINE receipt == [outcome |-> "allow", obs |-> ulid + 1, row |-> r, hash |-> GateHash(r)]
<1>1. TypeInv' /\ Grows
  BY ProcessDuplicateType
<1>2. /\ UNCHANGED <<watermark, batch, pc>>
      /\ todo' = todo \ {r} /\ pc = "items"
      /\ ledger' = Append(ledger, receipt)
      /\ InWindow(GateHash(r)) /\ window' = Remember(window, GateHash(r))
  BY DEF ProcessDuplicate, AtItem, Write, RememberHash
<1>3. \A i \in 1..Len(window) : Kept(window[i])
  BY <1>2 DEF SafeInv, WindowHonest
<1>4. Kept(GateHash(r))
  BY <1>2, <1>3 DEF InWindow
<1>5. PICK o \in brain' : ObsHash(o) = GateHash(r)
  BY <1>1, <1>4 DEF Kept, Grows
<1>6. Settled(r)'
  <2>1. ledger \in Seq(Receipt)
    BY DEF TypeInv, PipelineTypeOK
  <2>2. Len(ledger) + 1 \in 1..Len(ledger') /\ ledger'[Len(ledger) + 1] = receipt
    BY <1>2, <2>1
  <2>3. StoredByReceipt(r)'
    BY <1>5, <2>2 DEF StoredByReceipt, Kept, ObsHash
  <2>4. QED
    BY <2>3 DEF Settled
<1>7. NoLoss'
  BY <1>1, <1>2, NoLossStays DEF SafeInv
<1>8. BatchCovered'
  BY <1>1, <1>2, <1>6, CoveredStays DEF SafeInv
<1>9. WindowHonest'
  <2>1. ASSUME NEW i \in 1..Len(window')
        PROVE  \E q \in brain' : ObsHash(q) = window'[i]
    <3>1. window'[i] = GateHash(r) \/ \E j \in 1..Len(window) : window'[i] = window[j]
      BY <1>2, GateTypes, RememberType DEF TypeInv, PipelineTypeOK
    <3>2. QED
      BY <1>1, <1>3, <1>5, <3>1 DEF Kept, Grows
  <2>2. QED
    BY <2>1 DEF WindowHonest, Kept, ObsHash
<1>10. QED
  BY <1>7, <1>8, <1>9 DEF SafeInv

LEMMA ProcessNewSafe ==
    ASSUME TypeInv, SafeInv, NEW r \in todo, ProcessNew(r)
    PROVE  SafeInv'
<1>1. TypeInv' /\ Grows
  BY ProcessNewType
<1>2. /\ UNCHANGED <<watermark, batch, todo>>
      /\ pc = "items" /\ pc' = "store"
      /\ window' = Remember(window, GateHash(r))
      /\ held'.app = rows[r].app /\ held'.text = GateText(r)
  BY DEF ProcessNew, AtItem, RememberHash
<1>3. NoLoss'
  BY <1>1, <1>2, NoLossStays DEF SafeInv
<1>4. BatchCovered'
  BY <1>1, <1>2, CoveredStays DEF SafeInv
<1>5. WindowHonest'
  <2>1. \A i \in 1..Len(window) : Kept(window[i])
    BY <1>2 DEF SafeInv, WindowHonest
  <2>2. GateHash(r) = <<held'.app, held'.text>>
    BY <1>2 DEF GateHash
  <2>3. ASSUME NEW i \in 1..Len(window')
        PROVE  \/ window'[i] = <<held'.app, held'.text>>
               \/ \E q \in brain' : ObsHash(q) = window'[i]
    <3>1. window'[i] = GateHash(r) \/ \E j \in 1..Len(window) : window'[i] = window[j]
      BY <1>2, GateTypes, RememberType DEF TypeInv, PipelineTypeOK
    <3>2. QED
      BY <1>1, <2>1, <2>2, <3>1 DEF Kept, Grows
  <2>4. QED
    BY <1>2, <2>3 DEF WindowHonest, Kept, ObsHash
<1>6. QED
  BY <1>3, <1>4, <1>5 DEF SafeInv

LEMMA StoreSafe ==
    ASSUME TypeInv, SafeInv, Store
    PROVE  SafeInv'
<1>1. TypeInv' /\ Grows
  BY StoreType
<1>2. /\ UNCHANGED <<watermark, batch, todo, window>>
      /\ pc = "store" /\ held \in brain'
  BY DEF Store, object, locals
<1>3. NoLoss'
  BY <1>1, <1>2, NoLossStays DEF SafeInv
<1>4. BatchCovered'
  BY <1>1, <1>2, CoveredStays DEF SafeInv
<1>5. WindowHonest'
  BY <1>1, <1>2, HonestStays DEF SafeInv
<1>6. QED
  BY <1>3, <1>4, <1>5 DEF SafeInv

LEMMA ExtractSafe ==
    ASSUME TypeInv, SafeInv, Extract
    PROVE  SafeInv'
<1>1. TypeInv' /\ Grows
  BY ExtractType
<1>2. /\ UNCHANGED <<watermark, batch, window>>
      /\ pc = "extract" /\ todo' = todo \ {held.row}
  BY DEF Extract
<1>3. held.row \in todo /\ Receipted(held) /\ held \in brain
  BY <1>2 DEF TypeInv, HeldOK
<1>4. Settled(held.row)
  <2>1. StoredByReceipt(held.row)
    BY <1>3 DEF StoredByReceipt, Kept, Receipted
  <2>2. QED
    BY <2>1 DEF Settled
<1>5. \A r \in todo : r \in todo' \/ Settled(r)'
  <2>1. ASSUME NEW r \in todo, r = held.row PROVE Settled(r)'
    BY <1>1, <1>4, <2>1, SettledStays DEF TypeInv, TodoOK
  <2>2. QED
    BY <1>2, <2>1
<1>6. NoLoss'
  BY <1>1, <1>2, NoLossStays DEF SafeInv
<1>7. BatchCovered'
  BY <1>1, <1>2, <1>5, CoveredStays DEF SafeInv
<1>8. WindowHonest'
  BY <1>1, <1>2, HonestStays DEF SafeInv
<1>9. QED
  BY <1>6, <1>7, <1>8 DEF SafeInv

(* Every step of a running tick keeps the rows it covers.                    *)
LEMMA TickStepSafe ==
    ASSUME TypeInv, SafeInv, TickStep
    PROVE  SafeInv'
<1>1. CASE Fetch
  <2>1. watermark \in 0..Len(rows) /\ \A r \in 1..watermark : Settled(r)
    BY DEF TypeInv, InTable, PipelineTypeOK, SafeInv, NoLoss
  <2>2. pc = "fetch" /\ FetchFrom(watermark) /\ rewinds' \in Nat
    BY <1>1 DEF Fetch, TypeInv, PipelineTypeOK
  <2>3. QED
    BY <2>1, <2>2, FetchFromSafe
<1>2. CASE FetchFromStart
  <2>1. 0 \in 0..Len(rows) /\ \A r \in 1..0 : Settled(r)
    BY DEF TypeInv, PipelineTypeOK
  <2>2. pc = "fetch" /\ FetchFrom(0) /\ rewinds' \in Nat
    BY <1>2 DEF FetchFromStart, TypeInv, PipelineTypeOK
  <2>3. QED
    BY <2>1, <2>2, FetchFromSafe
<1>3. CASE FetchFails \/ CommitFails \/ StoreFails \/ \E r \in todo : ReceiptFails(r)
  <2>1. Abandon
    BY <1>3 DEF FetchFails, CommitFails, StoreFails, ReceiptFails
  <2>2. QED
    BY <2>1, TickStepType, AbandonSafe
<1>4. CASE \E r \in todo : ProcessDropped(r) \/ ProcessDuplicate(r) \/ ProcessNew(r)
  BY <1>4, ProcessDroppedSafe, ProcessDuplicateSafe, ProcessNewSafe
<1>5. CASE Store \/ Extract \/ CommitWatermark
  BY <1>5, StoreSafe, ExtractSafe, CommitWatermarkSafe
<1>6. QED
  BY <1>1, <1>2, <1>3, <1>4, <1>5 DEF TickStep, ProcessOne

(* A new row changes the fate of none.                                       *)
LEMMA FrameArrivesSafe ==
    ASSUME TypeInv, SafeInv, FrameArrives
    PROVE  SafeInv'
<1>1. TypeInv' /\ Grows
  BY FrameArrivesType
<1>2. UNCHANGED <<watermark, brain, window, pc, batch, todo, held>>
  BY DEF FrameArrives, durable, object, locals
<1>3. NoLoss'
  BY <1>1, <1>2, NoLossStays DEF SafeInv
<1>4. BatchCovered'
  BY <1>1, <1>2, CoveredStays DEF SafeInv
<1>5. WindowHonest'
  BY <1>2 DEF SafeInv, WindowHonest, Kept, ObsHash
<1>6. QED
  BY <1>3, <1>4, <1>5 DEF SafeInv

LEMMA BeginTickSafe ==
    ASSUME TypeInv, SafeInv, BeginTick
    PROVE  SafeInv'
<1>1. TypeInv' /\ Grows
  BY BeginTickType
<1>2. UNCHANGED <<watermark, window, batch, todo>> /\ pc = "idle"
  BY DEF BeginTick, durable, object, locals
<1>3. NoLoss'
  BY <1>1, <1>2, NoLossStays DEF SafeInv
<1>4. BatchCovered'
  BY <1>1, <1>2, CoveredStays DEF SafeInv
<1>5. WindowHonest'
  BY <1>1, <1>2, HonestStays DEF SafeInv
<1>6. QED
  BY <1>3, <1>4, <1>5 DEF SafeInv

-----------------------------------------------------------------------------
(* The daemon.                                                               *)

(* The inductive invariant.  The last part says a tick that is past its     *)
(* pause check has fetched nothing since the last Pause.                    *)
PauseInv ==
    /\ late <= 1
    /\ (~paused \/ pc = "fetch") => late = 0

IInv == TypeOK /\ TypeInv /\ SafeInv /\ ReceiptBehindEveryObservation /\ PauseInv

-----------------------------------------------------------------------------
LEMMA InitInv == Init => IInv
<1> SUFFICES ASSUME Init PROVE IInv
  OBVIOUS
<1>1. /\ rows = <<>> /\ watermark = 0 /\ ledger = <<>> /\ brain = {} /\ derived = {}
      /\ policy \in Policies /\ window = <<>> /\ open = None
      /\ stats = [fetched |-> 0, dropped |-> 0, deduped |-> 0, stored |-> 0]
      /\ pausedFlag = FALSE /\ pc = "idle" /\ batch = [next |-> 0, count |-> 0]
      /\ todo = {} /\ held = None /\ ulid = 0 /\ recorded = 0 /\ life = 0
      /\ faults = 0 /\ rewinds = 0
      /\ paused = FALSE /\ late = 0 /\ pauses = 0 /\ shown = NoStats
  BY DEF Init, InitPipeline, NoStats, NoBatch
<1>2. NoStats \in Stats
  BY DEF NoStats, Stats
<1>3. PipelineTypeOK
  <2>1. <<>> \in Seq(Frames) /\ <<>> \in Seq(Receipt) /\ <<>> \in Seq(Hash)
    OBVIOUS
  <2>2. stats \in Stats /\ batch \in [next : Nat, count : Nat]
    BY <1>1, <1>2 DEF NoStats
  <2>3. brain \subseteq Observation /\ derived \subseteq [obs : Nat, added : BOOLEAN]
    BY <1>1
  <2>4. QED
    BY <1>1, <2>1, <2>2, <2>3 DEF PipelineTypeOK
<1>4. TypeOK
  BY <1>1, <1>2, <1>3 DEF TypeOK
<1>5. TypeInv
  BY <1>1, <1>3 DEF TypeInv, InTable, TodoOK, HeldOK
<1>6. SafeInv
  BY <1>1 DEF SafeInv, NoLoss, BatchCovered, WindowHonest
<1>7. ReceiptBehindEveryObservation /\ PauseInv
  BY <1>1 DEF ReceiptBehindEveryObservation, PauseInv
<1>8. QED
  BY <1>4, <1>5, <1>6, <1>7 DEF IInv

-----------------------------------------------------------------------------
(* Steps that leave the rows, the durable state and the locals of a tick as  *)
(* they are; the place in the code, the window and the policy may change.    *)
LEMMA QuietStep ==
    ASSUME IInv, TypeOK',
           UNCHANGED <<rows, durable, todo, batch, held>>,
           pc' = pc \/ pc' \in {"idle", "dead"},
           \/ window' = <<>>
           \/ /\ window' = window
              /\ pc' = pc \/ pc' = "dead" \/ pc \in {"paused", "exhausted", "drained"}
    PROVE  TypeInv' /\ SafeInv' /\ ReceiptBehindEveryObservation' /\ Grows
<1>1. /\ UNCHANGED <<rows, watermark, ledger, brain, derived, todo, batch, held>>
  BY DEF durable
<1>2. TypeInv'
  BY <1>1 DEF IInv, TypeInv, TypeOK, InTable, TodoOK, HeldOK, Receipted, ObsHash
<1>3. Grows
  BY <1>1 DEF Grows, IInv, TypeInv, PipelineTypeOK
<1>4. NoLoss'
  BY <1>1, <1>2, <1>3, NoLossStays DEF IInv, SafeInv
<1>5. BatchCovered'
  BY <1>1, <1>2, <1>3, CoveredStays DEF IInv, SafeInv
<1>6. ReceiptBehindEveryObservation'
  BY <1>1 DEF IInv, ReceiptBehindEveryObservation, ObsHash
<1>7. WindowHonest'
  <2>1. CASE window' = <<>>
    BY <2>1 DEF WindowHonest
  <2>2. CASE pc' = "dead"
    BY <2>2 DEF WindowHonest
  <2>3. CASE window' = window /\ (pc' = pc \/ pc \in {"paused", "exhausted", "drained"})
    BY <1>1, <2>3 DEF IInv, SafeInv, WindowHonest, Kept, ObsHash
  <2>4. QED
    BY <2>1, <2>2, <2>3
<1>8. QED
  BY <1>2, <1>3, <1>4, <1>5, <1>6, <1>7 DEF SafeInv

(* The process dies in the middle of anything.                               *)
LEMMA CrashKeeps ==
    ASSUME IInv, Crash
    PROVE  IInv' /\ Grows
<1>1. /\ UNCHANGED <<rows, watermark, ledger, brain, derived, policy, window, open, stats,
                     recorded, pausedFlag, ulid, faults, rewinds, paused, shown, late, pauses>>
      /\ pc' = "down" /\ life' = life + 1
      /\ todo' = {} /\ batch' = [next |-> 0, count |-> 0] /\ held' = None
  BY DEF Crash, EndTick, NoBatch, durable, object, daemonVars
<1>2. TypeOK'
  BY <1>1 DEF IInv, TypeOK, PipelineTypeOK
<1>3. TypeInv'
  BY <1>1, <1>2 DEF IInv, TypeInv, TypeOK, InTable, TodoOK, HeldOK, PipelineTypeOK
<1>4. Grows
  BY <1>1 DEF Grows, IInv, TypeInv, PipelineTypeOK
<1>5. NoLoss'
  BY <1>1, <1>3, <1>4, NoLossStays DEF IInv, SafeInv
<1>6. BatchCovered' /\ WindowHonest'
  BY <1>1 DEF BatchCovered, WindowHonest
<1>7. ReceiptBehindEveryObservation'
  BY <1>1 DEF IInv, ReceiptBehindEveryObservation, ObsHash
<1>8. PauseInv'
  BY <1>1 DEF IInv, PauseInv
<1>9. QED
  BY <1>2, <1>3, <1>4, <1>5, <1>6, <1>7, <1>8 DEF IInv, SafeInv

LEMMA StartKeeps ==
    ASSUME IInv, Start
    PROVE  IInv' /\ Grows
<1>1. /\ UNCHANGED <<rows, watermark, ledger, brain, derived, batch, todo, held, ulid, life,
                     faults, rewinds, pauses>>
      /\ pc = "down" /\ pc' = "idle"
      /\ paused' = FALSE /\ shown' = NoStats /\ late' = 0
      /\ window' = <<>> /\ open' = None /\ stats' = NoStats /\ pausedFlag' = FALSE
      /\ recorded' = 0 /\ policy' \in Policies
  BY DEF Start, NewPipeline, durable, locals
<1>2. NoStats \in Stats
  BY DEF NoStats, Stats
<1>3. PipelineTypeOK'
  <2>1. window' \in Seq(Hash) /\ stats' \in Stats
    BY <1>1, <1>2
  <2>2. PipelineTypeOK
    BY DEF IInv, TypeOK
  <2>3. QED
    BY <1>1, <2>1, <2>2 DEF PipelineTypeOK
<1>4. TypeOK'
  BY <1>1, <1>2, <1>3 DEF IInv, TypeOK
<1>5. UNCHANGED <<rows, durable, todo, batch, held>>
  BY <1>1 DEF durable
<1>6. TypeInv' /\ SafeInv' /\ ReceiptBehindEveryObservation' /\ Grows
  BY <1>1, <1>4, <1>5, QuietStep
<1>7. PauseInv'
  BY <1>1 DEF PauseInv
<1>8. QED
  BY <1>4, <1>6, <1>7 DEF IInv

(* Pause and Resume, and the drain loop between ticks.                       *)
LEMMA ControlKeeps ==
    ASSUME IInv, Pause \/ Resume \/ LoopAgain \/ LoopDies
    PROVE  IInv' /\ Grows
<1>1. /\ UNCHANGED <<rows, watermark, ledger, brain, derived, policy, window, open, stats,
                     recorded, pausedFlag, batch, todo, held, ulid, life, faults, rewinds>>
      /\ \/ pc' = pc
         \/ pc' = "idle" /\ pc \in {"paused", "exhausted", "drained"}
         \/ pc' = "dead" /\ pc = "failed"
  BY DEF Pause, Resume, LoopAgain, LoopDies, pipelineVars, durable, object, locals
<1>2. PipelineTypeOK'
  BY <1>1 DEF IInv, TypeOK, PipelineTypeOK
<1>3. paused' \in BOOLEAN /\ shown' \in Stats /\ late' \in Nat /\ pauses' \in Nat
  <2>1. /\ paused \in BOOLEAN /\ shown \in Stats /\ late \in Nat /\ pauses \in Nat
        /\ stats \in Stats
    BY DEF IInv, TypeOK, PipelineTypeOK
  <2>2. paused' \in {paused, TRUE, FALSE}
    BY DEF Pause, Resume, LoopAgain, LoopDies, daemonVars
  <2>3. shown' \in {shown, stats}
    BY DEF Pause, Resume, LoopAgain, LoopDies, daemonVars, Mirrored
  <2>4. late' \in {late, 0} /\ pauses' \in {pauses, pauses + 1}
    BY DEF Pause, Resume, LoopAgain, LoopDies, daemonVars
  <2>5. paused' \in BOOLEAN
    BY <2>1, <2>2
  <2>6. QED
    BY <2>1, <2>3, <2>4, <2>5
<1>4. TypeOK'
  BY <1>2, <1>3 DEF TypeOK
<1>5. UNCHANGED <<rows, durable, todo, batch, held>>
  BY <1>1 DEF durable
<1>6. TypeInv' /\ SafeInv' /\ ReceiptBehindEveryObservation' /\ Grows
  BY <1>1, <1>4, <1>5, QuietStep
<1>7. PauseInv'
  BY DEF Pause, Resume, LoopAgain, LoopDies, daemonVars, pipelineVars, IInv, PauseInv
<1>8. QED
  BY <1>4, <1>6, <1>7 DEF IInv

LEMMA LoopTickKeeps ==
    ASSUME IInv, LoopTick
    PROVE  IInv' /\ Grows
<1>1. BeginTick /\ ~paused /\ UNCHANGED <<paused, shown, late, pauses>>
  BY DEF LoopTick, daemonVars
<1>2. TypeInv' /\ SafeInv' /\ Grows
  BY <1>1, BeginTickType, BeginTickSafe DEF IInv
<1>3. TypeOK'
  BY <1>1, <1>2 DEF IInv, TypeOK, TypeInv
<1>4. ReceiptBehindEveryObservation'
  <2>1. UNCHANGED <<ledger, brain>>
    BY <1>1 DEF BeginTick, durable
  <2>2. QED
    BY <2>1 DEF IInv, ReceiptBehindEveryObservation, ObsHash
<1>5. PauseInv'
  BY <1>1 DEF IInv, PauseInv
<1>6. QED
  BY <1>2, <1>3, <1>4, <1>5 DEF IInv

LEMMA TickingKeeps ==
    ASSUME IInv, Ticking
    PROVE  IInv' /\ Grows
<1>1. /\ TickStep
      /\ late' = IF paused /\ pc = "fetch" THEN late + 1 ELSE late
      /\ UNCHANGED <<paused, shown, pauses>>
  BY DEF Ticking
<1>2. TypeInv' /\ Grows /\ SafeInv' /\ ReceiptBehindEveryObservation'
  BY <1>1, TickStepType, TickStepSafe, TickStepReceipts DEF IInv
<1>3. TypeOK'
  BY <1>1, <1>2 DEF IInv, TypeOK, TypeInv
<1>4. pc' # "fetch"
  BY <1>1 DEF TickStep, Fetch, FetchFromStart, FetchFrom, FetchFails, Abandon,
              ProcessOne, ProcessDropped, ProcessDuplicate, ProcessNew, ReceiptFails,
              AtItem, Store, StoreFails, Extract, CommitWatermark, CommitFails, Answer
<1>5. PauseInv'
  BY <1>1, <1>4 DEF IInv, PauseInv
<1>6. QED
  BY <1>2, <1>3, <1>5 DEF IInv

LEMMA ArrivalKeeps ==
    ASSUME IInv, FrameArrives, UNCHANGED daemonVars
    PROVE  IInv' /\ Grows
<1>1. UNCHANGED <<ledger, brain, pc, paused, shown, late, pauses>>
  BY DEF FrameArrives, durable, daemonVars
<1>2. TypeInv' /\ SafeInv' /\ Grows
  BY FrameArrivesType, FrameArrivesSafe DEF IInv
<1>3. TypeOK'
  BY <1>1, <1>2 DEF IInv, TypeOK, TypeInv
<1>4. ReceiptBehindEveryObservation'
  BY <1>1 DEF IInv, ReceiptBehindEveryObservation, ObsHash
<1>5. PauseInv'
  BY <1>1 DEF IInv, PauseInv
<1>6. QED
  BY <1>2, <1>3, <1>4, <1>5 DEF IInv

LEMMA NextKeeps == IInv /\ Next => IInv' /\ Grows
BY ArrivalKeeps, LoopTickKeeps, TickingKeeps, ControlKeeps, CrashKeeps, StartKeeps
   DEF Next, DrainLoop

LEMMA StutterKeeps == IInv /\ UNCHANGED vars => IInv'
<1> SUFFICES ASSUME IInv, UNCHANGED vars PROVE IInv'
  OBVIOUS
<1>1. UNCHANGED <<rows, watermark, ledger, brain, derived, policy, window, open, stats,
                  pausedFlag, pc, batch, todo, held, ulid, recorded, life, faults, rewinds,
                  paused, shown, late, pauses>>
  BY DEF vars, pipelineVars, daemonVars
<1>2. TypeOK' /\ TypeInv'
  BY <1>1 DEF IInv, TypeOK, TypeInv, PipelineTypeOK, InTable, TodoOK, HeldOK, Receipted,
              ObsHash
<1>3. ReceiptBehindEveryObservation' /\ PauseInv'
  BY <1>1 DEF IInv, ReceiptBehindEveryObservation, ObsHash, PauseInv
<1>4. Grows
  BY <1>1 DEF Grows, IInv, TypeInv, PipelineTypeOK
<1>5. NoLoss' /\ BatchCovered'
  BY <1>1, <1>2, <1>4, NoLossStays, CoveredStays DEF IInv, SafeInv
<1>6. WindowHonest'
  BY <1>1 DEF IInv, SafeInv, WindowHonest, Kept, ObsHash
<1>7. QED
  BY <1>2, <1>3, <1>5, <1>6 DEF IInv, SafeInv

-----------------------------------------------------------------------------
(* Theorems.                                                                 *)

(* The inductive invariant holds of every reachable state of the daemon.     *)
THEOREM Invariance == Spec => []IInv
<1>1. Init => IInv
  BY InitInv
<1>2. IInv /\ [Next]_vars => IInv'
  BY NextKeeps, StutterKeeps
<1>3. QED
  BY <1>1, <1>2, PTL DEF Spec

(* The daemon's variables keep their types through ticks, crashes, restarts  *)
(* and control requests.                                                     *)
THEOREM TypeCorrect == Spec => []TypeOK
<1>1. IInv => TypeOK
  BY DEF IInv
<1>2. QED
  BY <1>1, Invariance, PTL

(* No captured row at or below the watermark is lost: each had no text, was  *)
(* denied by a receipt, or has an Allow receipt and its content in the brain *)
(* (tick's watermark after the batch, process_one's receipt before store).   *)
THEOREM NothingLost == Spec => []NoLoss
<1>1. IInv => NoLoss
  BY DEF IInv, SafeInv
<1>2. QED
  BY <1>1, Invariance, PTL

(* Every stored observation has its Allow receipt at the chain position its  *)
(* redactions carry (process_one appends it before Store::store).            *)
THEOREM ReceiptsBehind == Spec => []ReceiptBehindEveryObservation
<1>1. IInv => ReceiptBehindEveryObservation
  BY DEF IInv
<1>2. QED
  BY <1>1, Invariance, PTL

(* After a Pause is answered at most one more batch is fetched (the check of *)
(* drain_loop comes before tick, not inside it).                             *)
THEOREM PauseIsBounded == Spec => []PauseBound
<1>1. IInv => PauseBound
  BY DEF IInv, PauseInv, PauseBound
<1>2. QED
  BY <1>1, Invariance, PTL

-----------------------------------------------------------------------------
(* The daemon implements DurableIngest.                                      *)

LEMMA InitRefines == Init => Durable!Init
BY DEF Init, InitPipeline, Durable!Init

(* A step that leaves the rows alone settles rows and unsettles none.        *)
LEMMA SettlingStep ==
    ASSUME IInv, IInv', Grows, rows' = rows, watermark' = watermark
    PROVE  Durable!Settle
<1>1. \A r \in 1..Len(rows) : Settled(r) => Settled(r)'
  BY SettledStays DEF IInv
<1>2. QED
  BY <1>1 DEF Durable!Settle

LEMMA ArrivalRefines ==
    ASSUME IInv, FrameArrives
    PROVE  Durable!Arrive
<1>1. PICK f \in Frames : rows' = Append(rows, f)
  BY DEF FrameArrives
<1>2. UNCHANGED <<watermark, ledger, brain>>
  BY DEF FrameArrives, durable
<1>3. rows \in Seq(Frames)
  BY DEF IInv, TypeOK, PipelineTypeOK
<1>4. Len(rows') = Len(rows) + 1 /\ \A r \in 1..Len(rows) : rows'[r] = rows[r]
  BY <1>1, <1>3
<1>5. \A r \in 1..Len(rows) : Settled(r)' <=> Settled(r)
  BY <1>2, <1>4 DEF Settled, DeniedByReceipt, StoredByReceipt, Kept, ObsHash
<1>6. \A r : r \in 1..Len(rows') <=> (r \in 1..Len(rows) \/ r = Len(rows) + 1)
  BY <1>3, <1>4
<1>7. QED
  BY <1>2, <1>4, <1>5, <1>6 DEF Durable!Arrive

LEMMA CommitRefines ==
    ASSUME IInv, IInv', CommitWatermark
    PROVE  Durable!Next
<1>1. UNCHANGED <<rows, ledger, brain>>
  BY DEF CommitWatermark
<1>2. {r \in 1..Len(rows) : Settled(r)}' = {r \in 1..Len(rows) : Settled(r)}
  BY <1>1 DEF Settled, DeniedByReceipt, StoredByReceipt, Kept, ObsHash
<1>3. /\ watermark \in Nat /\ watermark' \in Nat /\ Len(rows) \in Nat
      /\ watermark' <= Len(rows)
  BY <1>1 DEF IInv, TypeOK, TypeInv, PipelineTypeOK, InTable
<1>4. 1..watermark' \subseteq {r \in 1..Len(rows) : Settled(r)}'
  BY <1>1, <1>3 DEF IInv, SafeInv, NoLoss
<1>5. CASE watermark' >= watermark
  BY <1>1, <1>2, <1>3, <1>4, <1>5 DEF Durable!Confirm, Durable!Next
<1>6. CASE watermark' <= watermark
  BY <1>1, <1>2, <1>3, <1>6 DEF Durable!Rewind, Durable!Next
<1>7. QED
  BY <1>3, <1>5, <1>6

LEMMA NextRefines == IInv /\ IInv' /\ [Next]_vars => [Durable!Next]_(Durable!vars)
<1> SUFFICES ASSUME IInv, IInv', [Next]_vars
             PROVE  Durable!Next \/ UNCHANGED Durable!vars
  OBVIOUS
<1>1. CASE FrameArrives
  BY <1>1, ArrivalRefines DEF Durable!Next
<1>2. CASE CommitWatermark
  BY <1>2, CommitRefines
<1>3. CASE Next /\ ~FrameArrives /\ ~CommitWatermark
  <2>1. rows' = rows /\ watermark' = watermark
    BY <1>3 DEF Next, DrainLoop, LoopTick, BeginTick, Ticking, TickStep, LoopAgain, LoopDies,
                Pause, Resume, Crash, Start, pipelineVars, durable, Fetch, FetchFromStart,
                FetchFrom, FetchFails, Abandon, ProcessOne, ProcessDropped, ProcessDuplicate,
                ProcessNew, ReceiptFails, Store, StoreFails, Extract, CommitFails
  <2>2. QED
    BY <1>3, <2>1, NextKeeps, SettlingStep DEF Durable!Next
<1>4. CASE UNCHANGED vars
  BY <1>4 DEF vars, pipelineVars, Durable!vars, Settled, DeniedByReceipt, StoredByReceipt,
              Kept, ObsHash
<1>5. QED
  BY <1>1, <1>2, <1>3, <1>4

(* Whatever crashes, fails or is edited, the daemon behaves as DurableIngest: *)
(* a settled row stays settled, and only settled rows are confirmed.         *)
THEOREM DaemonImplementsDurableIngest == Spec => ImplementsDurableIngest
<1>1. Init => Durable!Init
  BY InitRefines
<1>2. IInv /\ IInv' /\ [Next]_vars => [Durable!Next]_(Durable!vars)
  BY NextRefines
<1>3. QED
  BY <1>1, <1>2, Invariance, PTL DEF Spec, ImplementsDurableIngest, Durable!Spec

-----------------------------------------------------------------------------
(* The counters, with what the two steps between ticks need: the items left  *)
(* are finitely many, and a tick refused by the pause check changed nothing. *)
CountInv ==
    /\ IsFiniteSet(todo)
    /\ pc \in {"idle", "fetch", "paused", "exhausted", "drained"} => Processed = stats.fetched
    /\ pc \in {"items", "store", "extract"} =>
           Processed = stats.fetched + batch.count - Cardinality(todo)
    /\ pc \in {"idle", "fetch", "paused"} => shown = stats

LEMMA CountInit == Init => CountInv
<1> SUFFICES ASSUME Init PROVE CountInv
  OBVIOUS
<1>1. todo = {} /\ pc = "idle" /\ stats = NoStats /\ shown = NoStats
  BY DEF Init, InitPipeline
<1>2. Processed = stats.fetched
  BY <1>1 DEF Processed, NoStats
<1>3. QED
  BY <1>1, <1>2, FS_EmptySet DEF CountInv

(* One item is taken from the batch and counted once.                        *)
LEMMA CountItem ==
    ASSUME TypeInv, CountInv, NEW r \in todo, todo' = todo \ {r}, batch' = batch,
           pc \in {"items", "store", "extract"}, pc' = "items",
           NEW field \in {"dropped", "deduped", "stored"}, Count(field)
    PROVE  CountInv'
<1>1. IsFiniteSet(todo') /\ Cardinality(todo') = Cardinality(todo) - 1
  BY FS_RemoveElement DEF CountInv
<1>2. Cardinality(todo) \in Nat /\ Cardinality(todo') \in Nat
  BY <1>1, FS_CardinalityType DEF CountInv
<1>3. /\ stats.fetched \in Nat /\ stats.dropped \in Nat /\ stats.deduped \in Nat
      /\ stats.stored \in Nat /\ batch.count \in Nat
      /\ stats = [fetched |-> stats.fetched, dropped |-> stats.dropped,
                  deduped |-> stats.deduped, stored |-> stats.stored]
  BY DEF TypeInv, PipelineTypeOK, Stats
<1>4. stats' = [stats EXCEPT ![field] = @ + 1]
  BY DEF Count
<1>5. stats'.fetched = stats.fetched /\ Processed' = Processed + 1
  BY <1>3, <1>4 DEF Processed
<1>6. Processed = stats.fetched + batch.count - Cardinality(todo)
  BY DEF CountInv
<1>7. Processed' = stats'.fetched + batch'.count - Cardinality(todo')
  BY <1>1, <1>2, <1>3, <1>5, <1>6
<1>8. QED
  BY <1>1, <1>7 DEF CountInv

LEMMA CountFetch ==
    ASSUME TypeInv, CountInv, pc = "fetch", NEW c \in 0..Len(rows), FetchFrom(c)
    PROVE  CountInv'
<1>1. /\ todo' = ItemsAfter(c) /\ batch'.count = Cardinality(ItemsAfter(c))
      /\ pc' = "items" /\ stats' = stats
  BY DEF FetchFrom, object
<1>2. BatchEnd(c) \in c..Len(rows)
  BY BatchEndInTable DEF TypeInv
<1>3. IsFiniteSet((c + 1)..BatchEnd(c))
  BY <1>2, FS_Interval DEF TypeInv, PipelineTypeOK
<1>4. IsFiniteSet(ItemsAfter(c))
  BY <1>3, FS_Subset DEF ItemsAfter
<1>5. Cardinality(ItemsAfter(c)) \in Nat /\ stats.fetched \in Nat
  BY <1>4, FS_CardinalityType DEF TypeInv, PipelineTypeOK, Stats
<1>6. Processed' = stats'.fetched /\ stats'.fetched = stats.fetched
  BY <1>1 DEF CountInv, Processed
<1>7. QED
  BY <1>1, <1>4, <1>5, <1>6 DEF CountInv

LEMMA CountCommit ==
    ASSUME TypeInv, CountInv, CommitWatermark
    PROVE  CountInv'
<1>1. /\ pc = "items" /\ todo = {} /\ todo' = {} /\ pc' \in {"exhausted", "drained"}
      /\ stats' = [stats EXCEPT !.fetched = @ + batch.count]
  BY DEF CommitWatermark, BatchDone, Answer, EndTick
<1>2. stats \in Stats /\ batch.count \in Nat
  BY DEF TypeInv, PipelineTypeOK
<1>3. Cardinality(todo) = 0
  BY <1>1, FS_EmptySet
<1>4. Processed = stats.fetched + batch.count
  BY <1>1, <1>2, <1>3 DEF CountInv, Stats
<1>5. Processed' = Processed /\ stats'.fetched = stats.fetched + batch.count
  BY <1>1, <1>2 DEF Processed, Stats
<1>6. QED
  BY <1>1, <1>4, <1>5, FS_EmptySet DEF CountInv

LEMMA CountKeeps == IInv /\ CountInv /\ [Next]_vars => CountInv'
<1> SUFFICES ASSUME IInv, CountInv, [Next]_vars PROVE CountInv'
  OBVIOUS
<1> USE DEF IInv
<1>1. CASE Ticking
  <2>1. CASE Fetch
    BY <2>1, CountFetch DEF Fetch, TypeInv, InTable, PipelineTypeOK
  <2>2. CASE FetchFromStart
    BY <2>2, CountFetch DEF FetchFromStart, TypeInv, PipelineTypeOK
  <2>3. CASE \E r \in todo : ProcessDropped(r) \/ ProcessDuplicate(r)
    BY <2>3, CountItem DEF ProcessDropped, ProcessDuplicate, AtItem
  <2>4. CASE Extract
    <3>1. held.row \in todo
      BY <2>4 DEF Extract, TypeInv, HeldOK
    <3>2. QED
      BY <2>4, <3>1, CountItem DEF Extract
  <2>5. CASE Store \/ \E r \in todo : ProcessNew(r)
    <3>1. /\ pc \in {"items", "store"} /\ pc' \in {"store", "extract"}
          /\ UNCHANGED <<stats, batch, todo>>
      BY <2>5 DEF Store, ProcessNew, AtItem, object, locals
    <3>2. QED
      BY <3>1 DEF CountInv, Processed
  <2>6. CASE CommitWatermark
    BY <2>6, CountCommit
  <2>7. CASE FetchFails \/ CommitFails \/ StoreFails \/ \E r \in todo : ReceiptFails(r)
    <3>1. todo' = {} /\ pc' = "failed"
      BY <2>7 DEF FetchFails, CommitFails, StoreFails, ReceiptFails, Abandon, EndTick
    <3>2. QED
      BY <3>1, FS_EmptySet DEF CountInv
  <2>8. QED
    BY <1>1, <2>1, <2>2, <2>3, <2>4, <2>5, <2>6, <2>7 DEF Ticking, TickStep, ProcessOne
<1>2. CASE LoopTick
  <2>1. pc = "idle" /\ pc' \in {"paused", "fetch"} /\ UNCHANGED <<stats, todo, shown>>
    BY <1>2 DEF LoopTick, BeginTick, object, locals, daemonVars
  <2>2. QED
    BY <2>1 DEF CountInv, Processed
<1>3. CASE LoopAgain
  <2>1. /\ pc \in {"paused", "exhausted", "drained"} /\ pc' = "idle"
        /\ UNCHANGED <<stats, todo>> /\ shown' = Mirrored
    BY <1>3 DEF LoopAgain, object, locals
  <2>2. QED
    BY <2>1 DEF CountInv, Processed, Mirrored
<1>4. CASE Start
  <2>1. pc' = "idle" /\ stats' = NoStats /\ shown' = NoStats /\ todo' = todo
    BY <1>4 DEF Start, NewPipeline, locals
  <2>2. QED
    BY <2>1 DEF CountInv, Processed, NoStats
<1>5. CASE LoopDies \/ Crash
  <2>1. pc' \in {"dead", "down"} /\ (todo' = todo \/ todo' = {})
    BY <1>5 DEF LoopDies, Crash, EndTick, locals
  <2>2. QED
    BY <2>1, FS_EmptySet DEF CountInv
<1>6. CASE Pause \/ Resume \/ (FrameArrives /\ UNCHANGED daemonVars) \/ UNCHANGED vars
  <2>1. UNCHANGED <<stats, batch, todo, pc, shown>>
    BY <1>6 DEF Pause, Resume, FrameArrives, vars, pipelineVars, daemonVars, object, locals
  <2>2. QED
    BY <2>1 DEF CountInv, Processed
<1>7. QED
  BY <1>1, <1>2, <1>3, <1>4, <1>5, <1>6 DEF Next, DrainLoop

(* The counters account for every fetched item at every place in a tick, and *)
(* homn status shows those of the last tick (tick, process_one, drain_loop), *)
(* for every batch, however ticks fail and the daemon restarts.              *)
THEOREM CountersAccount == Spec => []StatsAccount
<1>1. CountInv => StatsAccount
  BY DEF CountInv, StatsAccount
<1>2. QED
  BY <1>1, CountInit, CountKeeps, Invariance, PTL DEF Spec

-----------------------------------------------------------------------------
(* What is replayed.                                                         *)

(* Until a watermark read fails, a batch begins behind the watermark.        *)
AheadInv == rewinds = 0 => \A r \in todo : r > watermark

LEMMA AheadKeeps == IInv /\ AheadInv /\ [Next]_vars => AheadInv'
<1> SUFFICES ASSUME IInv, AheadInv, [Next]_vars PROVE AheadInv'
  OBVIOUS
<1>1. CASE Fetch
  <2>1. /\ todo' = ItemsAfter(watermark) /\ watermark' = watermark /\ rewinds' = rewinds
    BY <1>1 DEF Fetch, FetchFrom, durable
  <2>2. watermark \in Nat /\ BatchEnd(watermark) \in Int
    BY BatchEndInTable DEF IInv, TypeInv, InTable, PipelineTypeOK
  <2>3. \A r \in ItemsAfter(watermark) : r > watermark
    BY <2>2 DEF ItemsAfter
  <2>4. QED
    BY <2>1, <2>3 DEF AheadInv
<1>2. CASE FetchFromStart
  <2>1. rewinds \in Nat /\ rewinds' = rewinds + 1
    BY <1>2 DEF FetchFromStart, IInv, TypeInv, PipelineTypeOK
  <2>2. QED
    BY <2>1 DEF AheadInv
<1>3. CASE todo' = {}
  BY <1>3 DEF AheadInv
<1>4. CASE ~Fetch /\ ~FetchFromStart /\ todo' # {}
  <2>1. todo' \subseteq todo /\ watermark' = watermark /\ rewinds' = rewinds
    BY <1>4 DEF Next, DrainLoop, LoopTick, BeginTick, Ticking, TickStep, LoopAgain, LoopDies,
                Pause, Resume, Crash, Start, FrameArrives, vars, pipelineVars, durable, locals,
                FetchFails, Abandon, EndTick, ProcessOne, ProcessDropped, ProcessDuplicate,
                ProcessNew, ReceiptFails, Store, StoreFails, Extract, CommitWatermark,
                CommitFails
  <2>2. QED
    BY <2>1 DEF AheadInv
<1>5. QED
  BY <1>1, <1>2, <1>3, <1>4

LEMMA StoredAhead ==
    IInv /\ AheadInv /\ [Next]_vars
        => (rewinds = 0 => \A o \in brain' \ brain : o.row > watermark)
<1> SUFFICES ASSUME IInv, AheadInv, [Next]_vars, rewinds = 0, NEW o \in brain' \ brain
             PROVE  o.row > watermark
  OBVIOUS
<1>1. CASE Store
  <2>1. o = held /\ held.row \in todo
    BY <1>1 DEF Store, IInv, TypeInv, HeldOK
  <2>2. QED
    BY <2>1 DEF AheadInv
<1>2. CASE ~Store
  <2>1. brain' = brain
    BY <1>2 DEF Next, DrainLoop, LoopTick, BeginTick, Ticking, TickStep, LoopAgain, LoopDies,
                Pause, Resume, Crash, Start, FrameArrives, vars, pipelineVars, durable,
                Fetch, FetchFromStart, FetchFrom, FetchFails, Abandon, ProcessOne,
                ProcessDropped, ProcessDuplicate, ProcessNew, ReceiptFails, StoreFails,
                Extract, CommitWatermark, CommitFails
  <2>2. QED
    BY <2>1
<1>3. QED
  BY <1>1, <1>2

(* Nothing at or below the watermark is stored again unless a watermark read *)
(* failed: however often the daemon crashes, it replays the batch that was   *)
(* interrupted and nothing before it (tick, get_watermark).                  *)
THEOREM ReplaysUnconfirmed == Spec => ReplayOnlyUnconfirmed
<1>1. Init => AheadInv
  BY DEF Init, InitPipeline, AheadInv
<1>2. QED
  BY <1>1, AheadKeeps, StoredAhead, Invariance, PTL DEF Spec, ReplayOnlyUnconfirmed

-----------------------------------------------------------------------------
(* Extraction.                                                               *)

(* An observation is in the brain with its extraction done, or not yet.      *)
Caught(r) ==
    \/ rows[r].text = Blank
    \/ DeniedByReceipt(r)
    \/ \E i \in 1..Len(ledger) :
           ledger[i].row = r /\ ledger[i].outcome = "allow" /\ Extracted(ledger[i].hash)

(* The rows of the batch and the hashes of the window, as in SafeInv, with   *)
(* the extraction for the store.                                             *)
BatchCaught == \A r \in 1..batch.next : r \in todo \/ Caught(r)
WindowCaught ==
    pc \notin {"failed", "dead", "down"} =>
        \A i \in 1..Len(window) :
            \/ Extracted(window[i])
            \/ pc \in {"store", "extract"} /\ window[i] = ObsHash(held)
ExtractInv == ExtractionCatchesUp /\ BatchCaught /\ WindowCaught

(* Extracted of the next state, for a hash of this one.                      *)
ExtractedNext(h) == \E o \in brain' : ObsHash(o) = h /\ \E d \in derived' : d.obs = o.id

(* What was extracted stays so.                                              *)
LEMMA ExtractedStays ==
    ASSUME Grows, derived \subseteq derived', NEW h, Extracted(h)
    PROVE  ExtractedNext(h)
BY DEF Extracted, ExtractedNext, Grows

LEMMA CaughtStays ==
    ASSUME Grows, TypeInv, derived \subseteq derived', NEW r \in 1..Len(rows), Caught(r)
    PROVE  Caught(r)'
<1>1. /\ Len(ledger) \in Nat /\ Len(ledger') >= Len(ledger)
      /\ \A i \in 1..Len(ledger) : ledger'[i] = ledger[i]
      /\ rows'[r] = rows[r]
  BY DEF Grows, TypeInv, PipelineTypeOK
<1>2. CASE rows[r].text = Blank
  BY <1>1, <1>2 DEF Caught
<1>3. CASE DeniedByReceipt(r)
  BY <1>1, <1>3 DEF Caught, DeniedByReceipt, Grows, TypeInv, PipelineTypeOK
<1>4. CASE \E i \in 1..Len(ledger) :
              ledger[i].row = r /\ ledger[i].outcome = "allow" /\ Extracted(ledger[i].hash)
  <2>1. PICK i \in 1..Len(ledger) :
              ledger[i].row = r /\ ledger[i].outcome = "allow" /\ Extracted(ledger[i].hash)
    BY <1>4
  <2>2. ledger'[i] = ledger[i] /\ ExtractedNext(ledger[i].hash)
    BY <1>1, <2>1, ExtractedStays
  <2>3. /\ i \in 1..Len(ledger') /\ ledger'[i].row = r /\ ledger'[i].outcome = "allow"
        /\ ExtractedNext(ledger'[i].hash)
    BY <1>1, <2>1, <2>2
  <2>4. Extracted(ledger[i].hash)'
    BY <2>3 DEF Extracted, ExtractedNext, ObsHash
  <2>5. QED
    BY <2>3, <2>4 DEF Caught
<1>5. QED
  BY <1>2, <1>3, <1>4 DEF Caught

LEMMA DerivedGrows == [Next]_vars => derived \subseteq derived'
<1>1. CASE Extract
  BY <1>1 DEF Extract
<1>2. CASE ~Extract
  BY <1>2 DEF Next, DrainLoop, LoopTick, BeginTick, Ticking, TickStep, LoopAgain, LoopDies,
              Pause, Resume, Crash, Start, FrameArrives, vars, pipelineVars, durable,
              Fetch, FetchFromStart, FetchFrom, FetchFails, Abandon, ProcessOne,
              ProcessDropped, ProcessDuplicate, ProcessNew, ReceiptFails, Store, StoreFails,
              CommitWatermark, CommitFails
<1>3. QED
  BY <1>1, <1>2

(* What every step has to say for itself: where the watermark and the batch  *)
(* are rewritten, what becomes of an item taken out, what is in the window.  *)
LEMMA CaughtUpStays ==
    ASSUME TypeInv, Grows, derived \subseteq derived', ExtractionCatchesUp,
           watermark' = watermark
    PROVE  ExtractionCatchesUp'
<1>1. watermark \in Nat /\ Len(rows) \in Nat /\ watermark <= Len(rows)
  BY DEF TypeInv, PipelineTypeOK, InTable
<1>2. ASSUME NEW r \in 1..watermark PROVE Caught(r)'
  <2>1. r \in 1..Len(rows) /\ Caught(r)
    BY <1>1 DEF ExtractionCatchesUp, Caught
  <2>2. QED
    BY <2>1, CaughtStays
<1>3. QED
  BY <1>2 DEF ExtractionCatchesUp, Caught

LEMMA BatchCaughtStays ==
    ASSUME TypeInv, Grows, derived \subseteq derived', BatchCaught, batch' = batch,
           \A r \in todo : r \in todo' \/ Caught(r)'
    PROVE  BatchCaught'
<1>1. batch.next \in Nat /\ Len(rows) \in Nat /\ batch.next <= Len(rows)
  BY DEF TypeInv, PipelineTypeOK, InTable
<1>2. ASSUME NEW r \in 1..batch.next PROVE r \in todo' \/ Caught(r)'
  <2>1. r \in 1..Len(rows)
    BY <1>1
  <2>2. CASE r \in todo
    BY <2>2
  <2>3. CASE Caught(r)
    BY <2>1, <2>3, CaughtStays
  <2>4. QED
    BY <2>2, <2>3 DEF BatchCaught
<1>3. QED
  BY <1>2 DEF BatchCaught

LEMMA WindowCaughtStays ==
    ASSUME Grows, derived \subseteq derived', WindowCaught, window' = window,
           pc \notin {"failed", "dead", "down"},
           pc \in {"store", "extract"} =>
               \/ ExtractedNext(ObsHash(held))
               \/ pc' \in {"store", "extract"} /\ held' = held
    PROVE  WindowCaught'
<1>1. ASSUME NEW i \in 1..Len(window)
      PROVE  \/ ExtractedNext(window[i])
             \/ pc' \in {"store", "extract"} /\ window[i] = ObsHash(held) /\ held' = held
  <2>1. CASE Extracted(window[i])
    BY <2>1, ExtractedStays
  <2>2. CASE pc \in {"store", "extract"} /\ window[i] = ObsHash(held)
    BY <2>2
  <2>3. QED
    BY <2>1, <2>2 DEF WindowCaught
<1>2. QED
  BY <1>1 DEF WindowCaught, Extracted, ExtractedNext, ObsHash

(* A batch read from c passes over caught rows, rows without text and items. *)
LEMMA FetchFromCaught ==
    ASSUME TypeInv, ExtractInv, NEW c \in 0..Len(rows), \A r \in 1..c : Caught(r),
           pc = "fetch", FetchFrom(c), rewinds' \in Nat
    PROVE  ExtractInv'
<1>1. TypeInv' /\ Grows
  BY FetchFromType
<1>2. /\ UNCHANGED <<rows, watermark, ledger, brain, derived, window>>
      /\ todo' = ItemsAfter(c)
      /\ batch'.next = BatchEnd(c)
  BY DEF FetchFrom, durable, object
<1>3. ExtractionCatchesUp' /\ WindowCaught'
  BY <1>1, <1>2, CaughtUpStays, WindowCaughtStays DEF ExtractInv
<1>4. BatchEnd(c) \in c..Len(rows) /\ Len(rows) \in Nat
  BY BatchEndInTable DEF TypeInv, PipelineTypeOK
<1>5. ASSUME NEW r \in 1..BatchEnd(c) PROVE r \in todo' \/ Caught(r)'
  <2>1. r \in 1..Len(rows) /\ (r \in 1..c \/ r \in (c + 1)..BatchEnd(c))
    BY <1>4
  <2>2. CASE r \in 1..c \/ rows[r].text = Blank
    <3>1. Caught(r)
      BY <2>2 DEF Caught
    <3>2. QED
      BY <1>1, <1>2, <2>1, <3>1, CaughtStays
  <2>3. CASE r \in (c + 1)..BatchEnd(c) /\ rows[r].text # Blank
    BY <1>2, <2>3 DEF ItemsAfter
  <2>4. QED
    BY <2>1, <2>2, <2>3
<1>6. BatchCaught'
  BY <1>2, <1>5 DEF BatchCaught
<1>7. QED
  BY <1>3, <1>6 DEF ExtractInv

LEMMA CommitCaught ==
    ASSUME TypeInv, ExtractInv, CommitWatermark
    PROVE  ExtractInv'
<1>1. TypeInv' /\ Grows
  BY CommitWatermarkType
<1>2. /\ pc = "items" /\ todo = {} /\ watermark' = batch.next
      /\ batch'.next = 0 /\ window' = window /\ derived' = derived
  BY DEF CommitWatermark, BatchDone, NextWatermark, EndTick, NoBatch
<1>3. ASSUME NEW r \in 1..batch.next PROVE Caught(r)'
  <2>1. Caught(r)
    BY <1>2 DEF ExtractInv, BatchCaught
  <2>2. r \in 1..Len(rows)
    BY DEF TypeInv, InTable, PipelineTypeOK
  <2>3. QED
    BY <1>1, <1>2, <2>1, <2>2, CaughtStays
<1>4. ExtractionCatchesUp'
  BY <1>2, <1>3 DEF ExtractionCatchesUp, Caught
<1>5. BatchCaught'
  BY <1>2 DEF BatchCaught
<1>6. WindowCaught'
  BY <1>1, <1>2, WindowCaughtStays DEF ExtractInv
<1>7. QED
  BY <1>4, <1>5, <1>6 DEF ExtractInv

(* A receipt appended for r makes it caught.                                 *)
LEMMA AppendedCatches ==
    ASSUME TypeInv, NEW r, NEW receipt, ledger' = Append(ledger, receipt), receipt.row = r,
           \/ receipt.outcome = "deny"
           \/ receipt.outcome = "allow" /\ ExtractedNext(receipt.hash)
    PROVE  Caught(r)'
<1>1. ledger \in Seq(Receipt)
  BY DEF TypeInv, PipelineTypeOK
<1>2. Len(ledger) + 1 \in 1..Len(ledger') /\ ledger'[Len(ledger) + 1] = receipt
  BY <1>1
<1>3. QED
  BY <1>2 DEF Caught, DeniedByReceipt, Extracted, ExtractedNext, ObsHash

LEMMA DroppedCaught ==
    ASSUME TypeInv, ExtractInv, NEW r \in todo, ProcessDropped(r)
    PROVE  ExtractInv'
<1> DEFINE receipt == [outcome |-> "deny", obs |-> 0, row |-> r, hash |-> None]
<1>1. TypeInv' /\ Grows
  BY ProcessDroppedType
<1>2. /\ UNCHANGED <<watermark, batch, window, derived>>
      /\ todo' = todo \ {r} /\ pc = "items"
      /\ ledger' = Append(ledger, receipt)
  BY DEF ProcessDropped, AtItem, Write
<1>3. receipt.row = r /\ receipt.outcome = "deny"
  OBVIOUS
<1> HIDE DEF receipt
<1>4. Caught(r)'
  BY <1>2, <1>3, AppendedCatches
<1>5. QED
  BY <1>1, <1>2, <1>4, CaughtUpStays, BatchCaughtStays, WindowCaughtStays DEF ExtractInv

LEMMA DuplicateCaught ==
    ASSUME TypeInv, ExtractInv, NEW r \in todo, ProcessDuplicate(r)
    PROVE  ExtractInv'
<1> DEFINE receipt == [outcome |-> "allow", obs |-> ulid + 1, row |-> r, hash |-> GateHash(r)]
<1>1. TypeInv' /\ Grows
  BY ProcessDuplicateType
<1>2. /\ UNCHANGED <<watermark, batch, pc, derived>>
      /\ todo' = todo \ {r} /\ pc = "items"
      /\ ledger' = Append(ledger, receipt)
      /\ InWindow(GateHash(r)) /\ window' = Remember(window, GateHash(r))
  BY DEF ProcessDuplicate, AtItem, Write, RememberHash
<1>3. \A i \in 1..Len(window) : ExtractedNext(window[i])
  BY <1>1, <1>2, ExtractedStays DEF ExtractInv, WindowCaught
<1>4. ExtractedNext(GateHash(r))
  BY <1>2, <1>3 DEF InWindow
<1>5. receipt.row = r /\ receipt.outcome = "allow" /\ receipt.hash = GateHash(r)
  OBVIOUS
<1> HIDE DEF receipt
<1>6. Caught(r)'
  BY <1>2, <1>4, <1>5, AppendedCatches
<1>7. WindowCaught'
  <2>1. ASSUME NEW i \in 1..Len(window') PROVE ExtractedNext(window'[i])
    <3>1. window'[i] = GateHash(r) \/ \E j \in 1..Len(window) : window'[i] = window[j]
      BY <1>2, GateTypes, RememberType DEF TypeInv, PipelineTypeOK
    <3>2. QED
      BY <1>3, <1>4, <3>1
  <2>2. QED
    BY <2>1 DEF WindowCaught, Extracted, ExtractedNext, ObsHash
<1>8. QED
  BY <1>1, <1>2, <1>6, <1>7, CaughtUpStays, BatchCaughtStays DEF ExtractInv

LEMMA NewCaught ==
    ASSUME TypeInv, ExtractInv, NEW r \in todo, ProcessNew(r)
    PROVE  ExtractInv'
<1>1. TypeInv' /\ Grows
  BY ProcessNewType
<1>2. /\ UNCHANGED <<watermark, batch, todo, derived>>
      /\ pc = "items" /\ pc' = "store"
      /\ window' = Remember(window, GateHash(r))
      /\ held'.app = rows[r].app /\ held'.text = GateText(r)
  BY DEF ProcessNew, AtItem, RememberHash
<1>3. \A i \in 1..Len(window) : ExtractedNext(window[i])
  BY <1>1, <1>2, ExtractedStays DEF ExtractInv, WindowCaught
<1>4. GateHash(r) = <<held'.app, held'.text>>
  BY <1>2 DEF GateHash
<1>5. ASSUME NEW i \in 1..Len(window')
      PROVE  window'[i] = <<held'.app, held'.text>> \/ ExtractedNext(window'[i])
  <2>1. window'[i] = GateHash(r) \/ \E j \in 1..Len(window) : window'[i] = window[j]
    BY <1>2, GateTypes, RememberType DEF TypeInv, PipelineTypeOK
  <2>2. QED
    BY <1>3, <1>4, <2>1
<1>6. WindowCaught'
  BY <1>2, <1>5 DEF WindowCaught, Extracted, ExtractedNext, ObsHash
<1>7. QED
  BY <1>1, <1>2, <1>6, CaughtUpStays, BatchCaughtStays DEF ExtractInv

(* The extraction itself: the item it belongs to is through.                 *)
LEMMA ExtractCaught ==
    ASSUME TypeInv, ExtractInv, Extract
    PROVE  ExtractInv'
<1>1. TypeInv' /\ Grows
  BY ExtractType
<1>2. /\ UNCHANGED <<rows, ledger, brain, watermark, batch, window>>
      /\ pc = "extract" /\ todo' = todo \ {held.row}
      /\ \E added \in BOOLEAN : derived' = derived \cup {[obs |-> held.id, added |-> added]}
  BY DEF Extract
<1>3. held.row \in todo /\ Receipted(held) /\ held \in brain
  BY <1>2 DEF TypeInv, HeldOK
<1>4. derived \subseteq derived' /\ ExtractedNext(ObsHash(held))
  <2>0. PICK added \in BOOLEAN : derived' = derived \cup {[obs |-> held.id, added |-> added]}
    BY <1>2
  <2>1. [obs |-> held.id, added |-> added] \in derived'
    BY <2>0
  <2>2. QED
    BY <1>2, <1>3, <2>1 DEF ExtractedNext
<1>5. ASSUME NEW r \in todo, r = held.row PROVE Caught(r)'
  <2>1. /\ held.seq \in 1..Len(ledger) /\ ledger[held.seq].row = held.row
        /\ ledger[held.seq].outcome = "allow" /\ ledger[held.seq].hash = ObsHash(held)
    BY <1>3 DEF Receipted
  <2>2. QED
    BY <1>2, <1>4, <1>5, <2>1 DEF Caught, Extracted, ExtractedNext, ObsHash
<1>6. \A r \in todo : r \in todo' \/ Caught(r)'
  BY <1>2, <1>5
<1>7. QED
  BY <1>1, <1>2, <1>4, <1>6, CaughtUpStays, BatchCaughtStays, WindowCaughtStays DEF ExtractInv

(* A step that ends a tick, or that no tick sees.                            *)
LEMMA QuietCaught ==
    ASSUME TypeInv, Grows, ExtractInv,
           UNCHANGED <<watermark, derived>>,
           \/ batch' = NoBatch
           \/ batch' = batch /\ todo' = todo,
           \/ window' = <<>>
           \/ pc' \in {"failed", "dead", "down"}
           \/ /\ window' = window /\ pc \notin {"failed", "dead", "down"}
              /\ pc \in {"store", "extract"} =>
                     pc' \in {"store", "extract"} /\ held' = held
           \/ window' = window /\ pc' = pc /\ held' = held
    PROVE  ExtractInv'
<1>1. ExtractionCatchesUp'
  BY CaughtUpStays DEF ExtractInv
<1>2. BatchCaught'
  <2>1. CASE batch' = NoBatch
    BY <2>1 DEF BatchCaught, NoBatch
  <2>2. CASE batch' = batch /\ todo' = todo
    BY <2>2, BatchCaughtStays DEF ExtractInv
  <2>3. QED
    BY <2>1, <2>2
<1>3. WindowCaught'
  <2>1. CASE window' = <<>> \/ pc' \in {"failed", "dead", "down"}
    BY <2>1 DEF WindowCaught
  <2>2. CASE /\ window' = window /\ pc \notin {"failed", "dead", "down"}
             /\ pc \in {"store", "extract"} =>
                    pc' \in {"store", "extract"} /\ held' = held
    BY <2>2, WindowCaughtStays DEF ExtractInv
  <2>3. CASE window' = window /\ pc' = pc /\ pc \in {"failed", "dead", "down"}
    BY <2>3 DEF WindowCaught
  <2>4. QED
    BY <2>1, <2>2, <2>3
<1>4. QED
  BY <1>1, <1>2, <1>3 DEF ExtractInv

LEMMA ExtractKeeps == IInv /\ IInv' /\ ExtractInv /\ [Next]_vars => ExtractInv'
<1> SUFFICES ASSUME IInv, IInv', ExtractInv, [Next]_vars PROVE ExtractInv'
  OBVIOUS
<1>1. TypeInv /\ TypeInv'
  BY DEF IInv
<1>2. Grows
  <2>1. CASE UNCHANGED vars
    BY <1>1, <2>1 DEF vars, pipelineVars, Grows, TypeInv, PipelineTypeOK
  <2>2. QED
    BY <2>1, NextKeeps
<1>3. CASE Ticking
  <2>1. CASE Fetch
    <3>1. watermark \in 0..Len(rows) /\ \A r \in 1..watermark : Caught(r)
      BY <1>1 DEF TypeInv, InTable, PipelineTypeOK, ExtractInv, ExtractionCatchesUp, Caught
    <3>2. pc = "fetch" /\ FetchFrom(watermark) /\ rewinds' \in Nat
      BY <1>1, <2>1 DEF Fetch, TypeInv, PipelineTypeOK
    <3>3. QED
      BY <1>1, <3>1, <3>2, FetchFromCaught
  <2>2. CASE FetchFromStart
    <3>1. 0 \in 0..Len(rows) /\ \A r \in 1..0 : Caught(r)
      BY <1>1 DEF TypeInv, PipelineTypeOK
    <3>2. pc = "fetch" /\ FetchFrom(0) /\ rewinds' \in Nat
      BY <1>1, <2>2 DEF FetchFromStart, TypeInv, PipelineTypeOK
    <3>3. QED
      BY <1>1, <3>1, <3>2, FetchFromCaught
  <2>3. CASE \E r \in todo : ProcessDropped(r) \/ ProcessDuplicate(r) \/ ProcessNew(r)
    BY <1>1, <2>3, DroppedCaught, DuplicateCaught, NewCaught
  <2>4. CASE Extract \/ CommitWatermark
    BY <1>1, <2>4, ExtractCaught, CommitCaught
  <2>5. CASE Store
    <3>1. /\ UNCHANGED <<watermark, derived, batch, todo, window, held>>
          /\ pc = "store" /\ pc' = "extract"
      BY <2>5 DEF Store, object, locals
    <3>2. QED
      BY <1>1, <1>2, <3>1, QuietCaught
  <2>6. CASE FetchFails \/ CommitFails \/ StoreFails \/ \E r \in todo : ReceiptFails(r)
    <3>1. UNCHANGED <<watermark, derived>> /\ batch' = NoBatch /\ pc' = "failed"
      BY <2>6 DEF FetchFails, CommitFails, StoreFails, ReceiptFails, Abandon, EndTick, durable
    <3>2. QED
      BY <1>1, <1>2, <3>1, QuietCaught
  <2>7. QED
    BY <1>3, <2>1, <2>2, <2>3, <2>4, <2>5, <2>6 DEF Ticking, TickStep, ProcessOne
<1>4. CASE Crash
  <2>1. UNCHANGED <<watermark, derived>> /\ batch' = NoBatch /\ pc' = "down"
    BY <1>4 DEF Crash, EndTick, durable
  <2>2. QED
    BY <1>1, <1>2, <2>1, QuietCaught
<1>5. CASE Start
  <2>1. UNCHANGED <<watermark, derived, batch, todo>> /\ window' = <<>>
    BY <1>5 DEF Start, NewPipeline, durable, locals
  <2>2. QED
    BY <1>1, <1>2, <2>1, QuietCaught
<1>6. CASE \/ LoopTick \/ LoopAgain \/ LoopDies \/ Pause \/ Resume \/ UNCHANGED vars
           \/ FrameArrives /\ UNCHANGED daemonVars
  <2>1. /\ UNCHANGED <<watermark, derived, batch, todo, window, held>>
        /\ \/ pc' = pc
           \/ pc \in {"idle", "paused", "exhausted", "drained"}
           \/ pc' = "dead"
    BY <1>6 DEF LoopTick, BeginTick, LoopAgain, LoopDies, Pause, Resume, vars, pipelineVars,
                FrameArrives, durable, object, locals
  <2>2. QED
    BY <1>1, <1>2, <2>1, QuietCaught
<1>7. QED
  BY <1>3, <1>4, <1>5, <1>6 DEF Next, DrainLoop

(* Every row the watermark covers that was not denied had its extraction     *)
(* from a stored copy, wherever the daemon crashed between the brain's write *)
(* and the commitments' (ExtractingStore::store, tick).                      *)
THEOREM NothingUnextracted == Spec => []ExtractionCatchesUp
<1>1. Init => ExtractInv
  BY DEF Init, InitPipeline, NoBatch, ExtractInv, ExtractionCatchesUp, BatchCaught, WindowCaught
<1>2. ExtractInv => ExtractionCatchesUp
  BY DEF ExtractInv
<1>3. QED
  BY <1>1, <1>2, ExtractKeeps, Invariance, PTL DEF Spec

-----------------------------------------------------------------------------
(* The stored stream.                                                        *)

Working == pc \notin {"failed", "dead", "down"}

(* Observations belong to this process or to an earlier one.                 *)
LivesOK ==
    \A o \in brain : o.life <= life /\ (pc = "down" => o.life < life)

(* The hash of an observation of this process is where its position says, as *)
(* long as the window reaches back to it.                                    *)
Placed(o) ==
    /\ o.pos < recorded
    /\ o.pos >= recorded - Len(window) =>
           window[o.pos - recorded + Len(window) + 1] = ObsHash(o)

WindowFull ==
    /\ Len(window) <= Capacity /\ Len(window) <= recorded
    /\ Len(window) = Capacity \/ Len(window) = recorded

HeldApart ==
    /\ held.life = life /\ Placed(held)
    /\ \A o \in brain :
          o.life = life /\ ObsHash(o) = ObsHash(held) => held.pos - o.pos > Capacity

SpacingInv ==
    /\ LivesOK
    /\ WindowSpacing
    /\ Working => WindowFull /\ \A o \in brain : o.life = life => Placed(o)
    /\ pc = "store" => HeldApart

(* Where a hash goes, and where the others are then.                         *)
LEMMA RememberPlaces ==
    ASSUME NEW w \in Seq(Hash), NEW h \in Hash, Len(w) <= Capacity
    PROVE  LET m == Remember(w, h)
           IN /\ m \in Seq(Hash) /\ Len(m) \in Nat
              /\ Len(m) = IF Len(w) = Capacity THEN Len(w) ELSE Len(w) + 1
              /\ m[Len(m)] = h
              /\ \A i \in 1..(Len(m) - 1) : m[i] = w[i + Len(w) + 1 - Len(m)]
<1>0. Capacity \in Nat \ {0} /\ Len(w) \in Nat
  BY CapacityAssumption
<1>1. CASE Len(w) = Capacity
  <2>1. /\ w # <<>> /\ Tail(w) \in Seq(Hash) /\ Len(Tail(w)) = Len(w) - 1
        /\ \A i \in 1..(Len(w) - 1) : Tail(w)[i] = w[i + 1]
    BY <1>0, <1>1
  <2>2. Remember(w, h) = Append(Tail(w), h)
    BY <1>0, <1>1 DEF Remember
  <2>3. /\ Append(Tail(w), h) \in Seq(Hash)
        /\ Len(Append(Tail(w), h)) = Len(w)
        /\ Append(Tail(w), h)[Len(w)] = h
        /\ \A i \in 1..(Len(w) - 1) : Append(Tail(w), h)[i] = Tail(w)[i]
    BY <1>0, <2>1
  <2>4. \A i \in 1..(Len(w) - 1) : i + Len(w) + 1 - Len(w) = i + 1
    BY <1>0
  <2>5. QED
    BY <1>0, <1>1, <2>1, <2>2, <2>3, <2>4
<1>2. CASE Len(w) # Capacity
  <2>1. Remember(w, h) = Append(w, h)
    BY <1>0, <1>2 DEF Remember
  <2>2. /\ Append(w, h) \in Seq(Hash)
        /\ Len(Append(w, h)) = Len(w) + 1
        /\ Append(w, h)[Len(w) + 1] = h
        /\ \A i \in 1..Len(w) : Append(w, h)[i] = w[i]
    OBVIOUS
  <2>3. \A i \in 1..(Len(w) + 1 - 1) : i \in 1..Len(w) /\ i + Len(w) + 1 - (Len(w) + 1) = i
    BY <1>0
  <2>4. QED
    BY <1>0, <1>2, <2>1, <2>2, <2>3
<1>3. QED
  BY <1>1, <1>2

LEMMA PlaceMoves ==
    ASSUME NEW p \in Nat, NEW R \in Nat, NEW L \in Nat, NEW m \in Nat,
           p < R, m <= L + 1, p >= (R + 1) - m
    PROVE  /\ p - (R + 1) + m + 1 \in 1..(m - 1)
           /\ p >= R - L
           /\ (p - (R + 1) + m + 1) + L + 1 - m = p - R + L + 1
OBVIOUS

(* A lookup moves every hash one place on.                                   *)
LEMMA LookupKeepsPlaces ==
    ASSUME TypeInv, WindowFull, NEW r \in todo, RememberHash(r)
    PROVE  /\ WindowFull'
           /\ window'[Len(window')] = GateHash(r) /\ Len(window') \in Nat \ {0}
           /\ recorded' = recorded + 1
           /\ \A o \in Observation : Placed(o) =>
                 /\ o.pos < recorded'
                 /\ o.pos >= recorded' - Len(window') =>
                        window'[o.pos - recorded' + Len(window') + 1] = ObsHash(o)
<1>1. /\ window \in Seq(Hash) /\ recorded \in Nat /\ Len(window) \in Nat
      /\ GateHash(r) \in Hash /\ Capacity \in Nat \ {0}
  BY GateTypes, CapacityAssumption DEF TypeInv, PipelineTypeOK
<1>2. window' = Remember(window, GateHash(r)) /\ recorded' = recorded + 1
  BY DEF RememberHash
<1>3. Len(window) <= Capacity /\ Len(window) <= recorded
      /\ (Len(window) = Capacity \/ Len(window) = recorded)
  BY DEF WindowFull
<1>4. /\ Len(window') \in Nat
      /\ Len(window') = IF Len(window) = Capacity THEN Len(window) ELSE Len(window) + 1
      /\ window'[Len(window')] = GateHash(r)
      /\ \A i \in 1..(Len(window') - 1) : window'[i] = window[i + Len(window) + 1 - Len(window')]
  BY <1>1, <1>2, <1>3, RememberPlaces
<1>a. Len(window') \in Nat /\ Len(window) \in Nat /\ Len(window') <= Len(window) + 1
  BY <1>1, <1>4
<1>5. WindowFull' /\ Len(window') \in Nat \ {0}
  BY <1>1, <1>2, <1>3, <1>4 DEF WindowFull
<1>6. ASSUME NEW o \in Observation, Placed(o), o.pos >= recorded' - Len(window')
      PROVE  window'[o.pos - recorded' + Len(window') + 1] = ObsHash(o)
  <2>1. o.pos \in Nat /\ o.pos < recorded
    BY <1>6 DEF Observation, Placed
  <2>2. Len(window') <= Len(window) + 1 /\ o.pos >= (recorded + 1) - Len(window')
    BY <1>2, <1>6, <1>a
  <2>3. PICK i : i = o.pos - recorded' + Len(window') + 1
    OBVIOUS
  <2>4. recorded \in Nat /\ Len(window) \in Nat /\ Len(window') \in Nat
    BY <1>1, <1>a
  <2>b. i = o.pos - (recorded + 1) + Len(window') + 1
    BY <1>2, <2>3
  <2>c. /\ o.pos - (recorded + 1) + Len(window') + 1 \in 1..(Len(window') - 1)
        /\ o.pos >= recorded - Len(window)
        /\ (o.pos - (recorded + 1) + Len(window') + 1) + Len(window) + 1 - Len(window')
              = o.pos - recorded + Len(window) + 1
    BY <2>1, <2>2, <2>4, PlaceMoves
  <2>5. /\ i \in 1..(Len(window') - 1)
        /\ o.pos >= recorded - Len(window)
        /\ i + Len(window) + 1 - Len(window') = o.pos - recorded + Len(window) + 1
    BY <2>b, <2>c
  <2>6. window[o.pos - recorded + Len(window) + 1] = ObsHash(o)
    BY <1>6, <2>5 DEF Placed
  <2>7. window'[i] = window[i + Len(window) + 1 - Len(window')]
    BY <1>4, <2>5
  <2>8. QED
    BY <2>3, <2>5, <2>6, <2>7
<1>7. \A o \in Observation : Placed(o) => o.pos < recorded'
  BY <1>1, <1>2 DEF Placed, Observation
<1>8. QED
  BY <1>2, <1>4, <1>5, <1>6, <1>7

(* What is not in the window was looked up long ago.                         *)
LEMMA MissedIsFar ==
    ASSUME TypeInv, WindowFull, NEW h, ~InWindow(h), NEW o \in Observation, Placed(o),
           ObsHash(o) = h
    PROVE  recorded - o.pos > Capacity
<1>1. /\ recorded \in Nat /\ Len(window) \in Nat /\ o.pos \in Nat /\ Capacity \in Nat
      /\ o.pos < recorded
  BY CapacityAssumption DEF TypeInv, PipelineTypeOK, Observation, Placed
<1>2. ASSUME o.pos >= recorded - Len(window) PROVE FALSE
  <2>1. o.pos - recorded + Len(window) + 1 \in 1..Len(window)
    BY <1>1, <1>2
  <2>2. window[o.pos - recorded + Len(window) + 1] = h
    BY <1>2 DEF Placed
  <2>3. QED
    BY <2>1, <2>2 DEF InWindow
<1>3. o.pos < recorded - Len(window)
  BY <1>1, <1>2
<1>4. QED
  BY <1>1, <1>3 DEF WindowFull

(* Steps of no consequence for what is stored and where the hashes are.      *)
LEMMA QuietSpacing ==
    ASSUME SpacingInv,
           UNCHANGED <<brain, life>>,
           pc' # "down" \/ pc' = pc,
           Working' => Working /\ UNCHANGED <<window, recorded>>,
           pc' = "store" => pc = "store" /\ held' = held /\ UNCHANGED <<window, recorded>>
    PROVE  SpacingInv'
<1>1. LivesOK' /\ WindowSpacing'
  BY DEF SpacingInv, LivesOK, WindowSpacing, ObsHash
<1>2. Working' => WindowFull' /\ \A o \in brain' : o.life = life' => Placed(o)'
  BY DEF SpacingInv, WindowFull, Placed, ObsHash
<1>3. pc' = "store" => HeldApart'
  BY DEF SpacingInv, HeldApart, Placed, ObsHash
<1>4. QED
  BY <1>1, <1>2, <1>3 DEF SpacingInv

LEMMA NewSpacing ==
    ASSUME TypeInv, TypeInv', SpacingInv, NEW r \in todo, ProcessNew(r)
    PROVE  SpacingInv'
<1>1. /\ UNCHANGED <<brain, life>> /\ pc = "items" /\ pc' = "store"
      /\ ~InWindow(GateHash(r)) /\ RememberHash(r)
      /\ held'.life = life /\ held'.pos = recorded
      /\ <<held'.app, held'.text>> = GateHash(r)
  BY DEF ProcessNew, AtItem, GateHash
<1>2. WindowFull /\ \A o \in brain : o.life = life => Placed(o)
  BY <1>1 DEF SpacingInv, Working
<1>3. /\ WindowFull'
      /\ window'[Len(window')] = GateHash(r) /\ Len(window') \in Nat \ {0}
      /\ recorded' = recorded + 1
      /\ \A o \in Observation : Placed(o) =>
            /\ o.pos < recorded'
            /\ o.pos >= recorded' - Len(window') =>
                   window'[o.pos - recorded' + Len(window') + 1] = ObsHash(o)
  BY <1>1, <1>2, LookupKeepsPlaces
<1>4. brain \subseteq Observation /\ recorded \in Nat
  BY DEF TypeInv, PipelineTypeOK
<1>5. \A o \in brain' : o.life = life' => Placed(o)'
  BY <1>1, <1>2, <1>3, <1>4 DEF Placed, ObsHash
<1>6. Placed(held)'
  <2>1. held'.pos - recorded' + Len(window') + 1 = Len(window') /\ held'.pos < recorded'
    BY <1>1, <1>3, <1>4
  <2>2. QED
    BY <1>1, <1>3, <2>1 DEF Placed, ObsHash
<1>7. \A o \in brain : o.life = life /\ ObsHash(o) = GateHash(r) => recorded - o.pos > Capacity
  BY <1>1, <1>2, <1>4, MissedIsFar
<1>8. HeldApart'
  BY <1>1, <1>6, <1>7 DEF HeldApart, ObsHash
<1>9. LivesOK' /\ WindowSpacing'
  BY <1>1 DEF SpacingInv, LivesOK, WindowSpacing, ObsHash
<1>10. QED
  BY <1>3, <1>5, <1>8, <1>9 DEF SpacingInv

LEMMA DuplicateSpacing ==
    ASSUME TypeInv, SpacingInv, NEW r \in todo, ProcessDuplicate(r)
    PROVE  SpacingInv'
<1>1. UNCHANGED <<brain, life, pc>> /\ pc = "items" /\ RememberHash(r)
  BY DEF ProcessDuplicate, AtItem
<1>2. WindowFull /\ \A o \in brain : o.life = life => Placed(o)
  BY <1>1 DEF SpacingInv, Working
<1>3. /\ WindowFull'
      /\ \A o \in Observation : Placed(o) =>
            /\ o.pos < recorded'
            /\ o.pos >= recorded' - Len(window') =>
                   window'[o.pos - recorded' + Len(window') + 1] = ObsHash(o)
  BY <1>1, <1>2, LookupKeepsPlaces
<1>4. brain \subseteq Observation
  BY DEF TypeInv, PipelineTypeOK
<1>5. \A o \in brain' : o.life = life' => Placed(o)'
  BY <1>1, <1>2, <1>3, <1>4 DEF Placed, ObsHash
<1>6. LivesOK' /\ WindowSpacing'
  BY <1>1 DEF SpacingInv, LivesOK, WindowSpacing, ObsHash
<1>7. QED
  BY <1>1, <1>3, <1>5, <1>6 DEF SpacingInv

LEMMA StoreSpacing ==
    ASSUME TypeInv, SpacingInv, Store
    PROVE  SpacingInv'
<1>1. /\ pc = "store" /\ pc' = "extract" /\ brain' = brain \cup {held}
      /\ UNCHANGED <<window, recorded, life, held>>
  BY DEF Store, object, locals
<1>2. held \in Observation /\ brain \subseteq Observation /\ Capacity \in Nat
  BY <1>1, CapacityAssumption DEF TypeInv, PipelineTypeOK, HeldOK
<1>3. HeldApart
  BY <1>1 DEF SpacingInv
<1>4. LivesOK'
  BY <1>1, <1>2, <1>3 DEF SpacingInv, LivesOK, HeldApart, TypeInv, PipelineTypeOK
<1>5. WindowSpacing'
  <2>1. ASSUME NEW o \in brain', NEW q \in brain', o.life = q.life,
               ObsHash(o) = ObsHash(q), o # q
        PROVE  o.pos - q.pos > Capacity \/ q.pos - o.pos > Capacity
    <3>1. CASE o \in brain /\ q \in brain
      BY <2>1, <3>1 DEF SpacingInv, WindowSpacing
    <3>2. CASE o = held /\ q \in brain
      BY <1>3, <2>1, <3>2 DEF HeldApart
    <3>3. CASE o \in brain /\ q = held
      BY <1>3, <2>1, <3>3 DEF HeldApart
    <3>4. QED
      BY <1>1, <2>1, <3>1, <3>2, <3>3
  <2>2. QED
    BY <2>1 DEF WindowSpacing, ObsHash
<1>6. WindowFull' /\ \A o \in brain' : o.life = life' => Placed(o)'
  BY <1>1, <1>3 DEF SpacingInv, Working, HeldApart, WindowFull, Placed, ObsHash
<1>7. QED
  BY <1>1, <1>4, <1>5, <1>6 DEF SpacingInv

LEMMA SpacingKeeps == IInv /\ IInv' /\ SpacingInv /\ [Next]_vars => SpacingInv'
<1> SUFFICES ASSUME IInv, IInv', SpacingInv, [Next]_vars PROVE SpacingInv'
  OBVIOUS
<1>1. TypeInv /\ TypeInv'
  BY DEF IInv
<1>2. CASE \E r \in todo : ProcessNew(r) \/ ProcessDuplicate(r)
  BY <1>1, <1>2, NewSpacing, DuplicateSpacing
<1>3. CASE Store
  BY <1>1, <1>3, StoreSpacing
<1>4. CASE Start
  <2>1. /\ UNCHANGED <<brain, life>> /\ pc = "down" /\ pc' = "idle"
        /\ window' = <<>> /\ recorded' = 0
    BY <1>4 DEF Start, NewPipeline, durable
  <2>2. \A o \in brain' : o.life < life'
    BY <2>1 DEF SpacingInv, LivesOK
  <2>3. LivesOK' /\ WindowSpacing'
    BY <2>1 DEF SpacingInv, LivesOK, WindowSpacing, ObsHash
  <2>4. WindowFull'
    BY <2>1, CapacityAssumption DEF WindowFull
  <2>5. \A o \in brain' : o.life # life'
    <3>1. brain' \subseteq Observation /\ life' \in Nat
      BY <1>1 DEF TypeInv, PipelineTypeOK
    <3>2. QED
      BY <2>2, <3>1 DEF Observation
  <2>6. QED
    BY <2>1, <2>3, <2>4, <2>5 DEF SpacingInv
<1>5. CASE Crash
  <2>1. UNCHANGED brain /\ life' = life + 1 /\ pc' = "down"
    BY <1>5 DEF Crash, durable
  <2>2. brain \subseteq Observation /\ life \in Nat
    BY <1>1 DEF TypeInv, PipelineTypeOK
  <2>3. LivesOK'
    BY <2>1, <2>2 DEF SpacingInv, LivesOK, Observation
  <2>4. WindowSpacing'
    BY <2>1 DEF SpacingInv, WindowSpacing, ObsHash
  <2>5. QED
    BY <2>1, <2>3, <2>4 DEF SpacingInv, Working
<1>6. CASE \/ FetchFails \/ CommitFails \/ StoreFails \/ \E r \in todo : ReceiptFails(r)
           \/ LoopDies
  <2>1. UNCHANGED <<brain, life>> /\ pc' \in {"failed", "dead"}
    BY <1>6 DEF FetchFails, CommitFails, StoreFails, ReceiptFails, Abandon, LoopDies, durable
  <2>2. QED
    BY <2>1, QuietSpacing DEF Working
<1>7. CASE \/ Fetch \/ FetchFromStart \/ (\E r \in todo : ProcessDropped(r)) \/ Extract
           \/ CommitWatermark \/ LoopTick \/ LoopAgain
  <2>1. /\ UNCHANGED <<brain, life, window, recorded>>
        /\ pc \in {"idle", "fetch", "items", "extract", "paused", "exhausted", "drained"}
        /\ pc' \in {"idle", "fetch", "items", "paused", "exhausted", "drained"}
    BY <1>7 DEF Fetch, FetchFromStart, FetchFrom, ProcessDropped, AtItem, Extract,
                CommitWatermark, Answer, LoopTick, BeginTick, LoopAgain, durable, object
  <2>2. QED
    BY <2>1, QuietSpacing DEF Working
<1>8. CASE \/ Pause \/ Resume \/ (FrameArrives /\ UNCHANGED daemonVars) \/ UNCHANGED vars
  <2>1. UNCHANGED <<brain, life, window, recorded, pc, held>>
    BY <1>8 DEF Pause, Resume, FrameArrives, vars, pipelineVars, durable, object, locals
  <2>2. QED
    BY <2>1, QuietSpacing DEF Working
<1>9. QED
  BY <1>2, <1>3, <1>4, <1>5, <1>6, <1>7, <1>8
  DEF Next, DrainLoop, Ticking, TickStep, ProcessOne

LEMMA SpacingInit == Init => SpacingInv
BY CapacityAssumption
DEF Init, InitPipeline, SpacingInv, LivesOK, WindowSpacing, WindowFull, Working

-----------------------------------------------------------------------------
(* Sessions.                                                                 *)

(* Identifiers grow, over restarts too.                                      *)
IdsOK ==
    /\ \A o \in brain :
          /\ o.row \in 1..Len(rows) /\ o.id <= ulid /\ o.session <= ulid
          /\ o.life <= life /\ (pc = "down" => o.life < life)
    /\ \A o, q \in brain : o.id = q.id => o = q

Newest(o) == \A m \in brain : m.id <= o.id

(* The open session is that of the newest observation of this process.       *)
OpenIsNewest ==
    \/ open = None /\ \A o \in brain : o.life # life
    \/ \E o \in brain :
          /\ o.life = life /\ Newest(o)
          /\ open = [app |-> o.app, id |-> o.session, last |-> rows[o.row].at]

(* Whether q goes on in the session of o.                                    *)
Joins(q, o) == o.app = q.app /\ rows[q.row].at - rows[o.row].at <= Gap

(* The observation in hand comes after all of the brain, and its session is  *)
(* as the newest observation of this process requires.                       *)
HeldJoins ==
    /\ held.life = life /\ held.id <= ulid /\ held.session <= ulid
    /\ open = [app |-> held.app, id |-> held.session, last |-> rows[held.row].at]
    /\ \A o \in brain :
          /\ o.id < held.id
          /\ o.session = held.session => o.life = life
          /\ o.life = life /\ Newest(o) => (o.session = held.session <=> Joins(held, o))

SessionInv ==
    /\ IdsOK
    /\ SessionBoundaries
    /\ Working /\ pc # "store" => OpenIsNewest
    /\ pc = "store" => HeldJoins

(* Steps of no consequence for what is stored and for the open session.      *)
LEMMA BoundariesStay ==
    ASSUME TypeInv, Grows, IdsOK, SessionBoundaries, brain' = brain
    PROVE  SessionBoundaries'
<1>1. \A o \in brain : rows'[o.row] = rows[o.row]
  BY DEF IdsOK, Grows
<1>2. QED
  BY <1>1 DEF SessionBoundaries, Follows

LEMMA QuietSession ==
    ASSUME TypeInv, TypeInv', Grows, SessionInv,
           UNCHANGED <<brain, life>>, ulid' >= ulid,
           pc' # "down" \/ pc' = pc,
           Working' => Working /\ open' = open,
           pc' = "store" => pc = "store" /\ held' = held,
           Working' /\ pc = "store" => pc' = "store"
    PROVE  SessionInv'
<1>1. ulid \in Nat /\ ulid' \in Nat /\ brain \subseteq Observation
      /\ Len(rows) \in Nat /\ Len(rows') \in Nat
  BY DEF TypeInv, PipelineTypeOK
<1>2. /\ Len(rows') >= Len(rows)
      /\ \A r \in 1..Len(rows) : rows'[r] = rows[r] /\ r \in 1..Len(rows')
  BY <1>1 DEF Grows
<1>3. \A o \in brain : o.row \in 1..Len(rows) /\ rows'[o.row] = rows[o.row]
  BY <1>2 DEF SessionInv, IdsOK
<1>4. IdsOK'
  BY <1>1, <1>2 DEF SessionInv, IdsOK, Observation
<1>5. SessionBoundaries'
  BY BoundariesStay DEF SessionInv
<1>6. Working' /\ pc' # "store" => OpenIsNewest'
  <2>1. SUFFICES ASSUME Working', pc' # "store" PROVE OpenIsNewest'
    OBVIOUS
  <2>2. OpenIsNewest /\ open' = open
    BY <2>1 DEF SessionInv
  <2>3. QED
    BY <1>3, <2>2 DEF OpenIsNewest, Newest
<1>7. pc' = "store" => HeldJoins'
  <2>1. SUFFICES ASSUME pc' = "store" PROVE HeldJoins'
    OBVIOUS
  <2>2. HeldJoins /\ held' = held /\ open' = open
    BY <2>1 DEF SessionInv, Working
  <2>3. held \in Observation /\ rows'[held.row] = rows[held.row]
    BY <1>2, <2>1 DEF TypeInv, HeldOK, TodoOK
  <2>4. held.id <= ulid' /\ held.session <= ulid'
    BY <1>1, <2>2, <2>3 DEF HeldJoins, Observation
  <2>5. QED
    BY <1>3, <2>2, <2>3, <2>4 DEF HeldJoins, Joins, Newest
<1>8. QED
  BY <1>4, <1>5, <1>6, <1>7 DEF SessionInv

LEMMA RowTimes ==
    ASSUME TypeInv, IdsOK, NEW o \in brain
    PROVE  rows[o.row].at \in Int
<1>1. o.row \in 1..Len(rows) /\ rows \in Seq(Frames)
  BY DEF IdsOK, TypeInv, PipelineTypeOK
<1>2. rows[o.row] \in Frames
  BY <1>1
<1>3. QED
  BY <1>2, FramesAssumption

(* The session of a new item, against the newest observation.                *)
LEMMA NewSession ==
    ASSUME TypeInv, TypeInv', SessionInv, NEW r \in todo, ProcessNew(r)
    PROVE  SessionInv'
<1>1. /\ UNCHANGED <<rows, brain, life>> /\ pc = "items" /\ pc' = "store"
      /\ open' = SessionOf(r) /\ ulid' = ulid + Minted(r)
      /\ held'.life = life /\ held'.id = ulid + 1 /\ held'.row = r
      /\ held'.app = rows[r].app /\ held'.session = SessionOf(r).id
  BY DEF ProcessNew, AtItem
<1>2. OpenIsNewest /\ IdsOK
  BY <1>1 DEF SessionInv, Working
<1>3. /\ brain \subseteq Observation /\ ulid \in Nat /\ open \in Session \cup {None}
      /\ rows[r].at \in Int /\ rows[r].app \in Apps
  BY GateTypes DEF TypeInv, PipelineTypeOK
<1> DEFINE starts == StartsNew(open, rows[r].app, rows[r].at)
<1>4. CASE starts
  <2>1. /\ open' = [app |-> rows[r].app, id |-> ulid + 2, last |-> rows[r].at]
        /\ ulid' = ulid + 2 /\ held'.session = ulid + 2
    BY <1>1, <1>4 DEF SessionOf, Assign, Minted
  <2>2. \A o \in brain : o.id <= ulid /\ o.session <= ulid
    BY <1>2 DEF IdsOK
  <2>3. \A o \in brain : o.id < held'.id /\ o.session # held'.session /\ o.id <= ulid'
                         /\ o.session <= ulid'
    BY <1>1, <1>3, <2>1, <2>2 DEF Observation
  <2>4. ASSUME NEW o \in brain, o.life = life, Newest(o)
        PROVE  ~(o.app = rows[r].app /\ rows[r].at - rows[o.row].at <= Gap)
    <3>1. PICK l \in brain : l.life = life /\ Newest(l)
                 /\ open = [app |-> l.app, id |-> l.session, last |-> rows[l.row].at]
      BY <1>2, <2>4 DEF OpenIsNewest
    <3>2. o = l
      BY <1>2, <1>3, <2>4, <3>1 DEF Newest, IdsOK, Observation
    <3>3. rows[o.row].at \in Int
      BY <1>2, RowTimes
    <3>4. open \in Session
      BY <1>3, <3>1, <3>2, <3>3 DEF Session, Observation
    <3>5. open # None
      BY <3>4, NoSessionAssumption
    <3>6. QED
      BY <1>3, <1>4, <3>1, <3>2, <3>3, <3>5, GapAssumption DEF StartsNew
  <2>5. HeldJoins'
    <3>1. /\ held'.life = life' /\ held'.id <= ulid' /\ held'.session <= ulid'
          /\ open' = [app |-> held'.app, id |-> held'.session, last |-> rows'[held'.row].at]
      BY <1>1, <1>3, <2>1
    <3>2. QED
      BY <1>1, <2>3, <2>4, <3>1 DEF HeldJoins, Joins, Newest
  <2>6. IdsOK'
    BY <1>1, <1>2, <2>3 DEF IdsOK
  <2>7. QED
    BY <1>1, <2>5, <2>6 DEF SessionInv, SessionBoundaries, Follows
<1>5. CASE ~starts
  <2>1. open # None
    BY <1>5 DEF StartsNew
  <2>2. PICK l \in brain : l.life = life /\ Newest(l)
               /\ open = [app |-> l.app, id |-> l.session, last |-> rows[l.row].at]
    BY <1>2, <2>1 DEF OpenIsNewest
  <2>3. /\ open' = [open EXCEPT !.last = rows[r].at]
        /\ ulid' = ulid + 1 /\ held'.session = open.id /\ open.app = rows[r].app
    BY <1>1, <1>3, <1>5, <2>1 DEF SessionOf, Assign, Minted, StartsNew, Session
  <2>4. open' = [app |-> rows[r].app, id |-> l.session, last |-> rows[r].at]
        /\ held'.session = l.session
    BY <2>2, <2>3
  <2>5. \A o \in brain : o.id <= ulid /\ o.session <= ulid
    BY <1>2 DEF IdsOK
  <2>6. \A o \in brain : o.id < held'.id /\ o.id <= ulid' /\ o.session <= ulid'
    BY <1>1, <1>3, <2>3, <2>5 DEF Observation
  <2>7. \A o \in brain : o.session = held'.session => o.life = life
    BY <2>2, <2>4 DEF SessionInv, SessionBoundaries
  <2>8. rows[l.row].at \in Int
    BY <1>2, RowTimes
  <2>9. l.app = rows[r].app /\ rows[r].at - rows[l.row].at <= Gap
    BY <1>3, <1>5, <2>1, <2>2, <2>8, GapAssumption DEF StartsNew
  <2>10. \A o \in brain : Newest(o) => o = l
    BY <1>2, <1>3, <2>2 DEF Newest, IdsOK, Observation
  <2>11. HeldJoins'
    <3>1. held'.session <= ulid' /\ held'.id <= ulid'
      BY <1>1, <1>3, <2>3, <2>4, <2>6
    <3>2. QED
      BY <1>1, <2>4, <2>6, <2>7, <2>9, <2>10, <3>1 DEF HeldJoins, Joins, Newest
  <2>12. IdsOK'
    BY <1>1, <1>2, <2>6 DEF IdsOK
  <2>13. QED
    BY <1>1, <2>11, <2>12 DEF SessionInv, SessionBoundaries, Follows
<1>6. QED
  BY <1>4, <1>5

LEMMA StoreSession ==
    ASSUME TypeInv, TypeInv', SessionInv, Store
    PROVE  SessionInv'
<1>1. /\ pc = "store" /\ pc' = "extract" /\ brain' = brain \cup {held}
      /\ UNCHANGED <<rows, open, life, held, ulid>>
  BY DEF Store, object, locals
<1>2. held \in Observation /\ held.row \in 1..Len(rows) /\ brain \subseteq Observation
  BY <1>1 DEF TypeInv, PipelineTypeOK, HeldOK, TodoOK
<1>3. HeldJoins /\ IdsOK /\ SessionBoundaries
  BY <1>1 DEF SessionInv
<1>4. IdsOK'
  <2>1. \A o \in brain : o.id # held.id
    BY <1>2, <1>3 DEF HeldJoins, Observation
  <2>2. life \in Nat
    BY DEF TypeInv, PipelineTypeOK
  <2>3. QED
    BY <1>1, <1>2, <1>3, <2>1, <2>2 DEF IdsOK, HeldJoins
<1>5. ASSUME NEW o \in brain', NEW q \in brain', o.session = q.session
      PROVE  o.life = q.life
  <2>1. CASE o \in brain /\ q \in brain
    BY <1>3, <1>5, <2>1 DEF SessionBoundaries
  <2>2. CASE o = held \/ q = held
    BY <1>1, <1>3, <1>5, <2>2 DEF HeldJoins
  <2>3. QED
    BY <1>1, <2>1, <2>2
<1>6. ASSUME NEW o \in brain', NEW q \in brain', Follows(q, o)'
      PROVE  o.session = q.session <=> Joins(q, o)
  <2>1. q.life = o.life /\ q.id > o.id /\ ~\E m \in brain' : m.id > o.id /\ m.id < q.id
    BY <1>6 DEF Follows
  <2>2. CASE o \in brain /\ q \in brain
    BY <1>1, <1>3, <2>1, <2>2 DEF SessionBoundaries, Follows, Joins
  <2>3. CASE o \in brain /\ q = held
    <3>1. Newest(o)
      <4>1. SUFFICES ASSUME NEW m \in brain PROVE m.id <= o.id
        BY DEF Newest
      <4>2. m.id \in Nat /\ o.id \in Nat /\ m.id < held.id
        BY <1>2, <1>3, <2>3 DEF HeldJoins, Observation
      <4>3. ~(m.id > o.id)
        BY <1>1, <2>1, <2>3, <4>2
      <4>4. QED
        BY <4>2, <4>3
    <3>2. QED
      BY <1>3, <2>1, <2>3, <3>1 DEF HeldJoins
  <2>4. CASE o = held
    BY <1>1, <1>2, <1>3, <2>1, <2>4 DEF HeldJoins, Observation
  <2>5. QED
    BY <1>1, <2>2, <2>3, <2>4
<1>7. SessionBoundaries'
  BY <1>1, <1>5, <1>6 DEF SessionBoundaries, Joins
<1>8. OpenIsNewest'
  <2>1. \A m \in brain' : m.id <= held.id
    BY <1>1, <1>2, <1>3 DEF HeldJoins, Observation
  <2>2. QED
    BY <1>1, <1>3, <2>1 DEF OpenIsNewest, Newest, HeldJoins
<1>9. QED
  BY <1>1, <1>4, <1>7, <1>8 DEF SessionInv

LEMMA SessionKeeps == IInv /\ IInv' /\ SessionInv /\ [Next]_vars => SessionInv'
<1> SUFFICES ASSUME IInv, IInv', SessionInv, [Next]_vars PROVE SessionInv'
  OBVIOUS
<1>1. TypeInv /\ TypeInv'
  BY DEF IInv
<1>2. Grows
  <2>1. CASE UNCHANGED vars
    BY <1>1, <2>1 DEF vars, pipelineVars, Grows, TypeInv, PipelineTypeOK
  <2>2. QED
    BY <2>1, NextKeeps
<1>3. ulid \in Nat /\ life \in Nat /\ brain \subseteq Observation
  BY <1>1 DEF TypeInv, PipelineTypeOK
<1>4. CASE \E r \in todo : ProcessNew(r)
  BY <1>1, <1>4, NewSession
<1>5. CASE Store
  BY <1>1, <1>5, StoreSession
<1>6. CASE Start
  <2>1. UNCHANGED <<rows, brain, life, ulid>> /\ pc = "down" /\ pc' = "idle" /\ open' = None
    BY <1>6 DEF Start, NewPipeline, durable
  <2>2. \A o \in brain : o.life < life
    BY <2>1 DEF SessionInv, IdsOK
  <2>3. IdsOK'
    BY <2>1 DEF SessionInv, IdsOK
  <2>4. SessionBoundaries'
    BY <1>1, <1>2, <2>1, BoundariesStay DEF SessionInv
  <2>5. OpenIsNewest'
    BY <1>3, <2>1, <2>2 DEF OpenIsNewest, Observation
  <2>6. QED
    BY <2>1, <2>3, <2>4, <2>5 DEF SessionInv
<1>7. CASE Crash
  <2>1. UNCHANGED <<rows, brain, ulid>> /\ life' = life + 1 /\ pc' = "down"
    BY <1>7 DEF Crash, durable
  <2>2. IdsOK'
    BY <1>3, <2>1 DEF SessionInv, IdsOK, Observation
  <2>3. SessionBoundaries'
    BY <1>1, <1>2, <2>1, BoundariesStay DEF SessionInv
  <2>4. QED
    BY <2>1, <2>2, <2>3 DEF SessionInv, Working
<1>8. CASE FetchFails \/ CommitFails \/ StoreFails \/ LoopDies
  <2>1. UNCHANGED <<brain, life, ulid>> /\ pc' \in {"failed", "dead"}
    BY <1>8 DEF FetchFails, CommitFails, StoreFails, Abandon, LoopDies, durable
  <2>2. QED
    BY <1>1, <1>2, <1>3, <2>1, QuietSession DEF Working
<1>9. CASE \E r \in todo : ReceiptFails(r)
  <2>1. UNCHANGED <<brain, life>> /\ pc' = "failed"
        /\ (ulid' = ulid \/ ulid' = ulid + 1 \/ ulid' = ulid + 2)
    BY <1>9 DEF ReceiptFails, Abandon, durable, Minted
  <2>2. ulid' >= ulid
    BY <1>3, <2>1
  <2>3. QED
    BY <1>1, <1>2, <2>1, <2>2, QuietSession DEF Working
<1>10. CASE \E r \in todo : ProcessDuplicate(r)
  <2>1. UNCHANGED <<brain, life, open, pc>> /\ pc = "items" /\ ulid' = ulid + 1
    BY <1>10 DEF ProcessDuplicate, AtItem
  <2>2. ulid' >= ulid
    BY <1>3, <2>1
  <2>3. QED
    BY <1>1, <1>2, <2>1, <2>2, QuietSession DEF Working
<1>11. CASE \/ Fetch \/ FetchFromStart \/ (\E r \in todo : ProcessDropped(r)) \/ Extract
            \/ CommitWatermark \/ LoopTick \/ LoopAgain
  <2>1. /\ UNCHANGED <<brain, life, open, ulid>>
        /\ pc \in {"idle", "fetch", "items", "extract", "paused", "exhausted", "drained"}
        /\ pc' \in {"idle", "fetch", "items", "paused", "exhausted", "drained"}
    BY <1>11 DEF Fetch, FetchFromStart, FetchFrom, ProcessDropped, AtItem, Extract,
                 CommitWatermark, Answer, LoopTick, BeginTick, LoopAgain, durable, object
  <2>2. QED
    BY <1>1, <1>2, <1>3, <2>1, QuietSession DEF Working
<1>12. CASE \/ Pause \/ Resume \/ (FrameArrives /\ UNCHANGED daemonVars) \/ UNCHANGED vars
  <2>1. UNCHANGED <<brain, life, open, ulid, pc, held>>
    BY <1>12 DEF Pause, Resume, FrameArrives, vars, pipelineVars, durable, object, locals
  <2>2. QED
    BY <1>1, <1>2, <1>3, <2>1, QuietSession DEF Working
<1>13. QED
  BY <1>4, <1>5, <1>6, <1>7, <1>8, <1>9, <1>10, <1>11, <1>12
  DEF Next, DrainLoop, Ticking, TickStep, ProcessOne

LEMMA SessionInit == Init => SessionInv
BY DEF Init, InitPipeline, SessionInv, IdsOK, SessionBoundaries, Follows, OpenIsNewest, Working

(* What one process stores keeps its order and its distance: equal contents  *)
(* lie more than a window of lookups apart, and sessions follow the stored   *)
(* stream, over any number of crashes, replays, failures and edits of the    *)
(* policy (DedupeWindow::check_and_record, Sessionizer::assign).             *)
THEOREM StreamKeepsItsRules == Spec => []StoredStreamKeepsItsRules
<1>1. SpacingInv /\ SessionInv => StoredStreamKeepsItsRules
  BY DEF SpacingInv, SessionInv, StoredStreamKeepsItsRules
<1>2. QED
  BY <1>1, SpacingInit, SessionInit, SpacingKeeps, SessionKeeps, Invariance, PTL DEF Spec

-----------------------------------------------------------------------------
(* The other driver of the pipeline: drain, on an object that outlives a     *)
(* failed tick.  NoLoss is not among its theorems: the item a tick failed on *)
(* can be lost, for the window takes it for stored on the next poll.         *)

(* What a step of drain, or of its embedder, keeps.                          *)
DrainInv == DrainTypeOK /\ TypeInv /\ ReceiptBehindEveryObservation

LEMMA DrainInitInv == DrainInit => DrainInv
<1> SUFFICES ASSUME DrainInit PROVE DrainInv
  OBVIOUS
<1>1. /\ rows = <<>> /\ watermark = 0 /\ ledger = <<>> /\ brain = {} /\ derived = {}
      /\ policy \in Policies /\ window = <<>> /\ open = None
      /\ stats = NoStats
      /\ pausedFlag = FALSE /\ pc = "idle" /\ batch = [next |-> 0, count |-> 0]
      /\ todo = {} /\ held = None /\ ulid = 0 /\ recorded = 0 /\ life = 0
      /\ faults = 0 /\ rewinds = 0
      /\ draining = FALSE /\ known = 0 /\ answer = "none"
  BY DEF DrainInit, InitPipeline, NoBatch
<1>2. PipelineTypeOK
  <2>1. <<>> \in Seq(Frames) /\ <<>> \in Seq(Receipt) /\ <<>> \in Seq(Hash)
    OBVIOUS
  <2>2. stats \in Stats
    BY <1>1 DEF NoStats, Stats
  <2>3. batch \in [next : Nat, count : Nat]
    BY <1>1
  <2>4. brain \subseteq Observation /\ derived \subseteq [obs : Nat, added : BOOLEAN]
    BY <1>1
  <2>5. QED
    BY <1>1, <2>1, <2>2, <2>3, <2>4 DEF PipelineTypeOK
<1>3. DrainTypeOK
  BY <1>1, <1>2 DEF DrainTypeOK
<1>4. InTable /\ TodoOK /\ HeldOK
  BY <1>1 DEF InTable, TodoOK, HeldOK
<1>5. QED
  BY <1>1, <1>2, <1>3, <1>4 DEF TypeInv, DrainInv, ReceiptBehindEveryObservation

(* Steps of the embedder and of drain between ticks.                         *)
LEMMA DriverKeeps ==
    ASSUME DrainInv, Poll \/ DrainAgain \/ DrainReturns \/ FlipPause
    PROVE  DrainInv'
<1>1. /\ UNCHANGED <<rows, watermark, ledger, brain, derived, policy, window, open, stats,
                     recorded, batch, todo, held, ulid, life, faults, rewinds, known>>
      /\ pc' \in {pc, "idle"}
      /\ pausedFlag' \in {pausedFlag, ~pausedFlag}
  BY DEF Poll, DrainAgain, DrainReturns, FlipPause, pipelineVars, driverVars, durable,
         object, locals
<1>2. pausedFlag' \in BOOLEAN
  BY <1>1 DEF DrainInv, DrainTypeOK, PipelineTypeOK
<1>3. PipelineTypeOK'
  BY <1>1, <1>2 DEF DrainInv, DrainTypeOK, PipelineTypeOK
<1>4. draining' \in BOOLEAN
  <2>1. draining' \in {draining, TRUE, FALSE}
    BY DEF Poll, DrainAgain, DrainReturns, FlipPause, driverVars
  <2>2. QED
    BY <2>1 DEF DrainInv, DrainTypeOK
<1>5. answer' \in {"none", "paused", "exhausted", "failed"}
  BY DEF DrainInv, DrainTypeOK, Poll, DrainAgain, DrainReturns, FlipPause, driverVars
<1>6. DrainTypeOK'
  BY <1>1, <1>3, <1>4, <1>5 DEF DrainInv, DrainTypeOK
<1>7. TypeInv'
  BY <1>1, <1>3 DEF DrainInv, TypeInv, InTable, TodoOK, HeldOK, Receipted, ObsHash
<1>8. ReceiptBehindEveryObservation'
  BY <1>1 DEF DrainInv, ReceiptBehindEveryObservation, ObsHash
<1>9. QED
  BY <1>6, <1>7, <1>8 DEF DrainInv

LEMMA DrainTickKeeps ==
    ASSUME DrainInv, DrainTick \/ DrainTicking \/ (FrameArrives /\ UNCHANGED driverVars)
    PROVE  DrainInv'
<1>1. CASE DrainTicking
  <2>1. TypeInv' /\ ReceiptBehindEveryObservation'
    BY <1>1, TickStepType, TickStepReceipts DEF DrainInv, DrainTicking
  <2>2. UNCHANGED <<draining, answer>> /\ known' \in {known, Len(rows)} /\ Len(rows) \in Nat
    BY <1>1 DEF DrainTicking, DrainInv, TypeInv, PipelineTypeOK
  <2>3. QED
    BY <2>1, <2>2 DEF DrainInv, DrainTypeOK, TypeInv
<1>2. CASE DrainTick \/ (FrameArrives /\ UNCHANGED driverVars)
  <2>1. UNCHANGED <<ledger, brain, draining, known, answer>>
    BY <1>2 DEF DrainTick, BeginTick, FrameArrives, durable, driverVars
  <2>2. TypeInv'
    BY <1>2, BeginTickType, FrameArrivesType DEF DrainInv, DrainTick
  <2>3. ReceiptBehindEveryObservation'
    BY <2>1 DEF DrainInv, ReceiptBehindEveryObservation, ObsHash
  <2>4. QED
    BY <2>1, <2>2, <2>3 DEF DrainInv, DrainTypeOK, TypeInv
<1>3. QED
  BY <1>1, <1>2

LEMMA DrainStutters == DrainInv /\ UNCHANGED drainVars => DrainInv'
BY DEF drainVars, pipelineVars, driverVars, DrainInv, DrainTypeOK, TypeInv, PipelineTypeOK, InTable,
       TodoOK, HeldOK, Receipted, ReceiptBehindEveryObservation, ObsHash

-----------------------------------------------------------------------------
(* The inductive invariant holds of every reachable state of drain.          *)
THEOREM DrainInvariance == DrainSpec => []DrainInv
<1>1. DrainInit => DrainInv
  BY DrainInitInv
<1>2. DrainInv /\ [DrainNext]_drainVars => DrainInv'
  BY DriverKeeps, DrainTickKeeps, DrainStutters DEF DrainNext, Drain
<1>3. QED
  BY <1>1, <1>2, PTL DEF DrainSpec

(* Types survive any number of drain calls, failures and pauses.             *)
THEOREM DrainTypeCorrect == DrainSpec => []DrainTypeOK
<1>1. DrainInv => DrainTypeOK
  BY DEF DrainInv
<1>2. QED
  BY <1>1, DrainInvariance, PTL

(* Also across failed ticks and retries, every stored observation has its    *)
(* Allow receipt at the chain position its redactions carry.                 *)
THEOREM DrainReceiptsBehind == DrainSpec => []ReceiptBehindEveryObservation
<1>1. DrainInv => ReceiptBehindEveryObservation
  BY DEF DrainInv
<1>2. QED
  BY <1>1, DrainInvariance, PTL

-----------------------------------------------------------------------------
(* What drain leaves behind.                                                 *)

(* Rows known of lie after n only if a full batch without text ends there.   *)
BlankBehind(n) ==
    n < known =>
        /\ n >= Batch
        /\ \A r \in (n - Batch + 1)..n : rows[r].text = Blank

(* A call that has answered is over, and so is its last tick; a batch        *)
(* without items, the watermark it becomes and the answer it leads to.       *)
PassInv ==
    /\ known <= Len(rows)
    /\ pc # "idle" => draining
    /\ draining => answer = "none"
    /\ pc \in {"items", "store", "extract"} /\ batch.count = 0 => BlankBehind(batch.next)
    /\ pc = "exhausted" \/ answer = "exhausted" => BlankBehind(watermark)

LEMMA BlankStays ==
    ASSUME TypeInv, TypeInv', Grows, known \in Nat, known <= Len(rows), UNCHANGED known,
           NEW n \in Nat, BlankBehind(n)
    PROVE  BlankBehind(n)'
<1>1. Len(rows) \in Nat /\ Batch \in Nat \ {0}
  BY BatchAssumption DEF TypeInv, PipelineTypeOK
<1>2. SUFFICES ASSUME n < known
               PROVE  n >= Batch /\ \A r \in (n - Batch + 1)..n : rows'[r].text = Blank
  BY DEF BlankBehind
<1>3. n >= Batch /\ \A r \in (n - Batch + 1)..n : rows[r].text = Blank
  BY <1>2 DEF BlankBehind
<1>4. \A r \in (n - Batch + 1)..n : r \in 1..Len(rows)
  BY <1>1, <1>2, <1>3
<1>5. QED
  BY <1>3, <1>4 DEF Grows

(* A batch without items ends at the last known row or after Batch blanks.   *)
LEMMA BlankFetch ==
    ASSUME TypeInv, NEW c \in 0..Len(rows), FetchFrom(c), known' = Len(rows),
           batch'.count = 0
    PROVE  BlankBehind(batch.next)'
<1>1. Len(rows) \in Nat /\ Batch \in Nat \ {0} /\ rows' = rows
  BY BatchAssumption DEF TypeInv, PipelineTypeOK, FetchFrom
<1>2. batch'.next = BatchEnd(c) /\ Cardinality(ItemsAfter(c)) = 0
  BY DEF FetchFrom
<1>3. IsFiniteSet(ItemsAfter(c))
  <2>1. BatchEnd(c) \in Nat
    BY <1>1 DEF BatchEnd
  <2>2. IsFiniteSet((c + 1)..BatchEnd(c))
    BY <2>1, FS_Interval
  <2>3. QED
    BY <2>2, FS_Subset DEF ItemsAfter
<1>4. ItemsAfter(c) = {}
  BY <1>2, <1>3, FS_EmptySet
<1>5. SUFFICES ASSUME BatchEnd(c) < Len(rows)
               PROVE  /\ BatchEnd(c) >= Batch
                      /\ \A r \in (BatchEnd(c) - Batch + 1)..BatchEnd(c) : rows[r].text = Blank
  BY <1>1, <1>2 DEF BlankBehind
<1>6. BatchEnd(c) = c + Batch
  BY <1>1, <1>5 DEF BatchEnd
<1>7. \A r \in (c + 1)..BatchEnd(c) : rows[r].text = Blank
  BY <1>4 DEF ItemsAfter
<1>8. QED
  BY <1>1, <1>6, <1>7

LEMMA PassTicking ==
    ASSUME DrainInv, DrainInv', PassInv, DrainTicking
    PROVE  PassInv'
<1>0. TypeInv /\ TypeInv' /\ known \in Nat
  BY DEF DrainInv, DrainTypeOK
<1>1. Len(rows) \in Nat /\ draining' = draining /\ answer' = answer
  BY <1>0 DEF TypeInv, PipelineTypeOK, DrainTicking
<1>2. draining /\ answer = "none"
  BY DEF PassInv, DrainTicking, TickStep, Fetch, FetchFromStart, FetchFails, ProcessOne,
         ProcessDropped, ProcessDuplicate, ProcessNew, ReceiptFails, AtItem, Store,
         StoreFails, Extract, CommitWatermark, CommitFails
<1>3. CASE Fetch \/ FetchFromStart
  <2>1. PICK c \in 0..Len(rows) : FetchFrom(c) /\ pc = "fetch"
    BY <1>0, <1>1, <1>3 DEF Fetch, FetchFromStart, TypeInv, InTable, PipelineTypeOK
  <2>2. known' = Len(rows) /\ rows' = rows /\ pc' = "items"
    BY <2>1 DEF DrainTicking, FetchFrom
  <2>3. batch'.count = 0 => BlankBehind(batch.next)'
    BY <1>0, <2>1, <2>2, BlankFetch
  <2>4. QED
    BY <1>1, <1>2, <2>2, <2>3 DEF PassInv, BlankBehind
<1>4. CASE ProcessOne \/ FetchFails \/ CommitFails
  <2>1. /\ rows' = rows
        /\ \/ pc' = "failed"
           \/ /\ pc \in {"items", "store", "extract"} /\ pc' \in {"items", "store", "extract"}
              /\ batch' = batch
    BY <1>4 DEF ProcessOne, FetchFails, CommitFails, ProcessDropped,
       ProcessDuplicate, ProcessNew, ReceiptFails, AtItem, Store, StoreFails, Extract,
       Abandon, locals
  <2>2. known' \in {known, Len(rows)} /\ (pc # "fetch" => known' = known)
    BY DEF DrainTicking
  <2>3. QED
    BY <1>1, <1>2, <2>1, <2>2 DEF PassInv, BlankBehind
<1>5. CASE CommitWatermark
  <2>1. /\ UNCHANGED <<rows, known>> /\ pc = "items" /\ watermark' = batch.next
        /\ pc' = IF batch.count = 0 THEN "exhausted" ELSE "drained"
    BY <1>5 DEF CommitWatermark, NextWatermark, Answer, DrainTicking
  <2>2. pc' = "exhausted" => BlankBehind(watermark)'
    BY <2>1 DEF PassInv, BlankBehind
  <2>3. QED
    BY <1>1, <1>2, <2>1, <2>2 DEF PassInv
<1>6. QED
  BY <1>3, <1>4, <1>5 DEF DrainTicking, TickStep

LEMMA PassKeeps == DrainInv /\ DrainInv' /\ PassInv /\ [DrainNext]_drainVars => PassInv'
<1> SUFFICES ASSUME DrainInv, DrainInv', PassInv, [DrainNext]_drainVars PROVE PassInv'
  OBVIOUS
<1>0. TypeInv /\ TypeInv' /\ known \in Nat
  BY DEF DrainInv, DrainTypeOK
<1>1. Len(rows) \in Nat /\ Len(rows') \in Nat /\ watermark \in Nat /\ batch.next \in Nat
  BY <1>0 DEF TypeInv, PipelineTypeOK
<1>2. CASE DrainTicking
  BY <1>2, PassTicking
<1>3. CASE FrameArrives /\ UNCHANGED driverVars
  <2>1. Grows
    BY <1>0, <1>3, FrameArrivesType
  <2>2. UNCHANGED <<watermark, batch, pc, draining, known, answer>>
    BY <1>3 DEF FrameArrives, durable, locals, driverVars
  <2>3. BlankBehind(watermark) => BlankBehind(watermark)'
    BY <1>0, <1>1, <2>1, <2>2, BlankStays DEF PassInv
  <2>4. BlankBehind(batch.next) => BlankBehind(batch.next)'
    BY <1>0, <1>1, <2>1, <2>2, BlankStays DEF PassInv
  <2>5. known' <= Len(rows')
    BY <1>0, <1>1, <2>1, <2>2 DEF PassInv, Grows
  <2>6. QED
    BY <2>2, <2>3, <2>4, <2>5 DEF PassInv
<1>4. CASE Poll \/ DrainTick \/ DrainAgain
  <2>1. /\ UNCHANGED <<rows, watermark, batch, known>>
        /\ pc' \notin {"items", "store", "extract", "exhausted"}
        /\ draining' = draining \/ draining'
        /\ pc' # "idle" => draining'
        /\ answer' = "none" \/ (answer' = answer /\ draining' = draining)
    BY <1>4 DEF PassInv, Poll, DrainTick, BeginTick, DrainAgain, pipelineVars, driverVars,
                durable, locals
  <2>2. QED
    BY <2>1 DEF PassInv, BlankBehind
<1>5. CASE DrainReturns
  <2>1. UNCHANGED <<rows, watermark, known>> /\ answer' = pc /\ pc' = "idle" /\ ~draining'
    BY <1>5 DEF DrainReturns, durable
  <2>2. QED
    BY <2>1 DEF PassInv, BlankBehind
<1>6. CASE FlipPause \/ UNCHANGED drainVars
  <2>1. UNCHANGED <<rows, watermark, batch, pc, draining, known, answer>>
    BY <1>6 DEF FlipPause, drainVars, pipelineVars, driverVars, durable, locals
  <2>2. QED
    BY <2>1 DEF PassInv, BlankBehind
<1>7. QED
  BY <1>2, <1>3, <1>4, <1>5, <1>6 DEF DrainNext, Drain

(* Whatever arrives, fails or is paused, drain answers Exhausted with rows   *)
(* left that it knew of only behind a full batch of frames without text      *)
(* (drain, tick, read_batch).                                                *)
THEOREM LeavesOnlyBlank == DrainSpec => []LeavesOnlyBehindBlankBatch
<1>1. DrainInit => PassInv
  BY DEF DrainInit, InitPipeline, PassInv, BlankBehind
<1>2. PassInv => LeavesOnlyBehindBlankBatch
  BY DEF PassInv, BlankBehind, LeavesOnlyBehindBlankBatch
<1>3. QED
  BY <1>1, <1>2, PassKeeps, DrainInvariance, PTL DEF DrainSpec
=============================================================================
