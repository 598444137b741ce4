----------------------------- MODULE TextProofs -----------------------------
(***************************************************************************)
(* What becomes of a text.  The dictation buffer in front of the gate, the *)
(* policy and the redaction bank, for every cap, script, pattern and text, *)
(* and any number of lines, restarts and edits; and the promises, opinions *)
(* and objects that Extraction finds, for every text of every vocabulary.  *)
(***************************************************************************)
EXTENDS DictationSource, Extraction, ListingProofs

(* The buffer holds the newest lines, in the order of their numbers.         *)
BufferInv ==
    /\ lines \in Seq(Nat \X Lines) /\ Len(lines) <= MaxBuffered
    /\ pc = "down" => lines = <<>>
    /\ Len(lines) <= seq
    /\ \A i \in DOMAIN lines : lines[i][1] = seq - Len(lines) + i

(* What is not in the buffer any more was dropped at the cap or gated.       *)
GoneInv ==
    /\ gated \subseteq 1 .. seq /\ evicted \subseteq 1 .. seq
    /\ pc # "down" => \A i \in 1 .. seq - Len(lines) : i \in gated \cup evicted

(* Where the drain is; a cursor of this process is one of its numbers.       *)
BatchInv ==
    /\ pc # "down" => cursor <= seq \/ cursor = born
    /\ batch \in Seq((1 .. seq) \X Lines)
    /\ pc = "gate" <=> batch # <<>>
    /\ \A k \in DOMAIN batch : batch[k][1] > cursor
    /\ pc \in {"gate", "mark"} => next \in cursor .. seq

(* What the cursor has passed, or will have once the batch is through.       *)
PassedInv ==
    pc # "down" =>
        \A i \in 1 .. seq :
            i <= cursor \/ (pc \in {"gate", "mark"} /\ i <= next) =>
                \/ i \in gated \cup evicted \/ i <= born
                \/ \E k \in DOMAIN batch : batch[k][1] = i

StateTypes ==
    /\ seq \in Nat /\ cursor \in Nat /\ next \in Nat /\ born \in 0 .. cursor
    /\ file \in Scripts \cup {Broken, None}
    /\ handle \in Scripts \cup {Permissive, None} /\ policy \in Scripts \cup {Permissive}
    /\ pc \in {"down", "idle", "gate", "mark"}

DrainInv == StateTypes /\ BufferInv /\ GoneInv /\ BatchInv /\ PassedInv

(* No line, no cursor, nobody running.                                       *)
LEMMA InitDrain == Init => DrainInv
BY BufferAssumption
DEF Init, DrainInv, StateTypes, BufferInv, GoneInv, BatchInv, PassedInv

(* Steps beside the drain: the policy file, its reloader, the other source.  *)
LEMMA BesideDrain ==
    ASSUME DrainInv, UNCHANGED <<pipe, cursor, pc, batch, next>>,
           file' \in Scripts \cup {Broken, None}, handle' \in Scripts \cup {Permissive, None},
           policy' = policy
    PROVE  DrainInv'
BY DEF DrainInv, StateTypes, BufferInv, GoneInv, BatchInv, PassedInv, pipe

(* A process finds the durable cursor, an empty buffer and no number given.  *)
LEMMA StartDrain == ASSUME DrainInv, Start PROVE DrainInv'
<1>1. /\ pc = "down" /\ file # Broken
      /\ policy' = IF file = None THEN Permissive ELSE file
      /\ handle' = file /\ UNCHANGED <<file, cursor, batch, next>>
      /\ seq' = 0 /\ lines' = <<>> /\ born' = cursor /\ gated' = {} /\ evicted' = {}
      /\ pc' = "idle"
  BY DEF Start
<1>2. StateTypes'
  BY <1>1 DEF DrainInv, StateTypes
<1>3. batch = <<>>
  BY <1>1 DEF DrainInv, BatchInv
<1>4. BufferInv' /\ GoneInv' /\ PassedInv'
  BY <1>1, BufferAssumption DEF BufferInv, GoneInv, PassedInv
<1>5. BatchInv'
  BY <1>1, <1>3 DEF BatchInv
<1> QED
  BY <1>2, <1>4, <1>5 DEF DrainInv

(* A process ends with its buffer and its batch.                             *)
LEMMA StopDrain == ASSUME DrainInv, Stop PROVE DrainInv'
<1>1. /\ pc' = "down" /\ batch' = <<>> /\ next' = 0 /\ lines' = <<>>
      /\ UNCHANGED <<seq, born, gated, evicted, file, handle, policy, cursor>>
  BY DEF Stop
<1> QED
  BY <1>1, BufferAssumption
  DEF DrainInv, StateTypes, BufferInv, GoneInv, BatchInv, PassedInv

(* A line takes the next number; the oldest one goes when the buffer is full.*)
LEMMA PushDrain == ASSUME DrainInv, NEW line \in Lines, Push(line) PROVE DrainInv'
<1> DEFINE n == Len(lines)
           longer == Append(lines, <<seq + 1, line>>)
           lost == IF Len(longer) > MaxBuffered THEN {Head(longer)[1]} \ gated ELSE {}
<1>1. /\ pc # "down" /\ seq' = seq + 1 /\ lines' = Capped(longer)
      /\ evicted' = evicted \cup lost
      /\ UNCHANGED <<born, gated, file, handle, policy, cursor, pc, batch, next>>
  BY DEF Push, policies
<1>2. /\ seq \in Nat /\ n \in Nat /\ n <= seq /\ n <= MaxBuffered /\ MaxBuffered \in Nat \ {0}
      /\ lines \in Seq(Nat \X Lines)
      /\ \A i \in 1 .. n : lines[i][1] = seq - n + i
  BY BufferAssumption DEF DrainInv, StateTypes, BufferInv
<1>3. /\ longer \in Seq(Nat \X Lines) /\ Len(longer) = n + 1 /\ DOMAIN longer = 1 .. n + 1
      /\ \A i \in 1 .. n + 1 : longer[i][1] = seq - n + i
  <2>1. <<seq + 1, line>> \in Nat \X Lines /\ <<seq + 1, line>>[1] = seq + 1
    BY <1>2
  <2>2. longer \in Seq(Nat \X Lines) /\ Len(longer) = n + 1 /\ longer[n + 1] = <<seq + 1, line>>
    BY <1>2, <2>1
  <2>3. \A i \in 1 .. n : longer[i] = lines[i]
    BY <1>2
  <2>4. \A i \in 1 .. n + 1 : i \in 1 .. n \/ i = n + 1
    BY <1>2
  <2> HIDE DEF longer, n
  <2>5. seq - n + (n + 1) = seq + 1
    BY <1>2
  <2>6. longer[n + 1][1] = seq - n + (n + 1)
    BY <2>1, <2>2, <2>5
  <2>7. \A i \in 1 .. n : longer[i][1] = seq - n + i
    BY <1>2, <2>3
  <2>8. \A i \in 1 .. n + 1 : longer[i][1] = seq - n + i
    BY <2>4, <2>6, <2>7
  <2>9. DOMAIN longer = 1 .. n + 1
    BY <2>2
  <2> QED
    BY <2>2, <2>8, <2>9
<1> HIDE DEF longer, n
<1>4. StateTypes'
  BY <1>1, <1>2 DEF DrainInv, StateTypes
<1>5. BufferInv' /\ GoneInv'
  <2>1. CASE n + 1 <= MaxBuffered
    <3>1. lines' = longer /\ lost = {}
      BY <1>1, <1>2, <1>3, <2>1 DEF Capped
    <3>2. \A i \in 1 .. n + 1 : longer[i][1] = (seq + 1) - (n + 1) + i
      <4>1. \A i \in 1 .. n + 1 : seq - n + i = (seq + 1) - (n + 1) + i
        BY <1>2
      <4> QED
        BY <1>3, <4>1
    <3>a. lines' \in Seq(Nat \X Lines) /\ Len(lines') = n + 1 /\ DOMAIN lines' = 1 .. n + 1
      BY <1>3, <3>1
    <3>b. \A i \in 1 .. n + 1 : lines'[i][1] = seq' - Len(lines') + i
      BY <1>1, <3>1, <3>2, <3>a
    <3>3. BufferInv'
      BY <1>1, <1>2, <2>1, <3>a, <3>b DEF BufferInv
    <3>4. (seq + 1) - (n + 1) = seq - n
      BY <1>2
    <3>5. \A i \in 1 .. seq - n : i \in gated \cup evicted
      BY <1>1 DEF DrainInv, GoneInv, n
    <3>6. gated \subseteq 1 .. seq + 1 /\ evicted \subseteq 1 .. seq + 1
      BY <1>2 DEF DrainInv, GoneInv
    <3> QED
      BY <1>1, <1>3, <3>1, <3>3, <3>4, <3>5, <3>6 DEF GoneInv
  <2>2. CASE n + 1 > MaxBuffered
    <3>1. lines' = Tail(longer) /\ lost = {Head(longer)[1]} \ gated
      BY <1>1, <1>2, <1>3, <2>2 DEF Capped
    <3>2. /\ Tail(longer) \in Seq(Nat \X Lines) /\ Len(Tail(longer)) = n
          /\ DOMAIN Tail(longer) = 1 .. n
          /\ \A i \in 1 .. n : Tail(longer)[i] = longer[i + 1]
          /\ Head(longer) = longer[1]
      BY <1>2, <1>3
    <3>3. \A i \in 1 .. n : longer[i + 1][1] = (seq + 1) - n + i
      <4> SUFFICES ASSUME NEW i \in 1 .. n PROVE longer[i + 1][1] = (seq + 1) - n + i
        OBVIOUS
      <4>1. i + 1 \in 1 .. n + 1
        BY <1>2
      <4>2. longer[i + 1][1] = seq - n + (i + 1)
        BY <1>3, <4>1
      <4>3. seq - n + (i + 1) = (seq + 1) - n + i
        BY <1>2
      <4> QED
        BY <4>2, <4>3
    <3>4. Head(longer)[1] = seq - n + 1 /\ seq - n + 1 \in 1 .. seq + 1
      BY <1>2, <1>3, <3>2
    <3>a. lines' \in Seq(Nat \X Lines) /\ Len(lines') = n /\ DOMAIN lines' = 1 .. n
      BY <3>1, <3>2
    <3>b. \A i \in 1 .. n : lines'[i][1] = seq' - Len(lines') + i
      BY <1>1, <3>1, <3>2, <3>3, <3>a
    <3>5. BufferInv'
      BY <1>1, <1>2, <3>a, <3>b DEF BufferInv
    <3>6. \A i \in 1 .. seq - n : i \in gated \cup evicted
      BY <1>1 DEF DrainInv, GoneInv, n
    <3>7. \A i \in 1 .. (seq + 1) - n : i \in 1 .. seq - n \/ i = seq - n + 1
      BY <1>2
    <3>8. gated \subseteq 1 .. seq + 1 /\ evicted' \subseteq 1 .. seq + 1
      <4>1. gated \subseteq 1 .. seq /\ evicted \subseteq 1 .. seq
        BY DEF DrainInv, GoneInv
      <4>2. 1 .. seq \subseteq 1 .. seq + 1
        BY <1>2
      <4>3. lost \subseteq 1 .. seq + 1
        BY <3>1, <3>4
      <4> QED
        BY <1>1, <4>1, <4>2, <4>3
    <3> QED
      BY <1>1, <3>1, <3>2, <3>4, <3>5, <3>6, <3>7, <3>8 DEF GoneInv
  <2> QED
    BY <1>2, <2>1, <2>2
<1>6. BatchInv'
  <2>1. batch' \in Seq((1 .. seq + 1) \X Lines)
    <3>1. 1 .. seq \subseteq 1 .. seq + 1
      BY <1>2
    <3>2. batch \in Seq((1 .. seq) \X Lines)
      BY DEF DrainInv, BatchInv
    <3>3. \A k \in 1 .. Len(batch) : batch[k] \in (1 .. seq + 1) \X Lines
      BY <3>1, <3>2
    <3> QED
      BY <1>1, <3>2, <3>3, SMTT(20)
  <2> QED
    BY <1>1, <1>2, <2>1 DEF DrainInv, BatchInv, StateTypes
<1>7. PassedInv'
  <2> SUFFICES ASSUME NEW i \in 1 .. seq + 1,
                      i <= cursor \/ (pc \in {"gate", "mark"} /\ i <= next)
               PROVE  \/ i \in gated \cup evicted \/ i <= born
                      \/ \E k \in DOMAIN batch : batch[k][1] = i
    BY <1>1 DEF PassedInv
  <2>1. CASE i \in 1 .. seq
    BY <1>1, <2>1 DEF DrainInv, PassedInv
  <2>2. CASE i = seq + 1
    BY <1>1, <1>2, <2>2 DEF DrainInv, StateTypes, BatchInv, PassedInv
  <2> QED
    BY <1>2, <2>1, <2>2
<1> QED
  BY <1>4, <1>5, <1>6, <1>7 DEF DrainInv

(* A fetch takes every line behind the cursor, and ends at the newest.       *)
LEMMA FetchDrain == ASSUME DrainInv, Fetch PROVE DrainInv'
<1> DEFINE items == Only(lines, After)
           n == Len(lines)
<1>1. /\ pc = "idle" /\ items # <<>> /\ batch' = items /\ next' = NextCursor(items)
      /\ pc' = "gate"
      /\ UNCHANGED <<seq, lines, born, gated, evicted, file, handle, policy, cursor>>
  BY DEF Fetch, pipe, policies
<1>2. /\ seq \in Nat /\ cursor \in Nat /\ n \in Nat /\ n <= seq
      /\ lines \in Seq(Nat \X Lines) /\ DOMAIN lines = 1 .. n
      /\ \A i \in 1 .. n : lines[i][1] = seq - n + i
      /\ \A i \in 1 .. seq - n : i \in gated \cup evicted
  BY <1>1 DEF DrainInv, StateTypes, BufferInv, GoneInv
<1>3. \A i \in 1 .. n : lines[i] \in (1 .. seq) \X Lines
  BY <1>2
<1>4. lines \in Seq((1 .. seq) \X Lines)
  BY <1>2, <1>3
<1>5. items \in Seq((1 .. seq) \X Lines) /\ \E p : Places(p, items, lines, n, After)
  BY <1>4, OnlyPlaces
<1>6. PICK p : Places(p, items, lines, n, After)
  BY <1>5
<1> HIDE DEF items, n
<1>7. Len(items) \in Nat \ {0} /\ DOMAIN items = 1 .. Len(items)
  BY <1>1, <1>5
<1>8. \A k \in 1 .. Len(items) : items[k] \in After
  BY <1>6 DEF Places
<1>9. \A k \in 1 .. Len(items) :
         items[k] \in (1 .. seq) \X Lines /\ items[k][1] \in 1 .. seq /\ items[k][1] > cursor
  BY <1>5, <1>7, <1>8 DEF After
<1>10. next' = items[Len(items)][1]
  BY <1>1 DEF NextCursor, Last
<1>11. next' \in cursor .. seq /\ next' \in Nat
  BY <1>2, <1>7, <1>9, <1>10
<1>12. ASSUME NEW i \in 1 .. seq, i > cursor
       PROVE  i \in gated \cup evicted \/ \E k \in DOMAIN items : items[k][1] = i
  <2>1. CASE i \in 1 .. seq - n
    BY <1>2, <2>1
  <2>2. CASE i > seq - n
    <3> DEFINE j == i - (seq - n)
    <3>1. j \in 1 .. n /\ lines[j][1] = i
      BY <1>2, <2>2
    <3>2. lines[j] \in After
      <4>1. lines[j] \in ToSet(lines)
        BY <1>2, <3>1 DEF ToSet
      <4> QED
        BY <1>12, <3>1, <4>1 DEF After
    <3> HIDE DEF j
    <3>3. \E k \in 1 .. Len(items) : items[k] = lines[j]
      BY <1>6, <3>1, <3>2 DEF Places
    <3> QED
      BY <1>7, <3>1, <3>3
  <2> QED
    BY <1>2, <2>1, <2>2
<1>13. StateTypes'
  BY <1>1, <1>11 DEF DrainInv, StateTypes
<1>14. BufferInv' /\ GoneInv'
  BY <1>1 DEF DrainInv, BufferInv, GoneInv
<1>15. BatchInv'
  BY <1>1, <1>5, <1>7, <1>9, <1>11 DEF DrainInv, BatchInv
<1>16. PassedInv'
  <2> SUFFICES ASSUME NEW i \in 1 .. seq
               PROVE  \/ i \in gated \cup evicted \/ i <= born
                      \/ \E k \in DOMAIN items : items[k][1] = i
    BY <1>1 DEF PassedInv
  <2>1. CASE i <= cursor
    <3>1. batch = <<>>
      BY <1>1 DEF DrainInv, BatchInv
    <3>2. DOMAIN batch = {}
      BY <3>1
    <3> QED
      BY <1>1, <2>1, <3>2 DEF DrainInv, PassedInv
  <2>2. CASE i > cursor
    BY <1>12, <2>2
  <2> QED
    BY <1>2, <2>1, <2>2
<1> QED
  BY <1>13, <1>14, <1>15, <1>16 DEF DrainInv

(* The head of the batch goes through the gate.                              *)
LEMMA GateNextDrain == ASSUME DrainInv, GateNext PROVE DrainInv'
<1>1. /\ pc = "gate" /\ gated' = gated \cup {Head(batch)[1]} /\ batch' = Tail(batch)
      /\ pc' = IF Len(batch) = 1 THEN "mark" ELSE "gate"
      /\ UNCHANGED <<seq, lines, born, evicted, file, handle, policy, cursor, next>>
  BY DEF GateNext, policies
<1>2. batch \in Seq((1 .. seq) \X Lines) /\ batch # <<>> /\ next \in cursor .. seq /\ seq \in Nat
  BY <1>1 DEF DrainInv, BatchInv, StateTypes
<1>3. /\ Tail(batch) \in Seq((1 .. seq) \X Lines) /\ Len(Tail(batch)) = Len(batch) - 1
      /\ Len(batch) \in Nat \ {0} /\ DOMAIN batch = 1 .. Len(batch)
      /\ DOMAIN Tail(batch) = 1 .. Len(batch) - 1
      /\ \A k \in 1 .. Len(batch) - 1 : Tail(batch)[k] = batch[k + 1]
      /\ Head(batch) = batch[1] /\ batch[1] \in (1 .. seq) \X Lines
  BY <1>2
<1>4. Tail(batch) # <<>> <=> Len(batch) # 1
  <2>1. \A w \in Seq((1 .. seq) \X Lines) : w # <<>> <=> Len(w) # 0
    OBVIOUS
  <2> DEFINE rest == Tail(batch)
  <2>2. rest \in Seq((1 .. seq) \X Lines) /\ Len(rest) = Len(batch) - 1 /\ Len(batch) \in Nat
    BY <1>3
  <2> HIDE DEF rest
  <2>3. rest # <<>> <=> Len(batch) # 1
    BY SMTT(20), <2>1, <2>2
  <2> QED
    BY <2>3 DEF rest
<1>5. StateTypes'
  BY <1>1 DEF DrainInv, StateTypes
<1>6. BufferInv'
  BY <1>1 DEF DrainInv, BufferInv
<1>7. GoneInv'
  <2>1. Head(batch)[1] \in 1 .. seq
    BY <1>3
  <2> QED
    BY <1>1, <2>1 DEF DrainInv, GoneInv
<1>8. BatchInv'
  <2>1. \A k \in 1 .. Len(batch) : batch[k][1] > cursor
    BY <1>3 DEF DrainInv, BatchInv
  <2>2. \A k \in DOMAIN Tail(batch) : Tail(batch)[k][1] > cursor
    BY <1>3, <2>1
  <2>3. (cursor <= seq \/ cursor = born) /\ pc' # "down"
    BY <1>1 DEF DrainInv, BatchInv
  <2> QED
    BY <1>1, <1>2, <1>3, <1>4, <2>2, <2>3 DEF BatchInv
<1>9. PassedInv'
  <2> SUFFICES ASSUME NEW i \in 1 .. seq, i <= cursor \/ i <= next
               PROVE  \/ i \in gated \cup {Head(batch)[1]} \cup evicted \/ i <= born
                      \/ \E k \in DOMAIN Tail(batch) : Tail(batch)[k][1] = i
    BY <1>1 DEF PassedInv
  <2>1. \/ i \in gated \cup evicted \/ i <= born
        \/ \E k \in DOMAIN batch : batch[k][1] = i
    BY <1>1 DEF DrainInv, PassedInv
  <2>2. ASSUME NEW k \in DOMAIN batch, batch[k][1] = i
        PROVE  i \in {Head(batch)[1]} \/ \E j \in DOMAIN Tail(batch) : Tail(batch)[j][1] = i
    <3>1. CASE k = 1
      BY <1>3, <2>2, <3>1
    <3>2. CASE k # 1
      <4>1. k - 1 \in 1 .. Len(batch) - 1 /\ (k - 1) + 1 = k
        BY <1>3, <3>2
      <4>2. Tail(batch)[k - 1] = batch[k]
        BY <1>3, <4>1
      <4> QED
        BY <1>3, <2>2, <4>1, <4>2
    <3> QED
      BY <3>1, <3>2
  <2> QED
    BY <2>1, <2>2
<1> QED
  BY <1>5, <1>6, <1>7, <1>8, <1>9 DEF DrainInv

(* The cursor moves to the end of the batch.                                 *)
LEMMA MarkDrain == ASSUME DrainInv, Mark PROVE DrainInv'
<1>1. /\ pc = "mark" /\ cursor' = next /\ pc' = "idle" /\ next' = 0
      /\ UNCHANGED <<seq, lines, born, gated, evicted, file, handle, policy, batch>>
  BY DEF Mark, Marked, pipe, policies
<1>2. next \in cursor .. seq /\ batch = <<>> /\ seq \in Nat /\ cursor \in Nat
  BY <1>1 DEF DrainInv, BatchInv, StateTypes
<1>3. DOMAIN batch = {}
  BY <1>2
<1>4. StateTypes'
  BY <1>1, <1>2 DEF DrainInv, StateTypes
<1>5. BufferInv' /\ GoneInv'
  BY <1>1 DEF DrainInv, BufferInv, GoneInv
<1>6. BatchInv'
  BY <1>1, <1>2 DEF DrainInv, BatchInv
<1>7. PassedInv'
  <2> SUFFICES ASSUME NEW i \in 1 .. seq, i <= next
               PROVE  i \in gated \cup evicted \/ i <= born
    BY <1>1 DEF PassedInv
  <2> QED
    BY <1>1, <1>3 DEF DrainInv, PassedInv
<1> QED
  BY <1>4, <1>5, <1>6, <1>7 DEF DrainInv

LEMMA DrainInvariance == Spec => []DrainInv
<1>1. ASSUME DrainInv, [Next]_vars PROVE DrainInv'
  <2>1. CASE Start
    BY <1>1, <2>1, StartDrain
  <2>2. CASE Stop
    BY <1>1, <2>2, StopDrain
  <2>3. CASE Fetch
    BY <1>1, <2>3, FetchDrain
  <2>4. CASE GateNext
    BY <1>1, <2>4, GateNextDrain
  <2>5. CASE Mark
    BY <1>1, <2>5, MarkDrain
  <2>6. CASE Edit
    <3>1. /\ file' \in Scripts \cup {Broken, None} /\ handle' = handle /\ policy' = policy
          /\ UNCHANGED <<pipe, cursor, pc, batch, next>>
      BY <2>6 DEF Edit
    <3>2. handle \in Scripts \cup {Permissive, None}
      BY <1>1 DEF DrainInv, StateTypes
    <3> QED
      BY <1>1, <3>1, <3>2, BesideDrain
  <2>7. CASE Reload
    <3>1. /\ file' = file /\ handle' = Reloaded /\ policy' = policy
          /\ UNCHANGED <<pipe, cursor, pc, batch, next>>
      BY <2>7 DEF Reload
    <3>2. file \in Scripts \cup {Broken, None} /\ Reloaded \in Scripts \cup {Permissive, None}
      BY <1>1 DEF DrainInv, StateTypes, Reloaded
    <3> QED
      BY <1>1, <3>1, <3>2, BesideDrain
  <2>8. CASE \E line \in Lines : Push(line)
    BY <1>1, <2>8, PushDrain
  <2>9. CASE (\E c \in Others : GateOther(c)) \/ UNCHANGED vars
    <3>1. UNCHANGED <<pipe, policies, cursor, pc, batch, next>>
      BY <2>9 DEF GateOther, vars
    <3>2. /\ file \in Scripts \cup {Broken, None}
          /\ handle \in Scripts \cup {Permissive, None}
      BY <1>1 DEF DrainInv, StateTypes
    <3> QED
      BY <1>1, <3>1, <3>2, BesideDrain DEF policies
  <2> QED
    BY <1>1, <2>1, <2>2, <2>3, <2>4, <2>5, <2>6, <2>7, <2>8, <2>9 DEF Next
<1> QED
  BY <1>1, InitDrain, PTL DEF Spec

(* Whatever the cap, the policies and the interleaving: a dictated line is   *)
(* gated, dropped at the cap, passed by an old cursor, or still there to     *)
(* fetch (fetch_since, pump_lines, bind).                                    *)
THEOREM NoLineGoesMissing == Spec => []NoLineIsLost
<1>1. DrainInv => TypeOK
  <2> SUFFICES ASSUME DrainInv PROVE TypeOK
    OBVIOUS
  <2>1. /\ seq \in Nat /\ lines \in Seq(Nat \X Lines) /\ Len(lines) <= seq
        /\ \A i \in DOMAIN lines : lines[i][1] = seq - Len(lines) + i
    BY DEF DrainInv, StateTypes, BufferInv
  <2>2. Len(lines) \in Nat /\ DOMAIN lines = 1 .. Len(lines)
    BY <2>1
  <2>3. \A i \in DOMAIN lines : lines[i] \in Nat \X Lines /\ lines[i][2] \in Lines
    BY <2>1
  <2>4. \A i \in DOMAIN lines : lines[i][1] \in 1 .. seq
    BY <2>1, <2>2
  <2> QED
    BY <2>3, <2>4 DEF DrainInv, StateTypes, BufferInv, GoneInv, TypeOK
<1>2. DrainInv => NothingPassedOver
  <2> SUFFICES ASSUME DrainInv, pc # "down", NEW i \in 1 .. seq, i <= cursor
               PROVE  i \in gated \cup evicted \/ i <= born
    BY DEF NothingPassedOver
  <2>1. \/ i \in gated \cup evicted \/ i <= born
        \/ \E k \in DOMAIN batch : batch[k][1] = i
    BY DEF DrainInv, PassedInv
  <2>2. i \in Int /\ cursor \in Int /\ \A k \in DOMAIN batch : batch[k][1] > cursor
    BY DEF DrainInv, StateTypes, BatchInv
  <2> QED
    BY <2>1, <2>2
<1>3. DrainInv => RestIsBuffered
  <2> SUFFICES ASSUME DrainInv, pc # "down", NEW i \in cursor + 1 .. seq
               PROVE  i \in evicted \cup gated \/ \E j \in DOMAIN lines : lines[j][1] = i
    BY DEF RestIsBuffered
  <2>1. /\ seq \in Nat /\ cursor \in Nat /\ lines \in Seq(Nat \X Lines)
        /\ \A j \in DOMAIN lines : lines[j][1] = seq - Len(lines) + j
        /\ \A j \in 1 .. seq - Len(lines) : j \in gated \cup evicted
    BY DEF DrainInv, StateTypes, BufferInv, GoneInv
  <2>2. Len(lines) \in Nat /\ DOMAIN lines = 1 .. Len(lines)
    BY <2>1
  <2>3. CASE i <= seq - Len(lines)
    BY <2>1, <2>2, <2>3
  <2>4. CASE i > seq - Len(lines)
    <3>1. i - (seq - Len(lines)) \in 1 .. Len(lines)
      BY <2>1, <2>2, <2>4
    <3>2. lines[i - (seq - Len(lines))][1] = i
      <4>1. lines[i - (seq - Len(lines))][1] = seq - Len(lines) + (i - (seq - Len(lines)))
        BY <2>1, <2>2, <3>1
      <4> QED
        BY <2>1, <2>2, <4>1
    <3> QED
      BY <2>2, <3>1, <3>2
  <2> QED
    BY <2>1, <2>2, <2>3, <2>4
<1> QED
  BY <1>1, <1>2, <1>3, DrainInvariance, PTL DEF NoLineIsLost

-----------------------------------------------------------------------------
(* Globs.                                                                    *)

(* The last n characters of p cut s from place i on into their pieces.       *)
Suits(s, p, n, i) ==
    LET from == Len(p) - n + 1
    IN \E cut \in [from .. Len(p) + 1 -> 0 .. Len(s)] :
          /\ cut[from] = i - 1 /\ cut[Len(p) + 1] = Len(s)
          /\ \A j \in from .. Len(p) :
                \/ p[j] = "*" /\ cut[j] <= cut[j + 1]
                \/ cut[j + 1] = cut[j] + 1 /\ p[j] \in {"?", s[cut[j + 1]]}

(* Where the rest of s suits the last n characters of p.                     *)
Suiting(s, p, n) == {i \in 1 .. Len(s) + 1 : Suits(s, p, n, i)}

(* fits is what Glob finds from the end of the pattern on.                   *)
Fitting(fits, s, p) ==
    /\ fits[0] = {Len(s) + 1}
    /\ \A n \in 1 .. Len(p) : fits[n] = Leading(s, p[Len(p) - n + 1], fits[n - 1])

(* The recursion of Glob is one.                                             *)
LEMMA GlobFits ==
    ASSUME NEW X, NEW s \in Seq(X), NEW p \in Seq(X)
    PROVE  \E fits \in [0 .. Len(p) -> SUBSET (1 .. Len(s) + 1)] :
              Fitting(fits, s, p) /\ (Glob(s, p) <=> 1 \in fits[Len(p)])
<1> DEFINE N == Len(p)
           Y == SUBSET (1 .. Len(s) + 1)
           More(n, F) == Leading(s, p[N - n + 1], F)
           base == {Len(s) + 1}
           step == [n \in 1 .. N |-> [F \in Y |-> More(n, F)]]
           Eq(f) == f = [n \in 0 .. N |-> IF n = 0 THEN base ELSE More(n, f[n - 1])]
           u == CHOOSE f : Eq(f)
<1>0. Glob(s, p) <=> 1 \in u[N]
  BY DEF Glob
<1>1. N \in Nat /\ base \in Y
  <2>1. Len(s) \in Nat
    OBVIOUS
  <2>2. Len(s) + 1 \in 1 .. Len(s) + 1
    BY <2>1
  <2> QED
    BY <2>2
<1>2. \A n \in 1 .. N, F \in Y : More(n, F) \in Y
  BY DEF Leading
<1> HIDE DEF N, Y, More, base
<1>3. \A n \in 1 .. N : \A F \in Y : step[n][F] = More(n, F)
  OBVIOUS
<1>4. step \in [1 .. N -> [Y -> Y]]
  BY <1>2
<1> HIDE DEF step, Eq, u
<1>5. PICK f \in [0 .. N -> Y] : Iterates(f, N, base, step)
  BY ONLY <1>1, <1>4, Recursion
<1>6. \A n \in 1 .. N : f[n] = More(n, f[n - 1])
  BY SMTT(20), <1>1, <1>3, <1>5 DEF Iterates
<1>7. Eq(f)
  <2>1. \A n \in 0 .. N : n = 0 \/ n \in 1 .. N
    BY <1>1
  <2>2. \A n \in 0 .. N : f[n] = IF n = 0 THEN base ELSE More(n, f[n - 1])
    BY <1>5, <1>6, <2>1 DEF Iterates
  <2>3. f = [n \in 0 .. N |-> f[n]]
    OBVIOUS
  <2> QED
    BY <2>2, <2>3 DEF Eq
<1>8. Eq(u)
  BY <1>7 DEF u
<1>9. u[0] = base /\ \A n \in 1 .. N : u[n] = More(n, u[n - 1])
  BY <1>1, <1>8 DEF Eq
<1>10. \A n \in 0 .. N : u[n] \in Y
  <2> DEFINE S == {n \in 0 .. N : u[n] \in Y}
  <2>1. 0 \in S /\ \A n \in 0 .. N - 1 : n \in S => n + 1 \in S
    BY <1>1, <1>2, <1>9
  <2> HIDE DEF S
  <2>2. \A n \in 0 .. N : n \in S
    BY <1>1, <2>1, CountUp
  <2> QED
    BY <2>2 DEF S
<1>11. u \in [0 .. N -> Y]
  BY <1>8, <1>10 DEF Eq
<1>12. Fitting(u, s, p)
  BY <1>9 DEF Fitting, More, N, base
<1> QED
  BY <1>0, <1>11, <1>12 DEF N, Y

(* One character more.                                                       *)
LEMMA SuitsOneMore ==
    ASSUME NEW X, NEW s \in Seq(X), NEW p \in Seq(X), NEW n \in 0 .. Len(p) - 1,
           NEW i \in 1 .. Len(s) + 1
    PROVE  Suits(s, p, n + 1, i) <=>
              i \in Leading(s, p[Len(p) - n], Suiting(s, p, n))
<1> DEFINE N == Len(p)
           M == Len(s)
           m == N - n
           c == p[m]
           F == Suiting(s, p, n)
           Piece(cut, j) == \/ p[j] = "*" /\ cut[j] <= cut[j + 1]
                            \/ cut[j + 1] = cut[j] + 1 /\ p[j] \in {"?", s[cut[j + 1]]}
           Cuts(cut, from, k) ==
               /\ cut \in [from .. N + 1 -> 0 .. M] /\ cut[from] = k - 1 /\ cut[N + 1] = M
               /\ \A j \in from .. N : Piece(cut, j)
<1>1. N \in Nat /\ M \in Nat /\ m \in 1 .. N /\ N - n + 1 = m + 1 /\ N - (n + 1) + 1 = m
  OBVIOUS
<1>2. /\ \A k : Suits(s, p, n, k) <=> \E cut : Cuts(cut, m + 1, k)
      /\ Suits(s, p, n + 1, i) <=> \E cut : Cuts(cut, m, i)
  BY <1>1 DEF Suits
<1>3. i \in Leading(s, c, F) <=>
         IF c = "*" THEN \E k \in i .. M + 1 : k \in F
         ELSE i <= M /\ c \in {"?", s[i]} /\ i + 1 \in F
  BY DEF Leading, StarStops
<1> HIDE DEF Cuts
<1>4. \A k : k \in F <=> k \in 1 .. M + 1 /\ \E cut : Cuts(cut, m + 1, k)
  BY <1>2 DEF Suiting
<1> USE DEF Cuts
<1> HIDE DEF N, M, m, F
<1>5. ASSUME NEW cut, Cuts(cut, m, i) PROVE i \in Leading(s, c, F)
  <2> DEFINE rest == [j \in m + 1 .. N + 1 |-> cut[j]]
             k == cut[m + 1] + 1
  <2>1. m + 1 \in m .. N + 1 /\ N + 1 \in m .. N + 1 /\ m \in m .. N /\ N + 1 \in m + 1 .. N + 1
        /\ m + 1 \in m + 1 .. N + 1
    BY <1>1
  <2>2. cut[m + 1] \in 0 .. M /\ k \in 1 .. M + 1
    BY SMTT(20), <1>1, <1>5, <2>1
  <2>3. Cuts(rest, m + 1, k)
    <3>1. \A j \in m + 1 .. N + 1 : j \in m .. N + 1
      BY <1>1
    <3>2. rest \in [m + 1 .. N + 1 -> 0 .. M]
      BY <1>5, <3>1
    <3>3. \A j \in m + 1 .. N : j \in m .. N /\ j \in m + 1 .. N + 1 /\ j + 1 \in m + 1 .. N + 1
      BY <1>1
    <3>4. \A j \in m + 1 .. N : Piece(rest, j)
      BY <1>5, <3>3
    <3>5. rest[m + 1] = cut[m + 1] /\ rest[N + 1] = M
      BY <1>5, <2>1
    <3>6. rest[m + 1] = k - 1
      BY <2>2, <3>5
    <3> QED
      BY <3>2, <3>4, <3>5, <3>6
  <2>4. k \in F
    BY <1>4, <2>2, <2>3
  <2>5. Piece(cut, m) /\ cut[m] = i - 1
    BY <1>5, <2>1
  <2>6. k >= i /\ (c # "*" => k = i + 1 /\ i <= M /\ c \in {"?", s[i]})
    <3>1. i \in Int /\ cut[m + 1] \in Int /\ M \in Int
      BY <1>1, <2>2 DEF M
    <3>2. CASE p[m] = "*" /\ cut[m] <= cut[m + 1]
      BY <2>5, <3>1, <3>2
    <3>3. CASE cut[m + 1] = cut[m] + 1 /\ p[m] \in {"?", s[cut[m + 1]]}
      <4>1. cut[m + 1] = i /\ k = i + 1
        BY <2>5, <3>1, <3>3
      <4>2. i <= M
        BY <2>2, <4>1
      <4> QED
        BY <3>1, <3>3, <4>1, <4>2
    <3> QED
      BY <2>5, <3>2, <3>3
  <2>7. k \in i .. M + 1
    BY <2>2, <2>6
  <2> HIDE DEF k
  <2> QED
    BY <1>3, <2>4, <2>6, <2>7
<1>6. ASSUME i \in Leading(s, c, F) PROVE \E cut : Cuts(cut, m, i)
  <2>1. PICK k \in F : k >= i /\ (c # "*" => k = i + 1 /\ c \in {"?", s[i]})
    <3>1. CASE c = "*"
      BY <1>3, <1>6, <3>1
    <3>2. CASE c # "*"
      <4>1. i + 1 >= i
        OBVIOUS
      <4> QED
        BY <1>3, <1>6, <3>2, <4>1
    <3> QED
      BY <3>1, <3>2
  <2>2. PICK rest : Cuts(rest, m + 1, k) /\ k \in 1 .. M + 1
    BY <1>4, <2>1
  <2> DEFINE cut == [j \in m .. N + 1 |-> IF j = m THEN i - 1 ELSE rest[j]]
  <2>3. /\ m \in m .. N + 1 /\ m + 1 \in m .. N + 1 /\ N + 1 \in m .. N + 1 /\ N + 1 # m
        /\ m + 1 # m /\ i - 1 \in 0 .. M
    BY <1>1 DEF M
  <2>4. \A j \in m .. N + 1 : j = m \/ j \in m + 1 .. N + 1
    BY <1>1
  <2>5. cut \in [m .. N + 1 -> 0 .. M]
    BY <2>2, <2>3, <2>4 DEF Suiting
  <2>6. cut[m] = i - 1 /\ cut[m + 1] = k - 1 /\ cut[N + 1] = M
    BY <2>2, <2>3
  <2>7. ASSUME NEW j \in m .. N PROVE Piece(cut, j)
    <3>1. CASE j = m
      <4>1. CASE c = "*"
        <5>1. i - 1 <= k - 1
          BY <2>1, <2>2
        <5> QED
          BY <2>6, <3>1, <4>1, <5>1
      <4>2. CASE c # "*"
        <5>1. cut[m + 1] = i /\ cut[m] = i - 1 /\ cut[m + 1] = cut[m] + 1
          BY <2>1, <2>6, <4>2
        <5> QED
          BY <2>1, <3>1, <4>2, <5>1
      <4> QED
        BY <4>1, <4>2
    <3>2. CASE j # m
      <4>1. j \in m + 1 .. N /\ j \in m .. N + 1 /\ j + 1 \in m .. N + 1 /\ j + 1 # m
        BY <1>1, <3>2
      <4>2. cut[j] = rest[j] /\ cut[j + 1] = rest[j + 1]
        BY <3>2, <4>1
      <4> QED
        BY <2>2, <4>1, <4>2
    <3> QED
      BY <3>1, <3>2
  <2> HIDE DEF cut
  <2>8. Cuts(cut, m, i)
    BY <2>5, <2>6, <2>7
  <2> QED
    BY <2>8
<1> QED
  BY <1>2, <1>5, <1>6 DEF N, M, m, F

(* A glob matches what its pattern stands for.                               *)
LEMMA GlobStands ==
    ASSUME NEW X, NEW s \in Seq(X), NEW p \in Seq(X)
    PROVE  Glob(s, p) <=> StandsFor(p, s)
<1> DEFINE N == Len(p)
           M == Len(s)
           Fit(n) == Suiting(s, p, n)
<1>1. PICK fits \in [0 .. N -> SUBSET (1 .. M + 1)] :
          Fitting(fits, s, p) /\ (Glob(s, p) <=> 1 \in fits[N])
  BY GlobFits
<1>2. N \in Nat /\ M \in Nat
  OBVIOUS
<1> DEFINE S == {n \in 0 .. N : fits[n] = Fit(n)}
<1>3. 0 \in S
  <2>1. ASSUME NEW k \in 1 .. M + 1 PROVE Suits(s, p, 0, k) <=> k = M + 1
    <3>1. N - 0 + 1 = N + 1 /\ N + 1 .. N = {} /\ N + 1 .. N + 1 = {N + 1}
      BY <1>2
    <3>2. ASSUME k = M + 1 PROVE Suits(s, p, 0, k)
      <4> DEFINE cut == [j \in N + 1 .. N + 1 |-> M]
      <4>1. cut \in [N + 1 .. N + 1 -> 0 .. M] /\ cut[N + 1] = M /\ M = k - 1
        BY <1>2, <3>1, <3>2
      <4> HIDE DEF cut
      <4> QED
        BY <3>1, <4>1 DEF Suits
    <3>3. ASSUME Suits(s, p, 0, k) PROVE k = M + 1
      <4>1. k - 1 = M
        BY <3>1, <3>3 DEF Suits
      <4> QED
        BY <1>2, <4>1
    <3> QED
      BY <3>2, <3>3
  <2>2. Fit(0) = {M + 1}
    BY <1>2, <2>1 DEF Suiting
  <2>3. fits[0] = {M + 1} /\ 0 \in 0 .. N
    BY <1>1, <1>2 DEF Fitting
  <2> HIDE DEF Fit
  <2> QED
    BY <2>2, <2>3
<1>4. ASSUME NEW n \in 0 .. N - 1, n \in S PROVE n + 1 \in S
  <2>1. /\ n + 1 \in 1 .. N /\ n + 1 \in 0 .. N /\ N - (n + 1) + 1 = N - n /\ n + 1 - 1 = n
        /\ fits[n] = Fit(n)
    BY <1>2, <1>4
  <2>2. fits[n + 1] = Leading(s, p[N - n], Fit(n))
    <3>1. \A k \in 1 .. N : fits[k] = Leading(s, p[N - k + 1], fits[k - 1])
      BY <1>1 DEF Fitting
    <3>2. fits[n + 1] = Leading(s, p[N - (n + 1) + 1], fits[n + 1 - 1])
      BY <2>1, <3>1
    <3> QED
      BY <2>1, <3>2
  <2>3. fits[n + 1] \subseteq 1 .. M + 1
    BY <1>1, <2>1
  <2>4. \A i \in 1 .. M + 1 : Suits(s, p, n + 1, i) <=> i \in Leading(s, p[N - n], Fit(n))
    <3>1. n \in 0 .. Len(p) - 1 /\ s \in Seq(X) /\ p \in Seq(X)
      OBVIOUS
    <3>2. \A i \in 1 .. Len(s) + 1 :
             Suits(s, p, n + 1, i) <=>
                i \in Leading(s, p[Len(p) - n], Suiting(s, p, n))
      BY ONLY <3>1, SuitsOneMore
    <3> QED
      BY <3>2
  <2>5. fits[n + 1] = Fit(n + 1)
    BY <2>2, <2>3, <2>4 DEF Suiting
  <2> QED
    BY <2>1, <2>5
<1>5. N \in S
  <2>1. \A n \in 0 .. N - 1 : n \in S => n + 1 \in S
    BY <1>4
  <2> HIDE DEF S
  <2>2. \A n \in 0 .. N : n \in S
    BY <1>2, <1>3, <2>1, CountUp
  <2> QED
    BY <1>2, <2>2
<1>6. 1 \in fits[N] <=> Suits(s, p, N, 1)
  BY <1>2, <1>5 DEF Suiting
<1>7. Suits(s, p, N, 1) <=> StandsFor(p, s)
  <2>1. N - N + 1 = 1 /\ 1 - 1 = 0
    BY <1>2
  <2> QED
    BY <2>1 DEF Suits, StandsFor
<1> QED
  BY <1>1, <1>6, <1>7

-----------------------------------------------------------------------------
(* The policy.                                                               *)

(* What the gate made was made by the policy it has.                         *)
OutInv ==
    out # Nothing => out.item \in Lines \cup Others /\ out.made = Run(policy, out.item)

PolicyInv == OutInv /\ ReloaderKeepsGood

LEMMA PolicyInvariance == Spec => []PolicyInv
<1>1. ASSUME DrainInv, PolicyInv, [Next]_vars PROVE PolicyInv'
  <2>1. CASE Start
    <3>1. out' = Nothing /\ handle' = file /\ UNCHANGED file /\ file # Broken
      BY <2>1 DEF Start
    <3> QED
      BY <1>1, <3>1 DEF PolicyInv, OutInv, Nothing, ReloaderKeepsGood, DrainInv, StateTypes
  <2>2. CASE Stop
    BY <1>1, <2>2 DEF Stop, PolicyInv, OutInv, Nothing, ReloaderKeepsGood
  <2>3. CASE Fetch
    BY <1>1, <2>3 DEF Fetch, PolicyInv, OutInv, Nothing, ReloaderKeepsGood, policies
  <2>4. CASE GateNext
    <3>1. /\ pc = "gate" /\ pc' \in {"gate", "mark"}
          /\ out' = [item |-> Head(batch)[2], made |-> Run(policy, Head(batch)[2])]
          /\ UNCHANGED policies
      BY <2>4 DEF GateNext
    <3>2. batch # <<>> /\ batch \in Seq((1 .. seq) \X Lines)
      BY <1>1, <3>1 DEF DrainInv, BatchInv
    <3>3. Head(batch) \in (1 .. seq) \X Lines
      BY <3>2
    <3>4. Head(batch)[2] \in Lines
      BY <3>3
    <3> QED
      BY <1>1, <3>1, <3>4 DEF PolicyInv, OutInv, ReloaderKeepsGood, policies
  <2>5. CASE Mark
    BY <1>1, <2>5 DEF Mark, PolicyInv, OutInv, Nothing, ReloaderKeepsGood, policies
  <2>6. CASE Edit
    <3>1. out' = Nothing /\ changed' = (pc # "down" /\ handle # None) /\ UNCHANGED <<handle, pc>>
      BY <2>6 DEF Edit
    <3>2. pc' # "down" /\ handle' # None => changed'
      BY <3>1
    <3> QED
      BY <1>1, <3>1, <3>2 DEF PolicyInv, OutInv, Nothing, ReloaderKeepsGood
  <2>7. CASE Reload
    <3>1. out' = Nothing /\ handle # None /\ handle' = Reloaded /\ UNCHANGED <<file, pc>>
      BY <2>7 DEF Reload
    <3> QED
      BY <1>1, <3>1 DEF Reloaded, PolicyInv, OutInv, Nothing, ReloaderKeepsGood
  <2>8. CASE \E line \in Lines : Push(line)
    BY <1>1, <2>8 DEF Push, PolicyInv, OutInv, Nothing, ReloaderKeepsGood, policies
  <2>9. CASE \E c \in Others : GateOther(c)
    <3>1. PICK c \in Others : GateOther(c)
      BY <2>9
    <3>2. out' = [item |-> c, made |-> Run(policy, c)] /\ UNCHANGED <<policies, pc>>
      BY <3>1 DEF GateOther
    <3> QED
      BY <1>1, <3>2 DEF PolicyInv, OutInv, ReloaderKeepsGood, policies
  <2>10. CASE UNCHANGED vars
    BY <1>1, <2>10 DEF PolicyInv, OutInv, ReloaderKeepsGood, vars, policies
  <2> QED
    BY <1>1, <2>1, <2>2, <2>3, <2>4, <2>5, <2>6, <2>7, <2>8, <2>9, <2>10 DEF Next
<1>2. Init => PolicyInv
  BY DEF Init, PolicyInv, OutInv, ReloaderKeepsGood
<1> QED
  BY <1>1, <1>2, DrainInvariance, PTL DEF Spec

(* The last of some places of a sequence is one of them.                     *)
LEMMA LastPlace ==
    ASSUME NEW n \in Nat, NEW T \in SUBSET (1 .. n), T # {}
    PROVE  Max(T) \in T /\ \A y \in T : y <= Max(T)
<1> DEFINE U == {n - x : x \in T}
<1>0. \A x \in T : x \in 1 .. n /\ n - x \in Nat
  OBVIOUS
<1>1. U \in SUBSET Nat /\ U # {}
  BY <1>0
<1>2. PICK m \in U : \A k \in U : m <= k
  BY <1>1, LeastNatural
<1>3. PICK x \in T : m = n - x
  BY <1>2
<1>4. \A y \in T : x >= y
  <2> SUFFICES ASSUME NEW y \in T PROVE x >= y
    OBVIOUS
  <2>1. n - y \in U
    OBVIOUS
  <2>2. n - x <= n - y
    BY <1>2, <1>3, <2>1
  <2> QED
    BY <1>0, <2>2
<1>5. \E z \in T : \A y \in T : z >= y
  BY <1>3, <1>4
<1>6. Max(T) \in T /\ \A y \in T : Max(T) >= y
  BY <1>5 DEF Max
<1> QED
  BY <1>6

(* A script with one more line: the line counts if it holds, and is as if    *)
(* it were not there if it does not.                                         *)
LEMMA OneMoreLine ==
    ASSUME NEW X, NEW script \in Seq(X), NEW line, NEW ctx,
           line.call.verb = "deny"
    PROVE  /\ Holds(line.guard, ctx) => Evaluate(Append(script, line), ctx).verb = "deny"
           /\ ~ Holds(line.guard, ctx) =>
                 Evaluate(Append(script, line), ctx) = Evaluate(script, ctx)
<1> DEFINE n == Len(script)
           longer == Append(script, line)
           fired == {i \in DOMAIN script : Holds(script[i].guard, ctx)}
           more == {i \in DOMAIN longer : Holds(longer[i].guard, ctx)}
<1>1. /\ n \in Nat /\ DOMAIN script = 1 .. n /\ DOMAIN longer = 1 .. n + 1
      /\ longer[n + 1] = line /\ \A i \in 1 .. n : longer[i] = script[i]
  <2> DEFINE Y == X \cup {line}
  <2>1. script \in Seq(Y) /\ line \in Y
    OBVIOUS
  <2> HIDE DEF Y
  <2> QED
    BY <2>1
<1>2. \A i \in 1 .. n + 1 : i \in 1 .. n \/ i = n + 1
  BY <1>1
<1> HIDE DEF longer, n
<1>3. ASSUME Holds(line.guard, ctx) PROVE Evaluate(longer, ctx).verb = "deny"
  <2>1. n + 1 \in more /\ more \in SUBSET (1 .. n + 1) /\ n + 1 \in Nat
    BY <1>1, <1>3
  <2> HIDE DEF more
  <2>2. Max(more) \in more /\ n + 1 <= Max(more)
    BY <2>1, LastPlace
  <2>3. Max(more) = n + 1
    <3>1. Max(more) \in 1 .. n + 1
      BY <2>1, <2>2
    <3> QED
      BY <1>1, <2>2, <3>1
  <2>4. Slot(longer, more) = line.call
    BY <1>1, <2>3 DEF Slot
  <2>5. Called(Slot(longer, more)).verb = "deny" /\ Decision("deny", {}, None).verb = "deny"
    BY <2>4 DEF Called, Decision
  <2>6. more # {}
    BY <2>1
  <2> QED
    BY <2>5, <2>6 DEF Evaluate, more
<1>4. ASSUME ~ Holds(line.guard, ctx) PROVE Evaluate(longer, ctx) = Evaluate(script, ctx)
  <2>1. more = fired
    BY <1>1, <1>2, <1>4
  <2>2. \A i \in fired : longer[i] = script[i]
    BY <1>1
  <2>3. fired # {} => Slot(longer, fired) = Slot(script, fired)
    <3>1. fired \in SUBSET (1 .. n)
      BY <1>1
    <3> HIDE DEF fired
    <3>2. fired # {} => Max(fired) \in fired
      BY <1>1, <3>1, LastPlace
    <3> QED
      BY <2>2, <3>2 DEF Slot
  <2> QED
    BY <2>1, <2>2, <2>3 DEF Evaluate
<1> QED
  BY <1>3, <1>4 DEF longer

(* An appended exclude drops what it matches and changes nothing else.       *)
LEMMA ExcludeDecides == ASSUME DrainInv, PolicyInv PROVE ExcludeWins
<1> SUFFICES ASSUME Gating, NEW p \in Patterns
             PROVE  LET rule == [guard |-> [on |-> "app", pattern |-> p],
                                 call  |-> [verb |-> "deny", rule |-> "exclude.cli", arg |-> None]]
                        made == Run(Append(policy, rule), out.item)
                    IN IF Holds(rule.guard, IngestCtx(out.item)) THEN made.verdict = "deny"
                       ELSE made = out.made
  BY DEF ExcludeWins
<1> DEFINE rule == [guard |-> [on |-> "app", pattern |-> p],
                    call  |-> [verb |-> "deny", rule |-> "exclude.cli", arg |-> None]]
           ctx == IngestCtx(out.item)
<1>1. policy \in Seq(ToSet(policy)) /\ out.made = Run(policy, out.item)
  BY PolicyAssumption DEF DrainInv, StateTypes, PolicyInv, OutInv, Gating
<1>2. rule.call.verb = "deny"
  OBVIOUS
<1> HIDE DEF rule
<1>3. /\ Holds(rule.guard, ctx) => Evaluate(Append(policy, rule), ctx).verb = "deny"
      /\ ~ Holds(rule.guard, ctx) => Evaluate(Append(policy, rule), ctx) = Evaluate(policy, ctx)
  BY <1>1, <1>2, OneMoreLine
<1>4. Holds(rule.guard, ctx) => Run(Append(policy, rule), out.item).verdict = "deny"
  BY <1>3 DEF Run, Dropped
<1>5. ~ Holds(rule.guard, ctx) => Run(Append(policy, rule), out.item) = out.made
  BY <1>1, <1>3 DEF Run
<1> QED
  BY <1>4, <1>5 DEF rule

(* An appended exclude wins, a glob matches what it stands for, and the      *)
(* reloader holds a policy somebody wrote, in every state.                   *)
THEOREM PolicyAlwaysApplies == Spec => []PolicyIsApplied
<1>1. DrainInv /\ PolicyInv => ExcludeWins
  BY ExcludeDecides
<1>2. PolicyInv => GlobMatches
  <2> SUFFICES ASSUME PolicyInv, Gating, out.item.app # None, NEW p \in Patterns
               PROVE  Glob(out.item.app, p) <=> StandsFor(p, out.item.app)
    BY DEF GlobMatches
  <2>1. out.item \in Lines \cup Others
    BY DEF PolicyInv, OutInv, Gating
  <2>2. out.item.app \in Seq(STRING) /\ p \in Seq(STRING)
    BY <2>1, PolicyAssumption
  <2> QED
    BY <2>2, GlobStands
<1>3. PolicyInv => ReloaderKeepsGood
  BY DEF PolicyInv
<1> QED
  BY <1>1, <1>2, <1>3, DrainInvariance, PolicyInvariance, PTL DEF PolicyIsApplied

-----------------------------------------------------------------------------
(* Redaction.                                                                *)

(* Finitely many matches; those of one detector lie apart.                   *)
Spots(S) ==
    /\ IsFiniteSet(S)
    /\ \A m \in S : m.kind \in Kinds /\ m.from \in Nat /\ m.to \in Nat /\ m.from < m.to
    /\ \A m, o \in S : m.kind = o.kind => m = o \/ m.to <= o.from \/ o.to <= m.from

(* k begins no later than m and reaches into it, to its end if they begin    *)
(* together.                                                                 *)
Covers(k, m) ==
    k.from <= m.from /\ m.from < k.to /\ (k.from = m.from => m.to <= k.to)

(* The matches in l follow one another.                                      *)
Follow(l) == \A i, j \in 1 .. Len(l) : i < j => l[i].to <= l[j].from

(* The sort: every match once, each behind those that precede it.            *)
LEMMA SortedLists ==
    ASSUME NEW S, Spots(S)
    PROVE  /\ Sorted(S) \in Seq(S)
           /\ \A i, j \in 1 .. Len(Sorted(S)) : i < j => Precedes(Sorted(S)[i], Sorted(S)[j])
           /\ \A m \in S : \E i \in 1 .. Len(Sorted(S)) : Sorted(S)[i] = m
<1> DEFINE R == {pair \in S \X S : Precedes(pair[1], pair[2])}
<1>1. \A x, y \in S : <<x, y>> \in R <=> Precedes(x, y)
  OBVIOUS
<1>2. \A m \in S : /\ m.kind \in Kinds /\ m.from \in Nat /\ m.to \in Nat /\ m.from < m.to
                   /\ DetectorAt[m.kind] \in Nat
  BY KindsAssumption DEF Spots
<1>3. Sorted(S) = Listed(S, R)
  BY DEF Sorted
<1> HIDE DEF R
<1>4. Orders(R, S)
  <2>1. \A x \in S : <<x, x>> \notin R
    BY <1>1, <1>2 DEF Precedes
  <2>2. ASSUME NEW x \in S, NEW y \in S, NEW z \in S, <<x, y>> \in R, <<y, z>> \in R
        PROVE  <<x, z>> \in R
    <3>1. Precedes(x, y) /\ Precedes(y, z)
      BY <1>1, <2>2
    <3>2. Precedes(x, z)
      BY <1>2, <3>1 DEF Precedes
    <3> QED
      BY <1>1, <3>2
  <2>3. ASSUME NEW x \in S, NEW y \in S, x # y PROVE <<x, y>> \in R \/ <<y, x>> \in R
    <3>1. x.kind = y.kind => x.to <= y.from \/ y.to <= x.from
      BY <2>3 DEF Spots
    <3>2. x.kind # y.kind => DetectorAt[x.kind] # DetectorAt[y.kind]
      BY <1>2, KindsAssumption
    <3>3. Precedes(x, y) \/ Precedes(y, x)
      BY <1>2, <3>1, <3>2 DEF Precedes
    <3> QED
      BY <1>1, <3>3
  <2> QED
    BY <2>1, <2>2, <2>3 DEF Orders
<1>5. IsFiniteSet(S)
  BY DEF Spots
<1>6. /\ Listed(S, R) \in Seq(S) /\ Len(Listed(S, R)) = Cardinality(S)
      /\ \A i \in 1 .. Cardinality(S) : Listed(S, R)[i] \in S
  BY <1>4, <1>5, ListedRanks
<1>7. \A i, j \in 1 .. Cardinality(S) : i < j => Precedes(Listed(S, R)[i], Listed(S, R)[j])
  BY <1>1, <1>4, <1>5, <1>6, ListedInOrder
<1>8. \A m \in S : \E i \in 1 .. Cardinality(S) : Listed(S, R)[i] = m
  BY <1>4, <1>5, ListedAll
<1> QED
  BY <1>3, <1>6, <1>7, <1>8

(* taken is what Kept has kept after each match of s.                        *)
Keeping(taken, s) ==
    /\ taken[0] = [kept |-> <<>>, end |-> 0]
    /\ \A n \in 1 .. Len(s) : taken[n] = Taken(taken[n - 1], s[n])

(* The recursion of Kept is one.                                             *)
LEMMA KeptKeeps ==
    ASSUME NEW S, Spots(S)
    PROVE  \E taken \in [0 .. Len(Sorted(S)) -> [kept : Seq(S), end : Nat]] :
              Keeping(taken, Sorted(S)) /\ Kept(S) = taken[Len(Sorted(S))].kept
<1> DEFINE s == Sorted(S)
           N == Len(s)
           Y == [kept : Seq(S), end : Nat]
           More(n, y) == Taken(y, s[n])
           base == [kept |-> <<>>, end |-> 0]
           step == [n \in 1 .. N |-> [y \in Y |-> More(n, y)]]
           Eq(f) == f = [n \in 0 .. N |-> IF n = 0 THEN base ELSE More(n, f[n - 1])]
           u == CHOOSE f : Eq(f)
<1>0. Kept(S) = u[N].kept
  BY DEF Kept
<1>1. s \in Seq(S) /\ N \in Nat /\ base \in Y
  BY SortedLists
<1>2. \A n \in 1 .. N, y \in Y : More(n, y) \in Y
  <2> SUFFICES ASSUME NEW n \in 1 .. N, NEW y \in Y PROVE More(n, y) \in Y
    OBVIOUS
  <2>1. s[n] \in S
    BY <1>1
  <2>2. s[n].to \in Nat /\ y.kept \in Seq(S)
    BY <2>1 DEF Spots
  <2>3. Append(y.kept, s[n]) \in Seq(S)
    BY <2>1, <2>2
  <2> QED
    BY <2>2, <2>3 DEF Taken
<1> HIDE DEF N, Y, More, base, s
<1>3. \A n \in 1 .. N : \A y \in Y : step[n][y] = More(n, y)
  OBVIOUS
<1>4. step \in [1 .. N -> [Y -> Y]]
  BY <1>2
<1> HIDE DEF step, Eq, u
<1>5. PICK f \in [0 .. N -> Y] : Iterates(f, N, base, step)
  BY ONLY <1>1, <1>4, Recursion
<1>6. \A n \in 1 .. N : f[n] = More(n, f[n - 1])
  BY <1>1, <1>3, <1>5 DEF Iterates
<1>7. Eq(f)
  <2>1. \A n \in 0 .. N : n = 0 \/ n \in 1 .. N
    BY <1>1
  <2>2. \A n \in 0 .. N : f[n] = IF n = 0 THEN base ELSE More(n, f[n - 1])
    BY <1>5, <1>6, <2>1 DEF Iterates
  <2>3. f = [n \in 0 .. N |-> f[n]]
    OBVIOUS
  <2> QED
    BY <2>2, <2>3 DEF Eq
<1>8. Eq(u)
  BY <1>7 DEF u
<1>9. u[0] = base /\ \A n \in 1 .. N : u[n] = More(n, u[n - 1])
  BY <1>1, <1>8 DEF Eq
<1> DEFINE T == {n \in 0 .. N : u[n] \in Y}
<1>10. 0 \in T /\ \A n \in 0 .. N - 1 : n \in T => n + 1 \in T
  BY <1>1, <1>2, <1>9
<1> HIDE DEF T
<1>11. \A n \in 0 .. N : n \in T
  BY <1>1, <1>10, CountUp
<1>12. u \in [0 .. N -> Y]
  BY <1>8, <1>11 DEF T, Eq
<1>13. Keeping(u, s)
  BY <1>9 DEF Keeping, base, More, N
<1> QED
  BY <1>0, <1>12, <1>13 DEF s, N, Y

(* What has been kept of the first n matches of s.                           *)
KeptInv(acc, s, n) ==
    /\ Follow(acc.kept)
    /\ \A i \in 1 .. Len(acc.kept) :
          acc.kept[i].to <= acc.end /\ \E j \in 1 .. n : acc.kept[i] = s[j]
    /\ acc.end = 0 \/ \E i \in 1 .. Len(acc.kept) : acc.kept[i].to = acc.end
    /\ \A j \in 1 .. n : \E i \in 1 .. Len(acc.kept) : Covers(acc.kept[i], s[j])

(* One match more is covered, or kept.                                       *)
LEMMA TakenCovers ==
    ASSUME NEW S, Spots(S), NEW s \in Seq(S), NEW n \in 0 .. Len(s) - 1,
           \A i, j \in 1 .. Len(s) : i < j => Precedes(s[i], s[j]),
           NEW acc \in [kept : Seq(S), end : Nat], KeptInv(acc, s, n)
    PROVE  KeptInv(Taken(acc, s[n + 1]), s, n + 1)
<1> DEFINE m == s[n + 1]
           K == acc.kept
           e == acc.end
<1>1. n \in Nat /\ n + 1 \in 1 .. Len(s) /\ m \in S /\ K \in Seq(S) /\ e \in Nat /\ Len(K) \in Nat
  OBVIOUS
<1>2. \A x \in S : x.from \in Nat /\ x.to \in Nat /\ x.from < x.to /\ DetectorAt[x.kind] \in Nat
  BY KindsAssumption DEF Spots
<1>3. \A j \in 1 .. n : s[j] \in S /\ Precedes(s[j], m)
  BY <1>1
<1>4. \A i \in 1 .. Len(K) : K[i] \in S /\ K[i].to <= e /\ \E j \in 1 .. n : K[i] = s[j]
  <2>1. \A i \in 1 .. Len(K) : K[i].to <= e /\ \E j \in 1 .. n : K[i] = s[j]
    BY DEF KeptInv
  <2> HIDE DEF K, e
  <2>2. \A i \in 1 .. Len(K) : K[i] \in S
    BY <1>1
  <2> QED
    BY <2>1, <2>2
<1>5. /\ e = 0 \/ \E i \in 1 .. Len(K) : K[i].to = e
      /\ \A j \in 1 .. n : \E i \in 1 .. Len(K) : Covers(K[i], s[j])
  BY DEF KeptInv
<1>6. \A j \in 1 .. n + 1 : j \in 1 .. n \/ j = n + 1
  BY <1>1
<1>7. Follow(K)
  BY DEF KeptInv
<1>8. CASE StartsInside(m, e)
  <2>1. Taken(acc, m) = acc
    BY <1>8 DEF Taken
  <2>2. m.from < e /\ e # 0
    BY <1>1, <1>2, <1>8 DEF StartsInside
  <2>3. PICK i \in 1 .. Len(K) : K[i].to = e
    BY <1>5, <2>2
  <2>4. K[i] \in S /\ Precedes(K[i], m)
    BY <1>3, <1>4
  <2>5. Covers(K[i], m)
    BY <1>1, <1>2, <2>2, <2>3, <2>4 DEF Covers, Precedes
  <2>6. \A j \in 1 .. n + 1 : \E k \in 1 .. Len(K) : Covers(K[k], s[j])
    BY <1>5, <1>6, <2>5
  <2>7. \A k \in 1 .. Len(K) : K[k].to <= e /\ \E j \in 1 .. n + 1 : K[k] = s[j]
    BY <1>1, <1>4
  <2>8. KeptInv(acc, s, n + 1)
    BY <1>5, <1>7, <2>6, <2>7 DEF KeptInv
  <2> QED
    BY <2>1, <2>8
<1>9. CASE ~ StartsInside(m, e)
  <2> DEFINE L == Append(K, m)
  <2>1. Taken(acc, m) = [kept |-> L, end |-> m.to]
    BY <1>9 DEF Taken
  <2>2. e <= m.from /\ m.from < m.to /\ e <= m.to /\ m.from \in Nat /\ m.to \in Nat
    BY <1>1, <1>2, <1>9 DEF StartsInside
  <2>3. /\ L \in Seq(S) /\ Len(L) = Len(K) + 1 /\ L[Len(K) + 1] = m
        /\ \A i \in 1 .. Len(K) : L[i] = K[i]
    BY <1>1
  <2> HIDE DEF L, K, m, e
  <2>4. \A i \in 1 .. Len(K) + 1 : i \in 1 .. Len(K) \/ i = Len(K) + 1
    BY <1>1
  <2>5. Follow(L)
    <3> SUFFICES ASSUME NEW i \in 1 .. Len(K) + 1, NEW j \in 1 .. Len(K) + 1, i < j
                 PROVE  L[i].to <= L[j].from
      BY <2>3 DEF Follow
    <3>1. i \in 1 .. Len(K) /\ L[i] = K[i] /\ K[i].to \in Nat
      BY <1>1, <1>2, <1>4, <2>3
    <3>2. CASE j \in 1 .. Len(K)
      BY <1>7, <2>3, <3>1, <3>2 DEF Follow
    <3>3. CASE j = Len(K) + 1
      BY SMTT(20), <1>1, <1>4, <2>2, <2>3, <3>1, <3>3
    <3> QED
      BY <2>4, <3>2, <3>3
  <2>6. ASSUME NEW i \in 1 .. Len(K) + 1
        PROVE  L[i].to <= m.to /\ \E j \in 1 .. n + 1 : L[i] = s[j]
    <3>1. CASE i \in 1 .. Len(K)
      <4>1. L[i] = K[i] /\ K[i].to <= e /\ K[i].to \in Nat
        BY <1>2, <1>4, <2>3, <3>1
      <4>2. PICK j \in 1 .. n : K[i] = s[j]
        BY <1>4, <3>1
      <4>3. j \in 1 .. n + 1
        BY <1>1
      <4> QED
        BY SMTT(20), <1>1, <2>2, <4>1, <4>2, <4>3
    <3>2. CASE i = Len(K) + 1
      <4>1. n + 1 \in 1 .. n + 1 /\ L[i] = s[n + 1]
        BY <1>1, <2>3, <3>2 DEF m
      <4> QED
        BY <2>2, <2>3, <3>2, <4>1
    <3> QED
      BY <2>4, <3>1, <3>2
  <2>7. Len(K) + 1 \in 1 .. Len(L) /\ L[Len(K) + 1].to = m.to
    BY <1>1, <2>3
  <2>8. ASSUME NEW j \in 1 .. n + 1 PROVE \E i \in 1 .. Len(L) : Covers(L[i], s[j])
    <3>1. CASE j \in 1 .. n
      <4>1. PICK i \in 1 .. Len(K) : Covers(K[i], s[j])
        BY <1>5, <3>1
      <4>2. i \in 1 .. Len(L) /\ L[i] = K[i]
        BY <1>1, <2>3
      <4> QED
        BY <4>1, <4>2
    <3>2. CASE j = n + 1
      <4>1. Covers(m, m)
        BY <2>2 DEF Covers
      <4>2. s[j] = m
        BY <3>2 DEF m
      <4> QED
        BY <2>3, <2>7, <4>1, <4>2
    <3> QED
      BY <1>6, <3>1, <3>2
  <2>9. KeptInv([kept |-> L, end |-> m.to], s, n + 1)
    BY <2>3, <2>5, <2>6, <2>7, <2>8 DEF KeptInv
  <2> QED
    BY <2>1, <2>9 DEF m
<1> QED
  BY <1>8, <1>9

(* The kept matches follow one another, and every match is covered by one.   *)
LEMMA KeptCovers ==
    ASSUME NEW S, Spots(S)
    PROVE  /\ Kept(S) \in Seq(S) /\ Follow(Kept(S))
           /\ \A m \in S : \E i \in 1 .. Len(Kept(S)) : Covers(Kept(S)[i], m)
<1> DEFINE s == Sorted(S)
           N == Len(s)
<1>1. PICK u \in [0 .. Len(s) -> [kept : Seq(S), end : Nat]] :
         Keeping(u, s) /\ Kept(S) = u[Len(s)].kept
  BY KeptKeeps
<1>2. /\ s \in Seq(S) /\ \A i, j \in 1 .. Len(s) : i < j => Precedes(s[i], s[j])
      /\ \A m \in S : \E i \in 1 .. Len(s) : s[i] = m
  BY SortedLists
<1> HIDE DEF s
<1>3. N \in Nat
  BY <1>2
<1> DEFINE T == {n \in 0 .. N : KeptInv(u[n], s, n)}
<1>4. 0 \in T
  <2>1. u[0] = [kept |-> <<>>, end |-> 0]
    BY <1>1 DEF Keeping
  <2>2. KeptInv([kept |-> <<>>, end |-> 0], s, 0)
    BY DEF KeptInv, Follow
  <2> QED
    BY <1>3, <2>1, <2>2
<1>5. ASSUME NEW n \in 0 .. N - 1, n \in T PROVE n + 1 \in T
  <2>1. n + 1 \in 1 .. N /\ n + 1 \in 0 .. N /\ n \in 0 .. N /\ n + 1 - 1 = n
    BY <1>3
  <2>2. u[n + 1] = Taken(u[n], s[n + 1]) /\ u[n] \in [kept : Seq(S), end : Nat]
    BY <1>1, <2>1 DEF Keeping
  <2>3. KeptInv(u[n], s, n)
    BY <1>5
  <2>4. KeptInv(Taken(u[n], s[n + 1]), s, n + 1)
    BY <1>2, <2>2, <2>3, TakenCovers
  <2> QED
    BY <2>1, <2>2, <2>4
<1>6. \A n \in 0 .. N - 1 : n \in T => n + 1 \in T
  BY <1>5
<1> HIDE DEF T
<1>7. N \in T
  <2>1. \A n \in 0 .. N : n \in T
    BY <1>3, <1>4, <1>6, CountUp
  <2> QED
    BY <1>3, <2>1
<1>8. KeptInv(u[N], s, N) /\ N \in 0 .. N
  BY <1>3, <1>7 DEF T
<1>9. Kept(S) \in Seq(S)
  BY <1>1, <1>8
<1>10. Follow(Kept(S)) /\ \A j \in 1 .. N : \E i \in 1 .. Len(Kept(S)) : Covers(Kept(S)[i], s[j])
  BY <1>1, <1>8 DEF KeptInv
<1> QED
  BY <1>2, <1>9, <1>10

(* A part of a text.                                                         *)
LEMMA Slice ==
    ASSUME NEW X, NEW s \in Seq(X), NEW a \in 0 .. Len(s), NEW b \in 0 .. Len(s)
    PROVE  /\ SubSeq(s, a + 1, b) \in Seq(X)
           /\ a <= b => Len(SubSeq(s, a + 1, b)) = b - a
           /\ a <= b => \A i \in 1 .. b - a : SubSeq(s, a + 1, b)[i] = s[a + i]
<1>1. Len(s) \in Nat /\ \A i \in 1 .. Len(s) : s[i] \in X
  OBVIOUS
<1>2. CASE a <= b
  <2> DEFINE t == [i \in 1 .. b - a |-> s[a + i]]
  <2>1. SubSeq(s, a + 1, b) = t
    BY <1>1, <1>2
  <2>2. \A i \in 1 .. b - a : s[a + i] \in X
    BY <1>1, <1>2
  <2>3. t \in Seq(X) /\ Len(t) = b - a /\ \A i \in 1 .. b - a : t[i] = s[a + i]
    BY <1>2, <2>2
  <2> QED
    BY <2>1, <2>3
<1>3. CASE a > b
  <2>1. SubSeq(s, a + 1, b) = <<>>
    BY <1>1, <1>3
  <2> QED
    BY <1>3, <2>1
<1> QED
  BY <1>2, <1>3

(* Two parts that meet.                                                      *)
LEMMA SlicesJoin ==
    ASSUME NEW X, NEW s \in Seq(X), NEW a \in 0 .. Len(s), NEW b \in a .. Len(s)
    PROVE  Chained(SubSeq(s, 1, a), SubSeq(s, a + 1, b)) = SubSeq(s, 1, b)
<1> DEFINE x == SubSeq(s, 1, a)
           y == SubSeq(s, a + 1, b)
           z == SubSeq(s, 1, b)
           w == x \o y
<1>1. a \in Nat /\ b \in Nat /\ a <= b /\ b \in 0 .. Len(s) /\ 0 \in 0 .. Len(s) /\ 0 + 1 = 1
  OBVIOUS
<1>2. x \in Seq(X) /\ Len(x) = a /\ \A i \in 1 .. a : x[i] = s[i]
  BY <1>1
<1>3. y \in Seq(X) /\ Len(y) = b - a /\ \A i \in 1 .. b - a : y[i] = s[a + i]
  BY <1>1, Slice
<1>4. z \in Seq(X) /\ Len(z) = b /\ \A i \in 1 .. b : z[i] = s[i]
  BY <1>1
<1> HIDE DEF x, y, z
<1>5. w \in Seq(X) /\ Len(w) = b /\ \A i \in 1 .. b : w[i] = IF i <= a THEN x[i] ELSE y[i - a]
  BY <1>1, <1>2, <1>3
<1> HIDE DEF w
<1>6. ASSUME NEW i \in 1 .. b PROVE w[i] = z[i]
  <2>1. CASE i <= a
    BY <1>1, <1>2, <1>4, <1>5, <2>1
  <2>2. CASE i > a
    <3>1. i - a \in 1 .. b - a /\ a + (i - a) = i /\ ~ i <= a
      BY <1>1, <2>2
    <3>2. w[i] = y[i - a] /\ y[i - a] = s[a + (i - a)]
      BY <1>3, <1>5, <3>1
    <3> QED
      BY <1>4, <3>1, <3>2
  <2> QED
    BY <1>1, <2>1, <2>2
<1>7. w = z
  BY <1>4, <1>5, <1>6
<1> QED
  BY <1>7 DEF w, x, y, z, Chained

-----------------------------------------------------------------------------
(* A text in which a character stands for its place.                         *)
Placed(body) ==
    /\ body \in Seq(ToSet(body))
    /\ \A i, j \in DOMAIN body : body[i] = body[j] => i = j
    /\ \A kind \in Kinds : ToSet(body) \cap ToSet(Placeholder(kind)) = {}

(* Matches in a text, that follow one another.                               *)
Cuts(K, body) ==
    /\ Follow(K)
    /\ \A k \in 1 .. Len(K) :
          /\ K[k].kind \in Kinds /\ K[k].from \in Nat /\ K[k].to \in Nat
          /\ K[k].from < K[k].to /\ K[k].to <= Len(body)

(* The end of the first n of them.                                           *)
Behind(K, n) == IF n = 0 THEN 0 ELSE K[n].to

(* The characters of the text that none of them covers.                      *)
Stays(body, K) ==
    {body[i] : i \in {j \in 1 .. Len(body) :
                         \A k \in 1 .. Len(K) : j <= K[k].from \/ j > K[k].to}}

LEMMA StaysPlaces ==
    ASSUME NEW body, Placed(body), NEW K, NEW i \in 1 .. Len(body)
    PROVE  body[i] \in Stays(body, K) <=> \A k \in 1 .. Len(K) : i <= K[k].from \/ i > K[k].to
<1>1. DOMAIN body = 1 .. Len(body)
  BY DEF Placed
<1> QED
  BY <1>1 DEF Placed, Stays

(* What lies between two of them stays, and what one covers does not.        *)
LEMMA StaysBetween ==
    ASSUME NEW body, Placed(body), NEW X, NEW K \in Seq(X), Cuts(K, body), NEW n \in 0 .. Len(K)
    PROVE  /\ Behind(K, n) \in 0 .. Len(body)
           /\ n < Len(K) =>
                 /\ Behind(K, n) <= K[n + 1].from
                 /\ \A i \in Behind(K, n) + 1 .. K[n + 1].from : body[i] \in Stays(body, K)
                 /\ \A i \in K[n + 1].from + 1 .. K[n + 1].to : body[i] \notin Stays(body, K)
           /\ n = Len(K) => \A i \in Behind(K, n) + 1 .. Len(body) : body[i] \in Stays(body, K)
<1>1. Len(body) \in Nat /\ Len(K) \in Nat /\ n \in Nat
  BY DEF Placed
<1>2. \A k \in 1 .. Len(K) : /\ K[k].from \in Nat /\ K[k].to \in Nat
                             /\ K[k].from < K[k].to /\ K[k].to <= Len(body)
  BY DEF Cuts
<1>3. \A i, j \in 1 .. Len(K) : i < j => K[i].to <= K[j].from
  BY DEF Cuts, Follow
<1>4. Behind(K, n) \in 0 .. Len(body)
  BY <1>1, <1>2 DEF Behind
<1>5. \A k \in 1 .. n : k \in 1 .. Len(K) /\ K[k].to <= Behind(K, n)
  <2> SUFFICES ASSUME NEW k \in 1 .. n PROVE k \in 1 .. Len(K) /\ K[k].to <= Behind(K, n)
    OBVIOUS
  <2>1. n # 0 /\ k \in 1 .. Len(K) /\ n \in 1 .. Len(K)
    BY <1>1
  <2>2. k < n => K[k].to <= K[n].from
    BY <1>3, <2>1
  <2> QED
    BY <1>1, <1>2, <2>1, <2>2 DEF Behind
<1>6. ASSUME n < Len(K)
      PROVE  /\ Behind(K, n) <= K[n + 1].from
             /\ \A i \in Behind(K, n) + 1 .. K[n + 1].from : body[i] \in Stays(body, K)
             /\ \A i \in K[n + 1].from + 1 .. K[n + 1].to : body[i] \notin Stays(body, K)
  <2>1. n + 1 \in 1 .. Len(K) /\ K[n + 1].from \in Nat /\ K[n + 1].to \in Nat
        /\ K[n + 1].from < K[n + 1].to /\ K[n + 1].to <= Len(body)
    BY <1>1, <1>2, <1>6
  <2>2. Behind(K, n) <= K[n + 1].from
    <3>1. CASE n = 0
      BY <2>1, <3>1 DEF Behind
    <3>2. CASE n # 0
      <4>1. n \in 1 .. Len(K) /\ n < n + 1
        BY <1>1, <3>2
      <4> QED
        BY <1>3, <2>1, <3>2, <4>1 DEF Behind
    <3> QED
      BY <3>1, <3>2
  <2>3. ASSUME NEW i \in Behind(K, n) + 1 .. K[n + 1].from PROVE body[i] \in Stays(body, K)
    <3>1. i \in 1 .. Len(body) /\ i > Behind(K, n) /\ i <= K[n + 1].from
      BY <1>1, <1>4, <2>1
    <3>2. ASSUME NEW k \in 1 .. Len(K) PROVE i <= K[k].from \/ i > K[k].to
      <4>1. CASE k <= n
        <5>1. K[k].to <= Behind(K, n) /\ K[k].to \in Nat
          BY <1>1, <1>2, <1>5, <4>1
        <5> QED
          BY <1>4, <3>1, <5>1
      <4>2. CASE k = n + 1
        BY <3>1, <4>2
      <4>3. CASE k > n + 1
        <5>1. K[n + 1].to <= K[k].from /\ K[k].from \in Nat
          BY <1>2, <1>3, <2>1, <4>3
        <5> QED
          BY <2>1, <3>1, <5>1
      <4> QED
        BY <1>1, <4>1, <4>2, <4>3
    <3> QED
      BY <3>1, <3>2, StaysPlaces
  <2>4. ASSUME NEW i \in K[n + 1].from + 1 .. K[n + 1].to PROVE body[i] \notin Stays(body, K)
    <3>1. i \in 1 .. Len(body) /\ ~ (i <= K[n + 1].from \/ i > K[n + 1].to)
      BY <1>1, <2>1
    <3> QED
      BY <2>1, <3>1, StaysPlaces
  <2> QED
    BY <2>2, <2>3, <2>4
<1>7. ASSUME n = Len(K), NEW i \in Behind(K, n) + 1 .. Len(body) PROVE body[i] \in Stays(body, K)
  <2>1. i \in 1 .. Len(body) /\ i > Behind(K, n)
    BY <1>1, <1>4
  <2>2. ASSUME NEW k \in 1 .. Len(K) PROVE i > K[k].to
    <3>1. K[k].to <= Behind(K, n) /\ K[k].to \in Nat
      BY <1>2, <1>5, <1>7
    <3> QED
      BY <1>4, <2>1, <3>1
  <2> QED
    BY <2>1, <2>2, StaysPlaces
<1> QED
  BY <1>4, <1>6, <1>7

(* The characters of a redacted text.                                        *)
Letters(body) == ToSet(body) \cup UNION {ToSet(Placeholder(kind)) : kind \in Kinds}

Spans == [kind : Kinds, offset : Nat, len : Nat]

Built(body) == [text : Seq(Letters(body)), spans : Seq(Spans), cursor : 0 .. Len(body)]

LEMMA PlaceholderType ==
    ASSUME NEW body, NEW kind \in Kinds
    PROVE  /\ PlaceholderLen[kind] \in Nat
           /\ Placeholder(kind) \in Seq(Letters(body))
           /\ Len(Placeholder(kind)) = PlaceholderLen[kind]
           /\ \A i \in 1 .. PlaceholderLen[kind] : Placeholder(kind)[i] \in ToSet(Placeholder(kind))
<1> DEFINE p == Placeholder(kind)
           n == PlaceholderLen[kind]
<1>1. n \in Nat
  BY KindsAssumption
<1>2. DOMAIN p = 1 .. n /\ p = [i \in 1 .. n |-> p[i]]
  BY DEF Placeholder
<1> HIDE DEF p, n
<1>3. \A i \in 1 .. n : p[i] \in ToSet(p)
  BY <1>2 DEF ToSet
<1>4. ToSet(p) \in SUBSET Letters(body)
  BY DEF Letters, p
<1>5. \A i \in 1 .. n : p[i] \in Letters(body)
  BY <1>3, <1>4
<1>6. p \in Seq(Letters(body)) /\ Len(p) = n
  BY <1>1, <1>2, <1>5
<1> QED
  BY <1>1, <1>3, <1>6 DEF p, n

(* The text before a match, with what was made of the text before that.      *)
Ahead(body, acc, m) == Chained(acc.text, SubSeq(body, acc.cursor + 1, m.from))

(* A placeholder more.                                                       *)
LEMMA ReplacedType ==
    ASSUME NEW body, Placed(body), NEW acc \in Built(body),
           NEW m, m.kind \in Kinds, m.from \in 0 .. Len(body), m.to \in 0 .. Len(body)
    PROVE  /\ Ahead(body, acc, m) \in Seq(Letters(body))
           /\ Replaced(body, acc, m) \in Built(body)
           /\ Replaced(body, acc, m).text = Chained(Ahead(body, acc, m), Placeholder(m.kind))
           /\ Replaced(body, acc, m).cursor = m.to
           /\ Replaced(body, acc, m).spans =
                 Append(acc.spans, [kind |-> m.kind, offset |-> Len(Ahead(body, acc, m)),
                                    len |-> PlaceholderLen[m.kind]])
<1> DEFINE a == Ahead(body, acc, m)
           part == SubSeq(body, acc.cursor + 1, m.from)
           span == [kind |-> m.kind, offset |-> Len(a), len |-> PlaceholderLen[m.kind]]
           full == Chained(a, Placeholder(m.kind))
           spans == Append(acc.spans, span)
           Z == Letters(body)
<1>1. Replaced(body, acc, m) = [text |-> full, spans |-> spans, cursor |-> m.to]
  BY DEF Replaced, Ahead, Chained, Offset
<1>2. acc.text \in Seq(Z) /\ acc.spans \in Seq(Spans) /\ acc.cursor \in 0 .. Len(body)
  BY DEF Built
<1>3. body \in Seq(Z)
  <2>1. ToSet(body) \in SUBSET Z /\ body \in Seq(ToSet(body))
    BY DEF Placed, Letters
  <2> HIDE DEF Z
  <2> QED
    BY <2>1
<1> HIDE DEF Z
<1>4. part \in Seq(Z)
  BY ONLY <1>2, <1>3, Slice, m.from \in 0 .. Len(body)
<1> HIDE DEF part
<1>5. a = Chained(acc.text, part)
  BY DEF Ahead, part
<1>6. a \in Seq(Z)
  BY <1>2, <1>4, <1>5, ChainedType
<1> HIDE DEF a
<1>7. Len(a) \in Nat /\ PlaceholderLen[m.kind] \in Nat /\ Placeholder(m.kind) \in Seq(Z)
  BY <1>6, PlaceholderType DEF Z
<1>8. span \in Spans
  BY <1>7 DEF Spans
<1> HIDE DEF span
<1>9. spans \in Seq(Spans)
  BY <1>2, <1>8
<1>10. full \in Seq(Z)
  BY <1>6, <1>7, ChainedType
<1> HIDE DEF full, spans
<1>11. Replaced(body, acc, m) \in Built(body)
  BY <1>1, <1>9, <1>10 DEF Built, Z
<1> QED
  BY <1>1, <1>6, <1>11 DEF a, full, spans, span, Z

(* built is what Redact has built after each kept match.                     *)
Building(built, body, K) ==
    /\ built[0] = [text |-> <<>>, spans |-> <<>>, cursor |-> 0]
    /\ \A n \in 1 .. Len(K) : built[n] = Replaced(body, built[n - 1], K[n])

(* The recursion of Redact is one.                                           *)
LEMMA RedactBuilds ==
    ASSUME NEW capture, Placed(capture.text), NEW requested, NEW K, NEW X, K \in Seq(X),
           K = Kept({m \in capture.matches : Active(m, requested)}), Cuts(K, capture.text)
    PROVE  \E built \in [0 .. Len(K) -> Built(capture.text)] :
              /\ Building(built, capture.text, K)
              /\ LET last == built[Len(K)]
                 IN Redact(capture, requested) =
                       [text  |-> Chained(last.text, SubSeq(capture.text, last.cursor + 1,
                                                           Len(capture.text))),
                        spans |-> last.spans]
<1> DEFINE body == capture.text
           N == Len(K)
           Y == Built(body)
           More(n, y) == Replaced(body, y, K[n])
           base == [text |-> <<>>, spans |-> <<>>, cursor |-> 0]
           step == [n \in 1 .. N |-> [y \in Y |-> More(n, y)]]
           Eq(f) == f = [n \in 0 .. N |-> IF n = 0 THEN base ELSE More(n, f[n - 1])]
           u == CHOOSE f : Eq(f)
<1>0. Redact(capture, requested) =
         [text  |-> Chained(u[N].text, SubSeq(body, u[N].cursor + 1, Len(body))),
          spans |-> u[N].spans]
  BY DEF Redact, Chained
<1>1. N \in Nat /\ base \in Y
  BY DEF Built, Placed
<1>2. \A n \in 1 .. N, y \in Y : More(n, y) \in Y
  <2> SUFFICES ASSUME NEW n \in 1 .. N, NEW y \in Y PROVE More(n, y) \in Y
    OBVIOUS
  <2>1. K[n].kind \in Kinds /\ K[n].from \in 0 .. Len(body) /\ K[n].to \in 0 .. Len(body)
    BY DEF Cuts, Placed
  <2> QED
    BY <2>1, ReplacedType
<1> HIDE DEF N, Y, More, base, body
<1>3. \A n \in 1 .. N : \A y \in Y : step[n][y] = More(n, y)
  OBVIOUS
<1>4. step \in [1 .. N -> [Y -> Y]]
  BY <1>2
<1> HIDE DEF step, Eq, u
<1>5. PICK f \in [0 .. N -> Y] : Iterates(f, N, base, step)
  BY ONLY <1>1, <1>4, Recursion
<1>6. \A n \in 1 .. N : f[n] = More(n, f[n - 1])
  BY <1>1, <1>3, <1>5 DEF Iterates
<1>7. Eq(f)
  <2>1. \A n \in 0 .. N : n = 0 \/ n \in 1 .. N
    BY <1>1
  <2>2. \A n \in 0 .. N : f[n] = IF n = 0 THEN base ELSE More(n, f[n - 1])
    BY <1>5, <1>6, <2>1 DEF Iterates
  <2>3. f = [n \in 0 .. N |-> f[n]]
    OBVIOUS
  <2> QED
    BY <2>2, <2>3 DEF Eq
<1>8. Eq(u)
  BY <1>7 DEF u
<1>9. u[0] = base /\ \A n \in 1 .. N : u[n] = More(n, u[n - 1])
  BY <1>1, <1>8 DEF Eq
<1> DEFINE T == {n \in 0 .. N : u[n] \in Y}
<1>10. 0 \in T /\ \A n \in 0 .. N - 1 : n \in T => n + 1 \in T
  BY <1>1, <1>2, <1>9
<1> HIDE DEF T
<1>11. \A n \in 0 .. N : n \in T
  BY <1>1, <1>10, CountUp
<1>12. u \in [0 .. N -> Y]
  BY <1>8, <1>11 DEF T, Eq
<1>13. Building(u, body, K)
  BY <1>9 DEF Building, base, More, N
<1> QED
  BY <1>0, <1>12, <1>13 DEF N, Y, body

(* What is left of the text so far is what stays of it.                      *)
LeftInv(acc, body, K) ==
    Only(acc.text, ToSet(body)) = Only(SubSeq(body, 1, acc.cursor), Stays(body, K))

(* A span locates its placeholder in t.                                      *)
Located(span, t) ==
    /\ span.len = PlaceholderLen[span.kind] /\ span.offset + span.len <= Len(t)
    /\ \A k \in 1 .. span.len : t[span.offset + k] = Placeholder(span.kind)[k]

Successive(spans) ==
    \A i \in 1 .. Len(spans) : i > 1 => spans[i - 1].offset + spans[i - 1].len <= spans[i].offset

SpansInv(acc) ==
    /\ Successive(acc.spans)
    /\ \A i \in 1 .. Len(acc.spans) : Located(acc.spans[i], acc.text)

BuiltInv(acc, body, K, n) ==
    acc.cursor = Behind(K, n) /\ LeftInv(acc, body, K) /\ SpansInv(acc)

(* A stretch of the text that stays is left as it is.                        *)
LEMMA SliceStays ==
    ASSUME NEW body, Placed(body), NEW K, NEW a \in 0 .. Len(body), NEW b \in a .. Len(body),
           \A i \in a + 1 .. b : body[i] \in Stays(body, K)
    PROVE  LET part == SubSeq(body, a + 1, b)
           IN Only(part, ToSet(body)) = part /\ Only(part, Stays(body, K)) = part
<1> DEFINE part == SubSeq(body, a + 1, b)
           X == ToSet(body)
<1>1. body \in Seq(X) /\ b \in 0 .. Len(body) /\ a <= b /\ Len(body) \in Nat
  BY DEF Placed
<1> HIDE DEF X
<1>2. part \in Seq(X) /\ Len(part) = b - a /\ \A i \in 1 .. b - a : part[i] = body[a + i]
  BY <1>1, Slice
<1> HIDE DEF part
<1>3. \A i \in 1 .. Len(part) : part[i] \in X /\ part[i] \in Stays(body, K)
  <2> SUFFICES ASSUME NEW i \in 1 .. Len(part) PROVE part[i] \in X /\ part[i] \in Stays(body, K)
    OBVIOUS
  <2>1. a + i \in a + 1 .. b /\ i \in 1 .. b - a
    BY <1>1, <1>2
  <2> QED
    BY SMTT(20), <1>2, <2>1
<1>4. Only(part, X) = part
  BY ONLY <1>2, <1>3, OnlyAll
<1>5. Only(part, Stays(body, K)) = part
  BY ONLY <1>2, <1>3, OnlyAll
<1> QED
  BY <1>4, <1>5 DEF part, X

(* A stretch of which nothing stays.                                         *)
LEMMA SliceGoes ==
    ASSUME NEW body, Placed(body), NEW K, NEW a \in 0 .. Len(body), NEW b \in a .. Len(body),
           \A i \in a + 1 .. b : body[i] \notin Stays(body, K)
    PROVE  Only(SubSeq(body, a + 1, b), Stays(body, K)) = <<>>
<1> DEFINE part == SubSeq(body, a + 1, b)
           X == ToSet(body)
<1>1. body \in Seq(X) /\ b \in 0 .. Len(body) /\ a <= b /\ Len(body) \in Nat
  BY DEF Placed
<1> HIDE DEF X
<1>2. part \in Seq(X) /\ Len(part) = b - a /\ \A i \in 1 .. b - a : part[i] = body[a + i]
  BY <1>1, Slice
<1> HIDE DEF part
<1>3. \A i \in 1 .. Len(part) : part[i] \notin Stays(body, K)
  <2> SUFFICES ASSUME NEW i \in 1 .. Len(part) PROVE part[i] \notin Stays(body, K)
    OBVIOUS
  <2>1. a + i \in a + 1 .. b /\ i \in 1 .. b - a
    BY <1>1, <1>2
  <2> QED
    BY <1>2, <2>1
<1>4. Only(part, Stays(body, K)) = <<>>
  BY ONLY <1>2, <1>3, OnlyNone
<1> QED
  BY <1>4 DEF part

(* A stretch that stays, behind what has been built.                         *)
LEMMA LeftGrows ==
    ASSUME NEW body, Placed(body), NEW K, NEW acc \in Built(body), LeftInv(acc, body, K),
           NEW b \in 0 .. Len(body), acc.cursor <= b,
           \A i \in acc.cursor + 1 .. b : body[i] \in Stays(body, K)
    PROVE  Only(Chained(acc.text, SubSeq(body, acc.cursor + 1, b)), ToSet(body))
              = Only(SubSeq(body, 1, b), Stays(body, K))
<1> DEFINE X == ToSet(body)
           Z == Letters(body)
           A == Stays(body, K)
           c == acc.cursor
           part == SubSeq(body, c + 1, b)
           head == SubSeq(body, 1, c)
           x == acc.text
<1>1. x \in Seq(Z) /\ c \in 0 .. Len(body) /\ b \in c .. Len(body) /\ Len(body) \in Nat
  BY DEF Built, Placed
<1>2. body \in Seq(X)
  BY DEF Placed
<1>3. body \in Seq(Z)
  <2>1. X \in SUBSET Z
    BY DEF Letters
  <2> HIDE DEF X, Z
  <2> QED
    BY <1>2, <2>1
<1>4. Only(part, X) = part /\ Only(part, A) = part
  BY <1>1, SliceStays
<1>5. Only(x, X) = Only(head, A)
  BY DEF LeftInv
<1> HIDE DEF X, Z, A, c, x
<1>6. part \in Seq(Z) /\ head \in Seq(Z)
  <2>1. 0 \in 0 .. Len(body) /\ 0 + 1 = 1
    BY <1>1
  <2>2. SubSeq(body, 0 + 1, c) \in Seq(Z)
    BY ONLY <1>1, <1>3, <2>1, Slice
  <2> QED
    BY <1>1, <1>3, <2>1, <2>2, Slice
<1>7. Chained(head, part) = SubSeq(body, 1, b)
  BY ONLY <1>1, <1>3, SlicesJoin
<1> HIDE DEF part, head
<1>8. Only(Chained(x, part), X) = Chained(Only(x, X), Only(part, X))
  BY ONLY <1>1, <1>6, OnlyChained
<1>9. Only(Chained(head, part), A) = Chained(Only(head, A), Only(part, A))
  BY ONLY <1>6, OnlyChained
<1>10. Only(Chained(x, part), X) = Only(SubSeq(body, 1, b), A)
  BY <1>4, <1>5, <1>7, <1>8, <1>9
<1> QED
  BY <1>10 DEF x, part, c, X, A

(* What is left after one match more.                                        *)
LEMMA LeftKept ==
    ASSUME NEW body, Placed(body), NEW K, NEW acc \in Built(body), LeftInv(acc, body, K),
           NEW m, m.kind \in Kinds, m.from \in 0 .. Len(body), m.to \in m.from .. Len(body),
           acc.cursor <= m.from,
           \A i \in acc.cursor + 1 .. m.from : body[i] \in Stays(body, K),
           \A i \in m.from + 1 .. m.to : body[i] \notin Stays(body, K)
    PROVE  LeftInv(Replaced(body, acc, m), body, K)
<1> DEFINE X == ToSet(body)
           Z == Letters(body)
           A == Stays(body, K)
           a == Ahead(body, acc, m)
           p == Placeholder(m.kind)
           head == SubSeq(body, 1, m.from)
           part == SubSeq(body, m.from + 1, m.to)
           more == Replaced(body, acc, m)
<1>1. /\ m.to \in 0 .. Len(body) /\ 0 \in 0 .. Len(body) /\ 0 + 1 = 1
      /\ m.from \in 0 .. Len(body) /\ m.to \in m.from .. Len(body)
  BY DEF Placed
<1>2. a \in Seq(Z) /\ more.text = Chained(a, p) /\ more.cursor = m.to
  BY <1>1, ReplacedType
<1>3. p \in Seq(Z) /\ \A i \in 1 .. Len(p) : p[i] \notin X
  <2>1. /\ p \in Seq(Z) /\ Len(p) = PlaceholderLen[m.kind]
        /\ \A i \in 1 .. PlaceholderLen[m.kind] : p[i] \in ToSet(p)
    BY PlaceholderType
  <2>2. X \cap ToSet(p) = {}
    BY DEF Placed
  <2> QED
    BY <2>1, <2>2
<1>4. Only(a, X) = Only(head, A)
  BY LeftGrows DEF Ahead
<1>5. Only(part, A) = <<>>
  BY <1>1, SliceGoes
<1>6. body \in Seq(Z)
  <2>1. X \in SUBSET Z /\ body \in Seq(X)
    BY DEF Letters, Placed
  <2> HIDE DEF X, Z
  <2> QED
    BY <2>1
<1> HIDE DEF X, Z, A, a, p, more
<1>7. part \in Seq(Z) /\ head \in Seq(Z)
  <2>1. SubSeq(body, 0 + 1, m.from) \in Seq(Z)
    BY ONLY <1>1, <1>6, Slice
  <2> QED
    BY <1>1, <1>6, <2>1, Slice
<1>8. Chained(head, part) = SubSeq(body, 1, m.to)
  BY ONLY <1>1, <1>6, SlicesJoin
<1> HIDE DEF part, head
<1>9. Only(p, X) = <<>>
  BY ONLY <1>3, OnlyNone
<1>10. Only(Chained(a, p), X) = Chained(Only(a, X), Only(p, X))
  BY ONLY <1>2, <1>3, OnlyChained
<1>11. Only(Chained(head, part), A) = Chained(Only(head, A), Only(part, A))
  BY ONLY <1>7, OnlyChained
<1>12. Only(more.text, X) = Only(SubSeq(body, 1, more.cursor), A)
  BY <1>2, <1>4, <1>5, <1>8, <1>9, <1>10, <1>11
<1> QED
  BY <1>12 DEF LeftInv, more, X, A

(* A placeholder at the end leaves the spans before it where they were.      *)
LEMMA LocatedKept ==
    ASSUME NEW Z, NEW x \in Seq(Z), NEW y \in Seq(Z), NEW span \in Spans, Located(span, x)
    PROVE  Located(span, Chained(x, y))
<1> DEFINE w == x \o y
           o == span.offset
           l == span.len
<1>1. o \in Nat /\ l \in Nat /\ o + l <= Len(x) /\ Len(x) \in Nat /\ Len(y) \in Nat
  BY DEF Spans, Located
<1>2. Len(w) = Len(x) + Len(y) /\ \A i \in 1 .. Len(x) : w[i] = x[i]
  OBVIOUS
<1> HIDE DEF w, o, l
<1>3. \A k \in 1 .. l : o + k \in 1 .. Len(x)
  BY <1>1
<1>4. o + l <= Len(w) /\ \A k \in 1 .. l : w[o + k] = x[o + k]
  BY <1>1, <1>2, <1>3
<1>5. Located(span, w)
  BY <1>4 DEF Located, o, l
<1> QED
  BY <1>5 DEF w, Chained

(* And its own span locates it.                                              *)
LEMMA LocatedNew ==
    ASSUME NEW body, NEW kind \in Kinds, NEW x \in Seq(Letters(body))
    PROVE  Located([kind |-> kind, offset |-> Len(x), len |-> PlaceholderLen[kind]],
                   Chained(x, Placeholder(kind)))
<1> DEFINE p == Placeholder(kind)
           n == PlaceholderLen[kind]
           w == x \o p
           Z == Letters(body)
<1>1. n \in Nat /\ p \in Seq(Z) /\ Len(p) = n /\ x \in Seq(Z)
  BY PlaceholderType
<1> HIDE DEF p, n, Z
<1>2. Len(x) \in Nat /\ Len(w) = Len(x) + n
      /\ \A i \in 1 .. Len(x) + n : w[i] = IF i <= Len(x) THEN x[i] ELSE p[i - Len(x)]
  BY <1>1
<1> HIDE DEF w
<1>3. ASSUME NEW k \in 1 .. n PROVE w[Len(x) + k] = p[k]
  <2>1. Len(x) + k \in 1 .. Len(x) + n /\ ~ Len(x) + k <= Len(x) /\ (Len(x) + k) - Len(x) = k
    BY <1>1, <1>2
  <2> QED
    BY <1>2, <2>1
<1>4. Located([kind |-> kind, offset |-> Len(x), len |-> n], w)
  BY <1>1, <1>2, <1>3 DEF Located, p, n
<1> QED
  BY <1>4 DEF w, p, n, Chained

(* The spans after one match more.                                           *)
LEMMA SpansKept ==
    ASSUME NEW body, Placed(body), NEW acc \in Built(body), SpansInv(acc),
           NEW m, m.kind \in Kinds, m.from \in 0 .. Len(body), m.to \in 0 .. Len(body)
    PROVE  SpansInv(Replaced(body, acc, m))
<1> DEFINE Z == Letters(body)
           a == Ahead(body, acc, m)
           p == Placeholder(m.kind)
           q == acc.spans
           n == Len(q)
           span == [kind |-> m.kind, offset |-> Len(a), len |-> PlaceholderLen[m.kind]]
           r == Append(q, span)
           more == Replaced(body, acc, m)
           part == SubSeq(body, acc.cursor + 1, m.from)
<1>1. a \in Seq(Z) /\ more.text = Chained(a, p) /\ more.spans = r
  BY ReplacedType
<1>2. acc.text \in Seq(Z) /\ q \in Seq(Spans) /\ p \in Seq(Z) /\ PlaceholderLen[m.kind] \in Nat
  BY PlaceholderType DEF Built
<1>3. part \in Seq(Z)
  <2>1. ToSet(body) \in SUBSET Z /\ body \in Seq(ToSet(body))
    BY DEF Letters, Placed
  <2>2. acc.cursor \in 0 .. Len(body)
    BY DEF Built
  <2> HIDE DEF Z
  <2>3. body \in Seq(Z)
    BY <2>1
  <2> QED
    BY ONLY <2>2, <2>3, Slice, m.from \in 0 .. Len(body)
<1> HIDE DEF Z, part
<1>4. a = Chained(acc.text, part)
  BY DEF Ahead, part
<1>5. Located(span, Chained(a, p))
  BY <1>1, LocatedNew DEF Z
<1>6. /\ n \in Nat /\ \A i \in 1 .. n : q[i] \in Spans
  BY <1>2
<1>7. \A i \in 1 .. n : Located(q[i], acc.text)
  BY DEF SpansInv
<1>8. Successive(q)
  BY DEF SpansInv
<1>9. Len(acc.text) <= Len(a) /\ Len(a) \in Nat /\ Len(acc.text) \in Nat
  <2>1. Len(acc.text \o part) = Len(acc.text) + Len(part)
    BY <1>2, <1>3
  <2> QED
    BY <1>1, <1>2, <1>3, <1>4, <2>1 DEF Chained
<1> HIDE DEF a, p, q, n, more
<1>10. \A i \in 1 .. n : Located(q[i], a) /\ Located(q[i], Chained(a, p))
  <2> SUFFICES ASSUME NEW i \in 1 .. n PROVE Located(q[i], a) /\ Located(q[i], Chained(a, p))
    OBVIOUS
  <2>1. Located(q[i], a)
    BY <1>2, <1>3, <1>4, <1>6, <1>7, LocatedKept
  <2> QED
    BY <1>1, <1>2, <1>6, <2>1, LocatedKept
<1>11. span \in Spans /\ span.offset = Len(a)
  BY <1>2, <1>9 DEF Spans
<1> HIDE DEF span
<1>12. Len(r) = n + 1 /\ r[n + 1] = span /\ \A i \in 1 .. n : r[i] = q[i]
  BY <1>2, <1>11 DEF n
<1> HIDE DEF r
<1>13. \A i \in 1 .. n + 1 : Located(r[i], Chained(a, p))
  <2>1. \A i \in 1 .. n + 1 : i \in 1 .. n \/ i = n + 1
    BY <1>6
  <2> QED
    BY <1>5, <1>10, <1>12, <2>1
<1>14. Successive(r)
  <2> SUFFICES ASSUME NEW i \in 1 .. n + 1, i > 1
               PROVE  r[i - 1].offset + r[i - 1].len <= r[i].offset
    BY <1>12 DEF Successive
  <2>1. i - 1 \in 1 .. n /\ r[i - 1] = q[i - 1]
    BY <1>6, <1>12
  <2>2. CASE i \in 1 .. n
    <3>1. q[i - 1].offset + q[i - 1].len <= q[i].offset
      BY <1>8, <2>2 DEF Successive, n
    <3> QED
      BY <1>12, <2>1, <2>2, <3>1
  <2>3. CASE i = n + 1
    <3>1. q[i - 1].offset + q[i - 1].len <= Len(a)
      BY <1>10, <2>1 DEF Located
    <3> QED
      BY <1>11, <1>12, <2>1, <2>3, <3>1
  <2> QED
    BY <1>6, <2>2, <2>3
<1>15. SpansInv(more)
  BY <1>1, <1>12, <1>13, <1>14 DEF SpansInv
<1> QED
  BY <1>15 DEF more

-----------------------------------------------------------------------------
(* The checksum.                                                             *)

(* A number of n integers.                                                   *)
LEMMA NumberList ==
    ASSUME NEW n \in Nat, NEW s, s = [j \in 1 .. n |-> s[j]], \A j \in 1 .. n : s[j] \in Int
    PROVE  s \in Seq(Int) /\ Len(s) = n
<1>1. s \in [1 .. n -> Int]
  OBVIOUS
<1> QED
  BY <1>1

(* Two multiples of ten no more than nine apart are the same.                *)
LEMMA TenApart ==
    ASSUME NEW x \in Int, NEW y \in Int, x % 10 = 0, y % 10 = 0, x - y \in -9 .. 9
    PROVE  x = y
<1>1. x = 10 * (x \div 10) + (x % 10) /\ x \div 10 \in Int
  OBVIOUS
<1>2. y = 10 * (y \div 10) + (y % 10) /\ y \div 10 \in Int
  OBVIOUS
<1>3. PICK q \in Int : q = x \div 10
  BY <1>1
<1>4. PICK r \in Int : r = y \div 10
  BY <1>2
<1>5. x = 10 * q /\ y = 10 * r
  BY <1>1, <1>2, <1>3, <1>4
<1>6. ASSUME NEW a \in Int, NEW b \in Int, 10 * a - 10 * b \in -9 .. 9 PROVE a = b
  BY <1>6
<1> QED
  BY <1>5, <1>6

(* A digit counts for a digit, and different ones differently.               *)
LEMMA WorthDiffers ==
    /\ \A d \in 0 .. 9 : Doubled(d) \in 0 .. 9
    /\ \A d, e \in 0 .. 9 : Doubled(d) = Doubled(e) => d = e
BY DEF Doubled

(* A valid number does not stay valid with one digit changed.                *)
LEMMA LuhnCatches ==
    ASSUME NEW digits \in Seq(0 .. 9), NEW i \in DOMAIN digits, NEW d \in 0 .. 9,
           LuhnValid(digits), LuhnValid([digits EXCEPT ![i] = d])
    PROVE  d = digits[i]
<1> DEFINE n == Len(digits)
           slip == [digits EXCEPT ![i] = d]
           good == [j \in 1 .. n |-> Worth(digits, j)]
           bad == [j \in 1 .. n |-> Worth(slip, j)]
           even == (n - i) % 2 = 0
<1>1. /\ n \in Nat /\ i \in 1 .. n /\ \A j \in 1 .. n : digits[j] \in 0 .. 9
      /\ slip \in Seq(0 .. 9) /\ Len(slip) = n /\ slip[i] = d
      /\ \A j \in 1 .. n : j # i => slip[j] = digits[j]
  OBVIOUS
<1>2. Total(good) % 10 = 0 /\ Total(bad) % 10 = 0
  <2>1. Len(slip) = n
    BY <1>1
  <2> HIDE DEF slip
  <2>2. Total([j \in 1 .. Len(slip) |-> Worth(slip, j)]) % 10 = 0
    BY DEF LuhnValid, slip
  <2>3. Total([j \in 1 .. n |-> Worth(digits, j)]) % 10 = 0
    BY DEF LuhnValid
  <2> QED
    BY <2>1, <2>2, <2>3
<1> HIDE DEF slip, n
<1>3. \A j \in 1 .. n : Worth(digits, j) \in 0 .. 9 /\ Worth(slip, j) \in 0 .. 9
  <2> SUFFICES ASSUME NEW j \in 1 .. n
               PROVE  Worth(digits, j) \in 0 .. 9 /\ Worth(slip, j) \in 0 .. 9
    OBVIOUS
  <2>1. digits[j] \in 0 .. 9 /\ slip[j] \in 0 .. 9
    BY <1>1
  <2> QED
    BY <2>1, WorthDiffers DEF Worth
<1>4. good \in Seq(Int) /\ bad \in Seq(Int) /\ Len(good) = n /\ Len(bad) = n
  <2>1. \A j \in 1 .. n : good[j] \in Int /\ bad[j] \in Int
    BY <1>3
  <2>2. n \in Nat /\ good = [j \in 1 .. n |-> good[j]] /\ bad = [j \in 1 .. n |-> bad[j]]
    BY <1>1
  <2> HIDE DEF good, bad
  <2> QED
    BY <2>1, <2>2, NumberList
<1>5. \A j \in 1 .. n : j # i => good[j] = bad[j]
  BY <1>1 DEF Worth, n
<1>6. good[i] = Worth(digits, i) /\ bad[i] = Worth(slip, i)
  BY <1>1
<1> HIDE DEF good, bad
<1>7. Total(bad) = Total(good) + (bad[i] - good[i]) /\ Total(good) \in Int
  <2>1. i \in 1 .. Len(good) /\ \A j \in 1 .. Len(good) : j # i => good[j] = bad[j]
    BY <1>1, <1>4, <1>5
  <2>2. Total(bad) = Total(good) + (bad[i] - good[i])
    BY ONLY <1>4, <2>1, TotalChange
  <2>3. Total(good) \in Int
    BY ONLY <1>4, TotalType
  <2> QED
    BY <2>2, <2>3
<1>8. good[i] \in 0 .. 9 /\ bad[i] \in 0 .. 9
  BY <1>1, <1>3, <1>6
<1>10. good[i] = bad[i]
  <2>1. PICK a \in 0 .. 9, b \in 0 .. 9 : a = good[i] /\ b = bad[i]
    BY <1>8
  <2>2. PICK x \in Int : x = Total(good)
    BY <1>7
  <2>3. PICK y : y = Total(bad)
    OBVIOUS
  <2>4. y = x + (b - a)
    BY <1>7, <2>1, <2>2, <2>3
  <2>5. y \in Int /\ x - y \in -9 .. 9
    BY ONLY <2>4, a \in 0 .. 9, b \in 0 .. 9, x \in Int
  <2>6. x % 10 = 0 /\ y % 10 = 0
    BY <1>2, <2>2, <2>3
  <2>7. x = y
    BY <2>5, <2>6, TenApart
  <2>8. a = b
    BY ONLY <2>4, <2>7, a \in 0 .. 9, b \in 0 .. 9, x \in Int
  <2> QED
    BY <2>1, <2>8
<1>11. Worth(digits, i) = Worth(slip, i)
  BY <1>6, <1>10
<1>12. Len(digits) = n /\ Len(slip) = n /\ slip[i] = d /\ digits[i] \in 0 .. 9
  BY <1>1 DEF n
<1>13. Worth(digits, i) = IF even THEN digits[i] ELSE Doubled(digits[i])
  BY <1>12 DEF Worth
<1>14. Worth(slip, i) = IF even THEN d ELSE Doubled(d)
  BY <1>12 DEF Worth
<1> HIDE DEF even
<1> QED
  BY <1>11, <1>12, <1>13, <1>14, WorthDiffers

-----------------------------------------------------------------------------
(* The matches that count in a capture.                                      *)
Counted(capture, requested) == {m \in capture.matches : Active(m, requested)}

(* What Redact makes of a text: what no kept match covers is left, and the   *)
(* spans locate their placeholders.                                          *)
LEMMA RedactLeaves ==
    ASSUME NEW capture, Placed(capture.text), NEW requested, NEW K, NEW X, K \in Seq(X),
           K = Kept(Counted(capture, requested)), Cuts(K, capture.text)
    PROVE  LET made == Redact(capture, requested)
           IN /\ Only(made.text, ToSet(capture.text)) = Only(capture.text, Stays(capture.text, K))
              /\ made.spans \in Seq(Spans) /\ SpansInv(made)
<1> DEFINE body == capture.text
           N == Len(K)
<1>0. K = Kept({m \in capture.matches : Active(m, requested)})
  BY DEF Counted
<1>1. PICK u \in [0 .. N -> Built(body)] :
         /\ Building(u, body, K)
         /\ Redact(capture, requested) =
               [text  |-> Chained(u[N].text, SubSeq(body, u[N].cursor + 1, Len(body))),
                spans |-> u[N].spans]
  BY <1>0, RedactBuilds
<1>2. N \in Nat /\ Len(body) \in Nat /\ Placed(body) /\ Cuts(K, body) /\ K \in Seq(X)
  BY DEF Placed
<1> HIDE DEF body, N
<1> DEFINE T == {n \in 0 .. N : BuiltInv(u[n], body, K, n)}
<1>3. 0 \in T
  <2> DEFINE base == [text |-> <<>>, spans |-> <<>>, cursor |-> 0]
  <2>1. Only(<<>>, ToSet(body)) = <<>> /\ Only(<<>>, Stays(body, K)) = <<>>
    BY OnlyEmpty
  <2>2. SubSeq(body, 1, 0) = <<>>
    BY <1>2 DEF Placed
  <2>3. LeftInv(base, body, K)
    BY <2>1, <2>2 DEF LeftInv
  <2>4. SpansInv(base)
    BY DEF SpansInv, Successive
  <2>5. BuiltInv(base, body, K, 0)
    BY <2>3, <2>4 DEF BuiltInv, Behind
  <2>6. u[0] = base
    BY <1>1 DEF Building
  <2> HIDE DEF base
  <2> QED
    BY <1>2, <2>5, <2>6
<1>4. ASSUME NEW n \in 0 .. N - 1, n \in T PROVE n + 1 \in T
  <2> DEFINE m == K[n + 1]
             acc == u[n]
             more == Replaced(body, acc, m)
  <2>1. n + 1 \in 1 .. N /\ n + 1 \in 0 .. N /\ n \in 0 .. N /\ n + 1 - 1 = n /\ n < N
        /\ n + 1 # 0
    BY <1>2
  <2>2. u[n + 1] = more
    BY <1>1, <2>1 DEF Building, N
  <2>3. acc \in Built(body) /\ BuiltInv(acc, body, K, n)
    BY <1>1, <1>4, <2>1
  <2>4. /\ m.kind \in Kinds /\ m.from \in 0 .. Len(body) /\ m.to \in m.from .. Len(body)
        /\ m.to \in 0 .. Len(body)
    BY <1>2, <2>1 DEF Cuts, N
  <2>5. /\ Behind(K, n) <= m.from
        /\ \A i \in Behind(K, n) + 1 .. m.from : body[i] \in Stays(body, K)
        /\ \A i \in m.from + 1 .. m.to : body[i] \notin Stays(body, K)
    BY <1>2, <2>1, StaysBetween DEF N
  <2>6. Behind(K, n + 1) = m.to
    BY <2>1 DEF Behind
  <2> HIDE DEF T, m, acc
  <2>7. acc.cursor = Behind(K, n) /\ LeftInv(acc, body, K) /\ SpansInv(acc)
    BY <2>3 DEF BuiltInv
  <2>8. more.cursor = m.to
    BY <1>2, <2>3, <2>4, ReplacedType
  <2>9. LeftInv(more, body, K)
    BY <1>2, <2>3, <2>4, <2>5, <2>7, LeftKept
  <2>10. SpansInv(more)
    BY <1>2, <2>3, <2>4, <2>7, SpansKept
  <2> HIDE DEF more
  <2>11. BuiltInv(u[n + 1], body, K, n + 1)
    BY <2>2, <2>6, <2>8, <2>9, <2>10 DEF BuiltInv
  <2> QED
    BY <2>1, <2>11 DEF T
<1>5. \A n \in 0 .. N - 1 : n \in T => n + 1 \in T
  BY <1>4
<1> HIDE DEF T
<1>6. N \in T /\ N \in 0 .. N
  <2>1. \A n \in 0 .. N : n \in T
    BY <1>2, <1>3, <1>5, CountUp
  <2> QED
    BY <1>2, <2>1
<1>7. PICK last : last = u[N]
  OBVIOUS
<1>8. last \in Built(body) /\ BuiltInv(last, body, K, N)
  BY <1>1, <1>6, <1>7 DEF T
<1>9. /\ last.cursor \in 0 .. Len(body) /\ Len(body) \in 0 .. Len(body) /\ last.cursor <= Len(body)
      /\ \A i \in last.cursor + 1 .. Len(body) : body[i] \in Stays(body, K)
      /\ LeftInv(last, body, K) /\ SpansInv(last)
  <2>1. \A i \in Behind(K, N) + 1 .. Len(body) : body[i] \in Stays(body, K)
    BY <1>2, <1>6, StaysBetween DEF N
  <2>2. last.cursor = Behind(K, N) /\ LeftInv(last, body, K) /\ SpansInv(last)
    BY <1>8 DEF BuiltInv
  <2>3. last.cursor \in 0 .. Len(body)
    BY <1>8 DEF Built
  <2> QED
    BY <1>2, <2>1, <2>2, <2>3
<1> DEFINE tail == SubSeq(body, last.cursor + 1, Len(body))
           full == Chained(last.text, tail)
<1>10. Only(full, ToSet(body)) = Only(body, Stays(body, K))
  <2>1. Only(full, ToSet(body)) = Only(SubSeq(body, 1, Len(body)), Stays(body, K))
    BY <1>2, <1>8, <1>9, LeftGrows
  <2>2. SubSeq(body, 1, Len(body)) = body
    BY <1>2 DEF Placed
  <2> HIDE DEF full
  <2> QED
    BY <2>1, <2>2
<1>11. last.text \in Seq(Letters(body)) /\ last.spans \in Seq(Spans)
  BY <1>8 DEF Built
<1>12. tail \in Seq(Letters(body))
  <2>1. ToSet(body) \in SUBSET Letters(body) /\ body \in Seq(ToSet(body))
    BY <1>2 DEF Letters, Placed
  <2>2. body \in Seq(Letters(body))
    BY <2>1
  <2> QED
    BY ONLY <1>9, <2>2, Slice
<1> HIDE DEF tail
<1> DEFINE made == [text |-> full, spans |-> last.spans]
<1>13. SpansInv(made)
  <2>1. Successive(last.spans) /\ \A i \in 1 .. Len(last.spans) : Located(last.spans[i], last.text)
    BY <1>9 DEF SpansInv
  <2>2. \A i \in 1 .. Len(last.spans) : last.spans[i] \in Spans
    BY <1>11
  <2>3. \A i \in 1 .. Len(last.spans) : Located(last.spans[i], full)
    BY <1>11, <1>12, <2>1, <2>2, LocatedKept
  <2> HIDE DEF full
  <2> QED
    BY <2>1, <2>3 DEF SpansInv
<1>14. Redact(capture, requested) = made
  BY <1>1, <1>7 DEF tail
<1> HIDE DEF full
<1> QED
  BY <1>10, <1>11, <1>13, <1>14 DEF body

-----------------------------------------------------------------------------
(* A capture as the other parts of the system hand it over.                  *)
LEMMA CaptureTexts ==
    ASSUME NEW c \in Lines \cup Others, NEW requested
    PROVE  /\ Placed(c.text) /\ Spots(Counted(c, requested))
           /\ \A m \in Counted(c, requested) : m.to <= Len(c.text)
<1>1. Placed(c.text)
  BY CapturesAssumption DEF Placed
<1>2. Len(c.text) \in Nat
  BY <1>1 DEF Placed
<1>3. \A m \in c.matches : /\ m.kind \in Kinds /\ m.from \in Nat /\ m.to \in Nat
                           /\ m.from < m.to /\ m.to <= Len(c.text)
  BY <1>2, CapturesAssumption
<1>4. IsFiniteSet(c.matches)
  BY CapturesAssumption
<1>5. Counted(c, requested) \in SUBSET c.matches
  BY DEF Counted
<1>6. IsFiniteSet(Counted(c, requested))
  BY <1>4, <1>5, FS_Subset
<1>7. \A m, o \in c.matches : m.kind = o.kind => m = o \/ m.to <= o.from \/ o.to <= m.from
  BY CapturesAssumption
<1> QED
  BY <1>1, <1>3, <1>5, <1>6, <1>7 DEF Spots

(* What the bank keeps cuts the text, and covers what counts.                *)
LEMMA KeptCuts ==
    ASSUME NEW c \in Lines \cup Others, NEW requested
    PROVE  LET S == Counted(c, requested)
           IN /\ Kept(S) \in Seq(S) /\ Cuts(Kept(S), c.text)
              /\ \A m \in S : \E i \in 1 .. Len(Kept(S)) : Covers(Kept(S)[i], m)
<1> DEFINE S == Counted(c, requested)
           K == Kept(S)
<1>1. Spots(S) /\ \A m \in S : m.to <= Len(c.text)
  BY CaptureTexts
<1> HIDE DEF S
<1>2. K \in Seq(S) /\ Follow(K) /\ \A m \in S : \E i \in 1 .. Len(K) : Covers(K[i], m)
  BY <1>1, KeptCovers
<1> HIDE DEF K
<1>3. \A k \in 1 .. Len(K) : K[k] \in S
  BY <1>2
<1>4. Cuts(K, c.text)
  BY <1>1, <1>2, <1>3 DEF Cuts, Spots
<1> QED
  BY <1>2, <1>4 DEF S, K

(* A redacted text holds no secret whole, and all that is none.              *)
LEMMA SecretsGo ==
    ASSUME NEW c \in Lines \cup Others, NEW requested
    PROVE  LET body   == c.text
               left   == Only(Redact(c, requested).text, ToSet(body))
               S      == Counted(c, requested)
               Cut(m) == {body[i] : i \in m.from + 1 .. m.to}
               open   == ToSet(body) \ UNION {Cut(m) : m \in S}
           IN /\ \A m \in S :
                    /\ body[m.from + 1] \notin ToSet(left)
                    /\ (\A o \in S : o.from < m.from => o.to <= m.from)
                          => Cut(m) \cap ToSet(left) = {}
              /\ Only(body, open) = Only(left, open)
<1> DEFINE body   == c.text
           X      == ToSet(body)
           left   == Only(Redact(c, requested).text, X)
           S      == Counted(c, requested)
           Cut(m) == {body[i] : i \in m.from + 1 .. m.to}
           open   == ToSet(body) \ UNION {Cut(m) : m \in S}
           K      == Kept(S)
           A      == Stays(body, K)
<1>1. Placed(body) /\ Spots(S) /\ \A m \in S : m.to <= Len(body)
  BY CaptureTexts
<1>2. K \in Seq(S) /\ Cuts(K, body) /\ \A m \in S : \E i \in 1 .. Len(K) : Covers(K[i], m)
  BY KeptCuts
<1>3. left = Only(body, A)
  BY <1>1, <1>2, RedactLeaves
<1>4. body \in Seq(X)
  BY <1>1 DEF Placed
<1> HIDE DEF body, left, S, K, A, X
<1>5. Len(body) \in Nat /\ X = {body[i] : i \in 1 .. Len(body)}
  BY <1>4 DEF X, ToSet
<1>6. ToSet(left) \subseteq A
  <2>1. PICK p : Places(p, Only(body, A), body, Len(body), A)
    BY ONLY <1>4, OnlyPlaces
  <2>2. Only(body, A) \in Seq(X)
    BY ONLY <1>4, OnlyPlaces
  <2>3. DOMAIN left = 1 .. Len(left) /\ \A i \in 1 .. Len(left) : left[i] \in A
    BY <1>3, <2>1, <2>2 DEF Places
  <2> QED
    BY <2>3 DEF ToSet
<1>7. \A m \in S : m.from \in Nat /\ m.to \in Nat /\ m.from < m.to /\ m.to <= Len(body)
  BY <1>1 DEF Spots
<1>8. \A k \in 1 .. Len(K) : K[k] \in S
  BY <1>2
<1>9. \A k \in 1 .. Len(K) : \A i \in K[k].from + 1 .. K[k].to : body[i] \notin A
  <2> SUFFICES ASSUME NEW k \in 1 .. Len(K), NEW i \in K[k].from + 1 .. K[k].to
               PROVE  body[i] \notin A
    OBVIOUS
  <2>1. i \in 1 .. Len(body) /\ ~ (i <= K[k].from \/ i > K[k].to)
    BY <1>5, <1>7, <1>8
  <2> QED
    BY <1>1, <2>1, StaysPlaces DEF A
<1>10. ASSUME NEW m \in S
       PROVE  /\ body[m.from + 1] \notin ToSet(left)
              /\ (\A o \in S : o.from < m.from => o.to <= m.from)
                    => Cut(m) \cap ToSet(left) = {}
  <2>1. PICK k \in 1 .. Len(K) : Covers(K[k], m)
    BY <1>2
  <2>2. K[k] \in S /\ K[k].from \in Nat /\ K[k].to \in Nat /\ m.from \in Nat /\ m.to \in Nat
    BY <1>7, <1>8
  <2>3. K[k].from <= m.from /\ m.from < K[k].to /\ (K[k].from = m.from => m.to <= K[k].to)
    BY <2>1 DEF Covers
  <2>4. m.from + 1 \in K[k].from + 1 .. K[k].to
    BY <2>2, <2>3
  <2>5. body[m.from + 1] \notin ToSet(left)
    BY <1>6, <1>9, <2>4
  <2>6. ASSUME \A o \in S : o.from < m.from => o.to <= m.from, NEW i \in m.from + 1 .. m.to
        PROVE  body[i] \notin ToSet(left)
    <3>1. K[k].from = m.from
      BY <2>2, <2>3, <2>6
    <3>2. i \in K[k].from + 1 .. K[k].to
      BY <2>2, <2>3, <3>1
    <3> QED
      BY <1>6, <1>9, <3>2
  <2> QED
    BY <2>5, <2>6
<1>11. open \cap A = open
  <2> SUFFICES ASSUME NEW x \in open PROVE x \in A
    OBVIOUS
  <2>1. x \in X /\ \A m \in S : \A i \in m.from + 1 .. m.to : x # body[i]
    BY DEF X
  <2>2. PICK i \in 1 .. Len(body) : x = body[i]
    BY <1>5, <2>1
  <2>3. ASSUME NEW k \in 1 .. Len(K) PROVE i <= K[k].from \/ i > K[k].to
    <3>1. i \notin K[k].from + 1 .. K[k].to
      BY <1>8, <2>1, <2>2
    <3>2. K[k].from \in Nat /\ K[k].to \in Nat
      BY <1>7, <1>8
    <3> QED
      BY <1>5, <3>1, <3>2
  <2> QED
    BY <1>1, <2>2, <2>3, StaysPlaces DEF A
<1>12. Only(body, open) = Only(left, open)
  <2> HIDE DEF open
  <2>1. Only(Only(body, A), open) = Only(body, A \cap open)
    BY ONLY <1>4, OnlyTwice
  <2>2. A \cap open = open
    BY <1>11
  <2> QED
    BY <1>3, <2>1, <2>2
<1> QED
  BY <1>10, <1>12 DEF body, left, S, X

(* A redacted text has its placeholders where the spans say.                 *)
LEMMA SpansSay ==
    ASSUME NEW c \in Lines \cup Others, NEW requested
    PROVE  LET made == Redact(c, requested)
           IN \A i \in DOMAIN made.spans :
                 LET s == made.spans[i]
                 IN /\ SubSeq(made.text, s.offset + 1, s.offset + s.len) = Placeholder(s.kind)
                    /\ i > 1 => made.spans[i - 1].offset + made.spans[i - 1].len <= s.offset
<1> DEFINE made == Redact(c, requested)
           K == Kept(Counted(c, requested))
           n == Len(made.spans)
<1>1. made.spans \in Seq(Spans) /\ SpansInv(made)
  BY CaptureTexts, KeptCuts, RedactLeaves
<1> HIDE DEF made
<1>2. DOMAIN made.spans = 1 .. n /\ \A i \in 1 .. n : made.spans[i] \in Spans
  BY <1>1
<1>3. ASSUME NEW i \in 1 .. n
      PROVE  LET s == made.spans[i]
             IN SubSeq(made.text, s.offset + 1, s.offset + s.len) = Placeholder(s.kind)
  <2> DEFINE s == made.spans[i]
             p == Placeholder(s.kind)
             t == made.text
  <2>1. s \in Spans /\ Located(s, t)
    BY <1>1, <1>2 DEF SpansInv
  <2> HIDE DEF s, t
  <2>2. s.offset \in Nat /\ s.len \in Nat /\ s.len = PlaceholderLen[s.kind]
        /\ \A k \in 1 .. s.len : t[s.offset + k] = p[k]
    BY <2>1 DEF Spans, Located
  <2>3. p = [k \in 1 .. s.len |-> p[k]]
    BY <2>2 DEF Placeholder
  <2> HIDE DEF p
  <2>4. SubSeq(t, s.offset + 1, s.offset + s.len) = [k \in 1 .. s.len |-> t[s.offset + k]]
    <3> DEFINE o == s.offset
               l == s.len
    <3>1. o \in Nat /\ l \in Nat
      BY <2>2
    <3> HIDE DEF o, l
    <3>2. SubSeq(t, o + 1, o + l) = [k \in 1 .. l |-> t[o + k]]
      BY ONLY <3>1
    <3> QED
      BY <3>2 DEF o, l
  <2>5. [k \in 1 .. s.len |-> t[s.offset + k]] = [k \in 1 .. s.len |-> p[k]]
    BY <2>2
  <2> QED
    BY <2>3, <2>4, <2>5 DEF s, p, t
<1>4. Successive(made.spans)
  BY <1>1 DEF SpansInv
<1> QED
  BY <1>2, <1>3, <1>4 DEF Successive, made

(* No secret that counts survives the gate, every span locates its           *)
(* placeholder, and a card number does not pass the checksum twice, in every *)
(* state.                                                                    *)
THEOREM RedactionAlwaysExact == Spec => []RedactionIsExact
<1>1. ASSUME PolicyInv, Gating
      PROVE  /\ out.item \in Lines \cup Others
             /\ out.made.verdict = "allow" =>
                   LET made == Redact(out.item, Requested)
                   IN out.made.text = made.text /\ out.made.spans = made.spans
  <2>1. out.item \in Lines \cup Others /\ out.made = Run(policy, out.item)
    BY <1>1 DEF PolicyInv, OutInv, Gating
  <2> DEFINE decision == Evaluate(policy, IngestCtx(out.item))
  <2>2. Requested = decision.kinds
    BY DEF Requested
  <2> HIDE DEF decision
  <2>3. out.made = IF decision.verb = "deny" THEN Dropped(decision.rule)
                   ELSE PassRedact(out.item, decision)
    BY <2>1 DEF Run, decision
  <2>4. Dropped(decision.rule).verdict # "allow"
    BY DEF Dropped
  <2>5. LET made == Redact(out.item, Requested)
        IN PassRedact(out.item, decision).text = made.text
           /\ PassRedact(out.item, decision).spans = made.spans
    BY <2>2 DEF PassRedact
  <2> QED
    BY <2>1, <2>3, <2>4, <2>5
<1>2. Counting = Counted(out.item, Requested)
  BY DEF Counting, Counted
<1>3. PolicyInv => SecretsAreGone
  <2> SUFFICES ASSUME PolicyInv, Gating, out.made.verdict = "allow"
               PROVE  LET body   == out.item.text
                          left   == Only(out.made.text, ToSet(body))
                          Cut(m) == {body[i] : i \in m.from + 1 .. m.to}
                          open   == ToSet(body) \ UNION {Cut(m) : m \in Counting}
                      IN /\ \A m \in Counting :
                               /\ body[m.from + 1] \notin ToSet(left)
                               /\ (\A o \in Counting : o.from < m.from => o.to <= m.from)
                                     => Cut(m) \cap ToSet(left) = {}
                         /\ Only(body, open) = Only(left, open)
    BY DEF SecretsAreGone
  <2>1. out.item \in Lines \cup Others /\ out.made.text = Redact(out.item, Requested).text
    BY <1>1
  <2> QED
    BY <1>2, <2>1, SecretsGo
<1>4. PolicyInv => SpansLocate
  <2> SUFFICES ASSUME PolicyInv, Gating, out.made.verdict = "allow" PROVE SpansLocate
    BY DEF SpansLocate
  <2>1. /\ out.item \in Lines \cup Others
        /\ out.made.text = Redact(out.item, Requested).text
        /\ out.made.spans = Redact(out.item, Requested).spans
    BY <1>1
  <2> QED
    BY <2>1, SpansSay DEF SpansLocate
<1>5. PolicyInv => LuhnCatchesSlips
  <2> SUFFICES ASSUME PolicyInv, Gating, NEW m \in out.item.matches, LuhnValid(m.digits),
                      NEW i \in DOMAIN m.digits, NEW d \in 0 .. 9,
                      LuhnValid([m.digits EXCEPT ![i] = d])
               PROVE  d = m.digits[i]
    BY DEF LuhnCatchesSlips
  <2>1. m.digits \in Seq(0 .. 9)
    BY <1>1, CapturesAssumption
  <2> QED
    BY <2>1, LuhnCatches
<1> QED
  BY <1>3, <1>4, <1>5, PolicyInvariance, PTL DEF RedactionIsExact

-----------------------------------------------------------------------------
(* What Extraction finds.                                                    *)

(* What step makes of a member depends on members of a lower rank only.      *)
LooksDown(step, D, X, r, N) ==
    /\ N \in Nat /\ r \in [D -> 0 .. N] /\ X # {} /\ step \in [D -> [[D -> X] -> X]]
    /\ \A d \in D : \A f, g \in [D -> X] :
           (\A e \in D : r[e] < r[d] => f[e] = g[e]) => step[d][f] = step[d][g]

(* A definition by recursion over a set whose members refer to members of a  *)
(* lower rank has a solution.                                                *)
LEMMA RecursionByRank ==
    ASSUME NEW D, NEW N, NEW r, NEW X, NEW step, LooksDown(step, D, X, r, N)
    PROVE  \E f \in [D -> X] : \A d \in D : f[d] = step[d][f]
<1>0. N \in Nat /\ r \in [D -> 0 .. N] /\ X # {} /\ step \in [D -> [[D -> X] -> X]]
  BY DEF LooksDown
<1> DEFINE Y == [D -> X]
           once == [f \in Y |-> [d \in D |-> step[d][f]]]
           again == [n \in 1 .. N + 2 |-> once]
<1>1. PICK x \in X : TRUE
  BY <1>0
<1> DEFINE base == [d \in D |-> x]
<1>2. base \in Y
  OBVIOUS
<1>3. once \in [Y -> Y]
  BY <1>0
<1>4. again \in [1 .. N + 2 -> [Y -> Y]] /\ N + 2 \in Nat
  BY <1>0, <1>3
<1> HIDE DEF again, base
<1>5. PICK u \in [0 .. N + 2 -> Y] : Iterates(u, N + 2, base, again)
  BY <1>2, <1>4, Recursion
<1> USE <1>0
<1>6. ASSUME NEW n \in 0 .. N + 1, NEW d \in D PROVE u[n + 1][d] = step[d][u[n]]
  <2>1. n + 1 \in 1 .. N + 2 /\ (n + 1) - 1 = n /\ n \in 0 .. N + 2
    OBVIOUS
  <2>2. u[n + 1] = once[u[n]]
    BY <1>5, <2>1 DEF Iterates, again
  <2>3. u[n] \in Y
    BY <2>1
  <2> QED
    BY <2>2, <2>3
<1> HIDE DEF once
<1> DEFINE S == {n \in 0 .. N + 1 : \A d \in D : r[d] < n => u[n + 1][d] = u[n][d]}
<1>7. 0 \in S
  OBVIOUS
<1>8. ASSUME NEW n \in 0 .. (N + 1) - 1, n \in S PROVE n + 1 \in S
  <2>1. n \in 0 .. N + 1 /\ n + 1 \in 0 .. N + 1 /\ n \in 0 .. N + 2 /\ n + 1 \in 0 .. N + 2
    OBVIOUS
  <2>2. u[n] \in Y /\ u[n + 1] \in Y
    BY <2>1
  <2>3. ASSUME NEW d \in D, r[d] < n + 1 PROVE u[(n + 1) + 1][d] = u[n + 1][d]
    <3>1. \A e \in D : r[e] < r[d] => u[n + 1][e] = u[n][e]
      BY <1>8, <2>3
    <3>2. step[d][u[n + 1]] = step[d][u[n]]
      BY <2>2, <3>1 DEF LooksDown
    <3> QED
      BY <1>6, <2>1, <3>2
  <2> QED
    BY <2>1, <2>3
<1>9. \A n \in 0 .. (N + 1) - 1 : n \in S => n + 1 \in S
  BY <1>8
<1> HIDE DEF S
<1>10. N + 1 \in S
  <2>1. N + 1 \in Nat /\ N + 1 \in 0 .. N + 1
    OBVIOUS
  <2>2. \A n \in 0 .. N + 1 : n \in S
    BY <1>7, <1>9, <2>1, CountUp
  <2> QED
    BY <2>1, <2>2
<1>11. \A d \in D : u[N + 1][d] = step[d][u[N + 1]]
  <2> SUFFICES ASSUME NEW d \in D PROVE u[N + 1][d] = step[d][u[N + 1]]
    OBVIOUS
  <2>1. r[d] < N + 1
    OBVIOUS
  <2>2. u[(N + 1) + 1][d] = u[N + 1][d]
    BY <1>10, <2>1 DEF S
  <2> QED
    BY <1>6, <2>2
<1>12. u[N + 1] \in [D -> X]
  OBVIOUS
<1> QED
  BY <1>11, <1>12

-----------------------------------------------------------------------------
(* Texts.                                                                    *)

(* A set of natural numbers has a least member.                              *)
LEMMA Least ==
    ASSUME NEW S \in SUBSET Nat, S # {}
    PROVE  Min(S) \in S /\ \A k \in S : Min(S) <= k
<1>1. PICK m \in S : \A k \in S : m <= k
  BY LeastNatural
<1> QED
  BY <1>1 DEF Min

(* Skip goes on over line ends, and no further.                              *)
LEMMA Skips ==
    ASSUME NEW W, NEW t \in Seq(W), NEW i \in Nat \ {0}
    PROVE  /\ Skip(t, i) \in 1 .. Len(t) + 1
           /\ i <= Len(t) + 1 => i <= Skip(t, i)
           /\ i > Len(t) => Skip(t, i) = Len(t) + 1
           /\ Skip(t, i) <= Len(t) => t[Skip(t, i)] # NL
           /\ \A j \in i .. Skip(t, i) - 1 : j <= Len(t) /\ t[j] = NL
<1> DEFINE S == {j \in i .. Len(t) + 1 : j = Len(t) + 1 \/ t[j] # NL} \cup {Len(t) + 1}
<1>1. S \in SUBSET Nat /\ S # {} /\ Len(t) \in Nat
  OBVIOUS
<1>2. Min(S) \in S /\ \A k \in S : Min(S) <= k
  BY <1>1, Least
<1>3. Skip(t, i) = Min(S)
  BY DEF Skip
<1> DEFINE m == Skip(t, i)
<1>4. m \in S /\ \A k \in S : m <= k
  BY <1>2, <1>3
<1> HIDE DEF m
<1>5. m \in 1 .. Len(t) + 1 /\ (i <= Len(t) + 1 => i <= m) /\ (i > Len(t) => m = Len(t) + 1)
  BY <1>1, <1>4
<1>6. m <= Len(t) => t[m] # NL
  BY <1>1, <1>4
<1>7. ASSUME NEW j \in i .. m - 1 PROVE j <= Len(t) /\ t[j] = NL
  <2>1. j <= Len(t) /\ j \in i .. Len(t) + 1 /\ j # Len(t) + 1
    BY <1>1, <1>5
  <2>2. j \notin S
    BY <1>4, <1>5, <2>1
  <2> QED
    BY <2>1, <2>2
<1> QED
  BY <1>5, <1>6, <1>7 DEF m

(* From a later place it goes no less far.                                   *)
LEMMA SkipsOn ==
    ASSUME NEW W, NEW t \in Seq(W), NEW i \in Nat \ {0}, NEW j \in Nat \ {0}, i <= j
    PROVE  Skip(t, i) <= Skip(t, j)
<1>1. /\ Skip(t, i) \in 1 .. Len(t) + 1
      /\ \A k \in i .. Skip(t, i) - 1 : k <= Len(t) /\ t[k] = NL
  BY Skips
<1>2. /\ Skip(t, j) \in 1 .. Len(t) + 1
      /\ j <= Len(t) + 1 => j <= Skip(t, j)
      /\ j > Len(t) => Skip(t, j) = Len(t) + 1
      /\ Skip(t, j) <= Len(t) => t[Skip(t, j)] # NL
  BY Skips
<1>3. Len(t) \in Nat
  OBVIOUS
<1> DEFINE a == Skip(t, i)
           b == Skip(t, j)
<1> SUFFICES ASSUME b < a PROVE FALSE
  BY <1>1, <1>2
<1>4. b <= Len(t) /\ b \in i .. a - 1
  BY <1>1, <1>2, <1>3
<1> QED
  BY <1>1, <1>2, <1>4

(* t is the text u without its last word.                                    *)
Begins(t, u) == Len(u) = Len(t) + 1 /\ \A i \in 1 .. Len(t) : u[i] = t[i]

(* In a longer text Skip goes as far, or beyond the shorter one.             *)
LEMMA SkipStands ==
    ASSUME NEW W, NEW t \in Seq(W), NEW u \in Seq(W), Begins(t, u), NEW i \in Nat \ {0},
           Skip(t, i) <= Len(t) \/ Skip(u, i) <= Len(t)
    PROVE  Skip(u, i) = Skip(t, i)
<1>1. /\ Skip(t, i) \in 1 .. Len(t) + 1
      /\ i <= Len(t) + 1 => i <= Skip(t, i)
      /\ i > Len(t) => Skip(t, i) = Len(t) + 1
      /\ Skip(t, i) <= Len(t) => t[Skip(t, i)] # NL
      /\ \A j \in i .. Skip(t, i) - 1 : j <= Len(t) /\ t[j] = NL
  BY Skips
<1>2. /\ Skip(u, i) \in 1 .. Len(u) + 1
      /\ i <= Len(u) + 1 => i <= Skip(u, i)
      /\ i > Len(u) => Skip(u, i) = Len(u) + 1
      /\ Skip(u, i) <= Len(u) => u[Skip(u, i)] # NL
      /\ \A j \in i .. Skip(u, i) - 1 : j <= Len(u) /\ u[j] = NL
  BY Skips
<1>3. Len(t) \in Nat /\ Len(u) = Len(t) + 1
  BY DEF Begins
<1> DEFINE a == Skip(t, i)
           b == Skip(u, i)
<1>4. CASE a < b
  <2>1. a \in i .. b - 1 /\ a \in 1 .. Len(t)
    BY <1>1, <1>2, <1>3, <1>4
  <2>2. u[a] = NL /\ u[a] = t[a] /\ t[a] # NL
    BY <1>1, <1>2, <2>1 DEF Begins
  <2> QED
    BY <2>2
<1>5. CASE b < a
  <2>1. b \in i .. a - 1 /\ b \in 1 .. Len(t)
    BY <1>1, <1>2, <1>3, <1>5
  <2>2. t[b] = NL /\ u[b] = t[b] /\ u[b] # NL
    BY <1>1, <1>2, <1>3, <2>1 DEF Begins
  <2> QED
    BY <2>2
<1> QED
  BY <1>1, <1>2, <1>4, <1>5

-----------------------------------------------------------------------------
(* How a match opens.                                                        *)

IsOpening(o) == Len(o) \in Nat \ {0} /\ DOMAIN o = 1 .. Len(o)

(* Each opening word stands at the next word behind the one before.          *)
LEMMA PlacesAre ==
    ASSUME NEW W, NEW t \in Seq(W), NEW o, IsOpening(o), NEW i \in Nat \ {0}
    PROVE  /\ PlacesOf(t, i, o) \in [1 .. Len(o) -> Nat \ {0}]
           /\ PlacesOf(t, i, o)[1] = i
           /\ \A k \in 2 .. Len(o) : PlacesOf(t, i, o)[k] = Skip(t, PlacesOf(t, i, o)[k - 1] + 1)
<1> DEFINE D == DOMAIN o
           N == Len(o)
           X == Nat \ {0}
           r == [k \in D |-> k]
           step == [k \in D |-> [f \in [D -> X] |-> IF k = 1 THEN i ELSE Skip(t, f[k - 1] + 1)]]
           Eq(f) == f = [k \in D |-> IF k = 1 THEN i ELSE Skip(t, f[k - 1] + 1)]
           at == CHOOSE f : Eq(f)
<1>1. D = 1 .. N /\ N \in Nat /\ N # 0
  BY DEF IsOpening
<1>2. PlacesOf(t, i, o) = at
  BY DEF PlacesOf
<1>3. r \in [D -> 0 .. N]
  BY <1>1
<1>4. \A n \in X : Skip(t, n) \in X
  BY Skips
<1>5. step \in [D -> [[D -> X] -> X]]
  <2> SUFFICES ASSUME NEW k \in D, NEW f \in [D -> X], k # 1 PROVE Skip(t, f[k - 1] + 1) \in X
    OBVIOUS
  <2>1. k - 1 \in D
    BY <1>1
  <2>2. f[k - 1] + 1 \in X
    BY <2>1
  <2> QED
    BY <1>4, <2>2
<1>6. ASSUME NEW k \in D, NEW f \in [D -> X], NEW g \in [D -> X],
             \A e \in D : r[e] < r[k] => f[e] = g[e]
      PROVE  step[k][f] = step[k][g]
  <2>1. CASE k = 1
    BY <2>1
  <2>2. CASE k # 1
    <3>1. k - 1 \in D /\ r[k - 1] < r[k]
      BY <1>1, <2>2
    <3>2. f[k - 1] = g[k - 1]
      BY <1>6, <3>1
    <3> QED
      BY <2>2, <3>2
  <2> QED
    BY <2>1, <2>2
<1>7. \E f \in [D -> X] : \A k \in D : f[k] = step[k][f]
  <2>1. X # {} /\ N \in Nat
    BY <1>1
  <2> HIDE DEF step, X, r, D, N
  <2>2. LooksDown(step, D, X, r, N)
    BY <1>3, <1>5, <1>6, <2>1 DEF LooksDown
  <2> QED
    BY ONLY <2>2, RecursionByRank
<1>8. PICK f \in [D -> X] : \A k \in D : f[k] = step[k][f]
  BY <1>7
<1>9. Eq(f)
  BY <1>8
<1>10. at = [k \in D |-> IF k = 1 THEN i ELSE Skip(t, at[k - 1] + 1)]
  <2>1. Eq(at)
    BY <1>9
  <2> QED
    BY <2>1
<1> HIDE DEF at
<1>11. at[1] = i
  BY <1>1, <1>10
<1>12. ASSUME NEW k \in 2 .. N PROVE at[k] = Skip(t, at[k - 1] + 1)
  <2>1. k \in D /\ k # 1
    BY <1>1
  <2> HIDE DEF D
  <2> QED
    BY <1>10, <2>1
<1>13. at \in [1 .. N -> X]
  <2>1. at = [k \in D |-> at[k]]
    BY <1>10
  <2> DEFINE S == {k \in 0 .. N - 1 : at[k + 1] \in X}
  <2>2. 0 \in S
    BY <1>1, <1>11
  <2>3. ASSUME NEW k \in 0 .. (N - 1) - 1, k \in S PROVE k + 1 \in S
    <3>1. k + 2 \in 2 .. N /\ (k + 2) - 1 = k + 1 /\ k + 1 \in 0 .. N - 1 /\ (k + 1) + 1 = k + 2
      BY <1>1
    <3>2. at[k + 2] = Skip(t, at[k + 1] + 1)
      BY <1>12, <3>1
    <3>3. at[k + 1] + 1 \in X
      BY <2>3
    <3> QED
      BY <1>4, <3>1, <3>2, <3>3
  <2>4. N - 1 \in Nat
    BY <1>1
  <2> HIDE DEF S
  <2>5. \A k \in 0 .. N - 1 : k \in S
    BY <2>2, <2>3, <2>4, CountUp
  <2>6. ASSUME NEW k \in 1 .. N PROVE at[k] \in X
    <3>1. k - 1 \in 0 .. N - 1 /\ (k - 1) + 1 = k
      OBVIOUS
    <3> QED
      BY <2>5, <3>1 DEF S
  <2> QED
    BY <1>1, <2>1, <2>6
<1> QED
  BY <1>2, <1>11, <1>12, <1>13

(* The opening words stand in their order.                                   *)
LEMMA PlacesGrow ==
    ASSUME NEW W, NEW t \in Seq(W), NEW o, IsOpening(o), NEW i \in Nat \ {0},
           \A k \in 1 .. Len(o) : PlacesOf(t, i, o)[k] <= Len(t)
    PROVE  \A k \in 1 .. Len(o) : i <= PlacesOf(t, i, o)[k]
<1> DEFINE at == PlacesOf(t, i, o)
           N == Len(o)
           S == {k \in 0 .. N - 1 : i <= at[k + 1]}
<1>1. /\ at \in [1 .. N -> Nat \ {0}] /\ at[1] = i
      /\ \A k \in 2 .. N : at[k] = Skip(t, at[k - 1] + 1)
  BY PlacesAre
<1> HIDE DEF at
<1>2. N \in Nat /\ N - 1 \in Nat
  BY DEF IsOpening
<1>3. 0 \in S
  BY <1>1, <1>2
<1>4. ASSUME NEW k \in 0 .. (N - 1) - 1, k \in S PROVE k + 1 \in S
  <2>1. /\ k + 2 \in 2 .. N /\ (k + 2) - 1 = k + 1 /\ k + 1 \in 0 .. N - 1 /\ (k + 1) + 1 = k + 2
        /\ k + 1 \in 1 .. N
    BY <1>2
  <2>2. at[k + 2] = Skip(t, at[k + 1] + 1) /\ at[k + 1] \in Nat \ {0} /\ i <= at[k + 1]
    BY <1>1, <1>4, <2>1
  <2>3. at[k + 1] + 1 \in Nat \ {0} /\ at[k + 1] + 1 <= Len(t) + 1
    BY <2>1, <2>2 DEF at
  <2> DEFINE m == at[k + 1] + 1
  <2> HIDE DEF m
  <2>4. m \in Nat \ {0} /\ m <= Len(t) + 1 /\ at[k + 2] = Skip(t, m) /\ at[k + 1] < m
    BY <2>2, <2>3 DEF m
  <2>5. m <= at[k + 2] /\ at[k + 2] \in Nat
    BY <2>4, Skips
  <2> QED
    BY <2>1, <2>2, <2>4, <2>5
<1>5. \A k \in 0 .. N - 2 : k \in S => k + 1 \in S
  BY <1>4
<1> HIDE DEF S
<1>6. \A k \in 0 .. N - 1 : k \in S
  <2>1. N - 2 = (N - 1) - 1
    BY <1>2
  <2> QED
    BY <1>2, <1>3, <1>5, <2>1, CountUp
<1>7. ASSUME NEW k \in 1 .. N PROVE i <= at[k]
  <2>1. k - 1 \in 0 .. N - 1 /\ (k - 1) + 1 = k
    BY <1>2
  <2> QED
    BY <1>6, <2>1 DEF S
<1> QED
  BY <1>7 DEF at

(* A match that begins no later has its opening words no later.              *)
LEMMA PlacesOrder ==
    ASSUME NEW W, NEW t \in Seq(W), NEW o, IsOpening(o), NEW q, IsOpening(q), Len(q) = Len(o),
           NEW i \in Nat \ {0}, NEW j \in Nat \ {0}, i <= j
    PROVE  \A k \in 1 .. Len(o) : PlacesOf(t, i, o)[k] <= PlacesOf(t, j, q)[k]
<1> DEFINE a == PlacesOf(t, i, o)
           b == PlacesOf(t, j, q)
           N == Len(o)
           S == {k \in 0 .. N - 1 : a[k + 1] <= b[k + 1]}
<1>1. /\ a \in [1 .. N -> Nat \ {0}] /\ a[1] = i
      /\ \A k \in 2 .. N : a[k] = Skip(t, a[k - 1] + 1)
  BY PlacesAre
<1>2. /\ b \in [1 .. N -> Nat \ {0}] /\ b[1] = j
      /\ \A k \in 2 .. N : b[k] = Skip(t, b[k - 1] + 1)
  <2>1. /\ b \in [1 .. Len(q) -> Nat \ {0}] /\ b[1] = j
        /\ \A k \in 2 .. Len(q) : b[k] = Skip(t, b[k - 1] + 1)
    BY PlacesAre
  <2> QED
    BY <2>1
<1> HIDE DEF a, b
<1>3. N \in Nat /\ N - 1 \in Nat
  BY DEF IsOpening
<1>4. 0 \in S
  BY <1>1, <1>2, <1>3
<1>5. ASSUME NEW k \in 0 .. (N - 1) - 1, k \in S PROVE k + 1 \in S
  <2>1. /\ k + 2 \in 2 .. N /\ (k + 2) - 1 = k + 1 /\ k + 1 \in 0 .. N - 1 /\ (k + 1) + 1 = k + 2
        /\ k + 1 \in 1 .. N
    BY <1>3
  <2> DEFINE m == a[k + 1] + 1
             n == b[k + 1] + 1
  <2>2. a[k + 2] = Skip(t, m) /\ b[k + 2] = Skip(t, n)
    BY <1>1, <1>2, <2>1
  <2>3. m \in Nat \ {0} /\ n \in Nat \ {0} /\ m <= n
    <3>1. a[k + 1] \in Nat \ {0} /\ b[k + 1] \in Nat \ {0} /\ a[k + 1] <= b[k + 1]
      BY <1>1, <1>2, <1>5, <2>1
    <3> QED
      BY <3>1
  <2> HIDE DEF m, n
  <2>4. Skip(t, m) <= Skip(t, n)
    BY <2>3, SkipsOn
  <2> QED
    BY <2>1, <2>2, <2>4
<1>6. \A k \in 0 .. (N - 1) - 1 : k \in S => k + 1 \in S
  BY <1>5
<1> HIDE DEF S
<1>7. \A k \in 0 .. N - 1 : k \in S
  BY <1>3, <1>4, <1>6, CountUp
<1>8. ASSUME NEW k \in 1 .. N PROVE a[k] <= b[k]
  <2>1. k - 1 \in 0 .. N - 1 /\ (k - 1) + 1 = k
    BY <1>3
  <2> QED
    BY <1>7, <2>1 DEF S
<1> QED
  BY <1>8 DEF a, b

(* Opening words that stand in the shorter text stand where they stood.      *)
LEMMA PlacesStand ==
    ASSUME NEW W, NEW t \in Seq(W), NEW u \in Seq(W), Begins(t, u), NEW o, IsOpening(o),
           NEW i \in Nat \ {0},
           \/ \A k \in 1 .. Len(o) : PlacesOf(t, i, o)[k] <= Len(t)
           \/ \A k \in 1 .. Len(o) : PlacesOf(u, i, o)[k] <= Len(t)
    PROVE  \A k \in 1 .. Len(o) : PlacesOf(u, i, o)[k] = PlacesOf(t, i, o)[k]
<1> DEFINE a == PlacesOf(t, i, o)
           b == PlacesOf(u, i, o)
           N == Len(o)
           S == {k \in 0 .. N - 1 : b[k + 1] = a[k + 1]}
<1>1. /\ a \in [1 .. N -> Nat \ {0}] /\ a[1] = i
      /\ \A k \in 2 .. N : a[k] = Skip(t, a[k - 1] + 1)
  BY PlacesAre
<1>2. /\ b \in [1 .. N -> Nat \ {0}] /\ b[1] = i
      /\ \A k \in 2 .. N : b[k] = Skip(u, b[k - 1] + 1)
  BY PlacesAre
<1>3. (\A k \in 1 .. N : a[k] <= Len(t)) \/ (\A k \in 1 .. N : b[k] <= Len(t))
  OBVIOUS
<1> HIDE DEF a, b
<1>4. N \in Nat /\ N - 1 \in Nat
  BY DEF IsOpening
<1>5. 0 \in S
  BY <1>1, <1>2, <1>4
<1>6. ASSUME NEW k \in 0 .. (N - 1) - 1, k \in S PROVE k + 1 \in S
  <2>1. /\ k + 2 \in 2 .. N /\ (k + 2) - 1 = k + 1 /\ k + 1 \in 0 .. N - 1 /\ (k + 1) + 1 = k + 2
        /\ k + 1 \in 1 .. N /\ k + 2 \in 1 .. N
    BY <1>4
  <2> DEFINE m == a[k + 1] + 1
  <2>2. a[k + 2] = Skip(t, m) /\ b[k + 2] = Skip(u, m)
    BY <1>1, <1>2, <1>6, <2>1
  <2>3. m \in Nat \ {0}
    BY <1>1, <2>1, SMTT(20)
  <2> HIDE DEF m
  <2>4. Skip(t, m) <= Len(t) \/ Skip(u, m) <= Len(t)
    BY <1>3, <2>1, <2>2
  <2>5. Skip(u, m) = Skip(t, m)
    BY <2>3, <2>4, SkipStands
  <2> QED
    BY <2>1, <2>2, <2>5
<1>7. \A k \in 0 .. (N - 1) - 1 : k \in S => k + 1 \in S
  BY <1>6
<1> HIDE DEF S
<1>8. \A k \in 0 .. N - 1 : k \in S
  BY <1>4, <1>5, <1>7, CountUp
<1>9. ASSUME NEW k \in 1 .. N PROVE b[k] = a[k]
  <2>1. k - 1 \in 0 .. N - 1 /\ (k - 1) + 1 = k
    BY <1>4
  <2> QED
    BY <1>8, <2>1 DEF S
<1> QED
  BY <1>9 DEF a, b

(* The opening words o stand in t from i on.                                 *)
Opened(t, i, o) ==
    LET at == PlacesOf(t, i, o)  after == at[Len(o)] + 1
    IN /\ \A k \in DOMAIN o : at[k] <= Len(t) /\ t[at[k]] \in o[k]
       /\ after <= Len(t) /\ t[after] = "." => o[Len(o)] \in Colons

(* Where a body begins, and that it begins behind the opening words.         *)
LEMMA BodyOpens ==
    ASSUME NEW W, NEW t \in Seq(W), NEW o, IsOpening(o), NEW i \in Nat \ {0}
    PROVE  /\ BodyFrom(t, i, o) # Absent <=> Opened(t, i, o)
           /\ Opened(t, i, o) =>
                  /\ PlacesOf(t, i, o)[Len(o)] \in i .. Len(t)
                  /\ BodyFrom(t, i, o) = Skip(t, PlacesOf(t, i, o)[Len(o)] + 1)
                  /\ BodyFrom(t, i, o) \in PlacesOf(t, i, o)[Len(o)] + 1 .. Len(t) + 1
<1> DEFINE at == PlacesOf(t, i, o)
           after == at[Len(o)] + 1
<1>1. BodyFrom(t, i, o) = IF Opened(t, i, o) THEN Skip(t, after) ELSE Absent
  BY DEF BodyFrom, Opened
<1>2. Len(o) \in 1 .. Len(o) /\ DOMAIN o = 1 .. Len(o)
  BY DEF IsOpening
<1>3. at \in [1 .. Len(o) -> Nat \ {0}]
  BY PlacesAre
<1>4. at[Len(o)] \in Nat \ {0}
  BY <1>2, <1>3
<1>5. ASSUME Opened(t, i, o) PROVE at[Len(o)] \in i .. Len(t)
  <2>1. \A k \in 1 .. Len(o) : at[k] <= Len(t)
    BY <1>2, <1>5 DEF Opened
  <2>2. i <= at[Len(o)]
    BY <1>2, <2>1, PlacesGrow
  <2> QED
    BY <1>2, <1>4, <2>1, <2>2
<1> HIDE DEF at
<1>6. after \in Nat \ {0}
  BY <1>4
<1> HIDE DEF after
<1>7. /\ Skip(t, after) \in 1 .. Len(t) + 1
      /\ after <= Len(t) + 1 => after <= Skip(t, after)
  BY <1>6, Skips
<1>8. Skip(t, after) # Absent
  <2>1. Skip(t, after) \in Int
    BY <1>7
  <2> QED
    BY <2>1, WordsAssumption
<1>9. Opened(t, i, o) => after <= Len(t) + 1
  BY <1>4, <1>5 DEF after
<1>10. Opened(t, i, o) => Skip(t, after) \in after .. Len(t) + 1
  BY <1>6, <1>7, <1>9
<1> QED
  BY <1>1, <1>5, <1>8, <1>10 DEF at, after

(* Of two ways of as many opening words, the one that begins first has its   *)
(* body first.                                                               *)
LEMMA BodyOrder ==
    ASSUME NEW W, NEW t \in Seq(W), NEW o, IsOpening(o), NEW q, IsOpening(q), Len(q) = Len(o),
           NEW i \in Nat \ {0}, NEW j \in Nat \ {0}, i <= j,
           BodyFrom(t, i, o) # Absent, BodyFrom(t, j, q) # Absent
    PROVE  BodyFrom(t, i, o) <= BodyFrom(t, j, q)
<1> DEFINE a == PlacesOf(t, i, o)[Len(o)]
           b == PlacesOf(t, j, q)[Len(q)]
<1>1. a \in i .. Len(t) /\ BodyFrom(t, i, o) = Skip(t, a + 1)
  BY BodyOpens
<1>2. b \in j .. Len(t) /\ BodyFrom(t, j, q) = Skip(t, b + 1)
  BY BodyOpens
<1>3. a <= b
  <2>1. Len(o) \in 1 .. Len(o)
    BY DEF IsOpening
  <2> QED
    BY <2>1, PlacesOrder
<1> HIDE DEF a, b
<1>4. a + 1 \in Nat \ {0} /\ b + 1 \in Nat \ {0} /\ a + 1 <= b + 1
  BY <1>1, <1>2, <1>3
<1> QED
  BY <1>1, <1>2, <1>4, SkipsOn

(* Between the beginning of a match and its body there are opening words and *)
(* line ends.                                                                *)
LEMMA OpensOnly ==
    ASSUME NEW W, NEW t \in Seq(W), NEW o, IsOpening(o), NEW i \in Nat \ {0}, Opened(t, i, o),
           NEW j \in i .. BodyFrom(t, i, o) - 1, t[j] # NL
    PROVE  \E k \in 1 .. Len(o) : t[j] \in o[k]
<1> DEFINE a == PlacesOf(t, i, o)
           N == Len(o)
           Told(k) == \A l \in i .. a[k + 1] : t[l] # NL => \E h \in 1 .. N : a[h] = l
           S == {k \in 0 .. N - 1 : Told(k)}
<1>1. /\ a \in [1 .. N -> Nat \ {0}] /\ a[1] = i
      /\ \A k \in 2 .. N : a[k] = Skip(t, a[k - 1] + 1)
  BY PlacesAre
<1>2. /\ \A k \in 1 .. N : a[k] <= Len(t) /\ t[a[k]] \in o[k]
      /\ a[N] \in i .. Len(t) /\ BodyFrom(t, i, o) = Skip(t, a[N] + 1)
  <2>1. N \in 1 .. N /\ DOMAIN o = 1 .. N
    BY DEF IsOpening
  <2> QED
    BY <2>1, BodyOpens DEF Opened
<1> HIDE DEF a
<1>3. N \in Nat /\ N - 1 \in Nat /\ N \in 1 .. N
  BY DEF IsOpening
<1>4. 0 \in S
  <2>1. 0 \in 0 .. N - 1 /\ 0 + 1 = 1 /\ 1 \in 1 .. N
    BY <1>3
  <2>2. Told(0)
    BY <1>1, <2>1
  <2> QED
    BY <2>1, <2>2
<1>5. ASSUME NEW k \in 0 .. (N - 1) - 1, k \in S PROVE k + 1 \in S
  <2>1. /\ k + 2 \in 2 .. N /\ (k + 2) - 1 = k + 1 /\ k + 1 \in 0 .. N - 1 /\ (k + 1) + 1 = k + 2
        /\ k + 1 \in 1 .. N /\ k + 2 \in 1 .. N
    BY <1>3
  <2> DEFINE m == a[k + 1] + 1
  <2>2. /\ a[k + 2] = Skip(t, m) /\ m \in Nat \ {0}
        /\ a[k + 1] \in Nat /\ a[k + 2] \in Nat
    BY <1>1, <2>1
  <2>3. \A l \in m .. a[k + 2] - 1 : t[l] = NL
    <3> HIDE DEF m
    <3> QED
      BY <2>2, Skips
  <2>4. ASSUME NEW l \in i .. a[k + 2], t[l] # NL PROVE \E h \in 1 .. N : a[h] = l
    <3>1. CASE l <= a[k + 1]
      <4>1. l \in i .. a[k + 1]
        BY <2>2, <3>1
      <4> QED
        BY <1>5, <2>4, <4>1
    <3>2. CASE l = a[k + 2]
      BY <2>1, <3>2
    <3>3. CASE l > a[k + 1] /\ l # a[k + 2]
      <4>1. l \in m .. a[k + 2] - 1
        BY <2>2, <3>3
      <4> QED
        BY <2>3, <2>4, <4>1
    <3> QED
      BY <2>2, <3>1, <3>2, <3>3
  <2>5. Told(k + 1)
    BY <2>1, <2>4
  <2> QED
    BY <2>1, <2>5
<1>6. \A k \in 0 .. (N - 1) - 1 : k \in S => k + 1 \in S
  BY <1>5
<1>7. N - 1 \in S
  <2> HIDE DEF S
  <2>1. \A k \in 0 .. N - 1 : k \in S
    BY <1>3, <1>4, <1>6, CountUp
  <2> QED
    BY <1>3, <2>1
<1>8. j <= a[N]
  <2> DEFINE m == a[N] + 1
  <2>1. m \in Nat \ {0} /\ a[N] \in Nat /\ j \in Nat
    BY <1>1, <1>2, <1>3
  <2>2. \A l \in m .. Skip(t, m) - 1 : t[l] = NL
    <3> HIDE DEF m
    <3> QED
      BY <2>1, Skips
  <2>3. j \notin m .. Skip(t, m) - 1
    BY <2>2
  <2>4. j <= Skip(t, m) - 1 /\ Skip(t, m) \in Nat
    <3>1. Skip(t, m) \in 1 .. Len(t) + 1
      <4> HIDE DEF m
      <4> QED
        BY <2>1, Skips
    <3> QED
      BY <1>2, <3>1
  <2> QED
    BY <2>1, <2>3, <2>4
<1>9. PICK h \in 1 .. N : a[h] = j
  <2>1. (N - 1) + 1 = N /\ Told(N - 1)
    BY <1>3, <1>7
  <2>2. j \in i .. a[N]
    BY <1>1, <1>3, <1>8
  <2> QED
    BY <2>1, <2>2
<1> QED
  BY <1>2, <1>9

(* A body that begins in the shorter text begins where it began.             *)
LEMMA BodyStands ==
    ASSUME NEW W, NEW t \in Seq(W), NEW u \in Seq(W), Begins(t, u), NEW o, IsOpening(o),
           NEW i \in Nat \ {0},
           \/ BodyFrom(t, i, o) # Absent /\ BodyFrom(t, i, o) <= Len(t)
           \/ BodyFrom(u, i, o) # Absent /\ BodyFrom(u, i, o) <= Len(t)
    PROVE  BodyFrom(u, i, o) = BodyFrom(t, i, o)
<1> DEFINE a == PlacesOf(t, i, o)
           b == PlacesOf(u, i, o)
           N == Len(o)
<1>0. N \in 1 .. N /\ DOMAIN o = 1 .. N /\ Len(t) \in Nat /\ Len(u) = Len(t) + 1
  BY DEF IsOpening, Begins
<1>1. a \in [1 .. N -> Nat \ {0}] /\ b \in [1 .. N -> Nat \ {0}]
  BY PlacesAre
<1>2. /\ BodyFrom(t, i, o) # Absent <=> Opened(t, i, o)
      /\ Opened(t, i, o) =>
             /\ a[N] \in i .. Len(t)
             /\ BodyFrom(t, i, o) = Skip(t, a[N] + 1)
             /\ BodyFrom(t, i, o) \in a[N] + 1 .. Len(t) + 1
  BY BodyOpens
<1>3. /\ BodyFrom(u, i, o) # Absent <=> Opened(u, i, o)
      /\ Opened(u, i, o) =>
             /\ b[N] \in i .. Len(u)
             /\ BodyFrom(u, i, o) = Skip(u, b[N] + 1)
             /\ BodyFrom(u, i, o) \in b[N] + 1 .. Len(u) + 1
  BY BodyOpens
<1>4. Opened(t, i, o) => \A k \in 1 .. N : a[k] <= Len(t)
  BY <1>0 DEF Opened
<1>5. Opened(u, i, o) /\ BodyFrom(u, i, o) <= Len(t) => \A k \in 1 .. N : b[k] <= Len(t)
  <2> SUFFICES ASSUME Opened(u, i, o), BodyFrom(u, i, o) <= Len(t), NEW k \in 1 .. N
               PROVE  b[k] <= Len(t)
    OBVIOUS
  <2>1. b[N] < Len(t)
    BY <1>0, <1>3
  <2>2. b[k] <= b[N]
    <3>1. \A l \in 1 .. N : b[l] <= Len(u)
      BY <1>0 DEF Opened
    <3> DEFINE S == {l \in 0 .. N - 1 : l + 1 >= k => b[k] <= b[l + 1]}
    <3>2. 0 \in S
      BY <1>0, <1>1
    <3>3. ASSUME NEW l \in 0 .. (N - 1) - 1, l \in S PROVE l + 1 \in S
      <4>1. CASE l + 2 <= k
        BY <1>0, <1>1, <4>1
      <4>2. CASE l + 1 >= k
        <5>1. l + 2 \in 2 .. N /\ (l + 2) - 1 = l + 1 /\ l + 1 \in 1 .. N
          BY <1>0
        <5>2. b[l + 2] = Skip(u, b[l + 1] + 1)
          BY <5>1, PlacesAre
        <5> DEFINE m == b[l + 1] + 1
        <5>3. m \in Nat \ {0} /\ m <= Len(u) + 1 /\ b[k] < m
          <6>1. b[l + 1] \in Nat \ {0} /\ b[l + 1] <= Len(u)
            BY <1>1, <3>1, <5>1
          <6>2. b[k] <= b[l + 1] /\ b[k] \in Nat
            BY <1>1, <3>3, <4>2
          <6>3. Len(u) \in Nat
            OBVIOUS
          <6> HIDE DEF b
          <6> QED
            BY <6>1, <6>2, <6>3
        <5>4. b[l + 2] \in Nat /\ b[l + 2] = Skip(u, m)
          BY <1>1, <5>1, <5>2, SMTT(20)
        <5> HIDE DEF m
        <5>5. m <= Skip(u, m)
          BY <5>3, Skips
        <5> QED
          BY <1>1, <5>1, <5>3, <5>4, <5>5
      <4> QED
        BY <1>0, <4>1, <4>2
    <3>4. \A l \in 0 .. (N - 1) - 1 : l \in S => l + 1 \in S
      BY <3>3
    <3>5. N - 1 \in Nat
      BY <1>0
    <3> HIDE DEF S
    <3>6. N - 1 \in S
      <4>1. \A l \in 0 .. N - 1 : l \in S
        BY <3>2, <3>4, <3>5, CountUp
      <4> QED
        BY <3>5, <4>1
    <3> QED
      BY <1>0, <3>6 DEF S
  <2>3. b[k] \in Nat /\ b[N] \in Nat
    BY <1>0, <1>1
  <2> HIDE DEF b
  <2> QED
    BY <1>0, <2>1, <2>2, <2>3
<1>6. \A k \in 1 .. N : b[k] = a[k]
  BY <1>2, <1>3, <1>4, <1>5, PlacesStand
<1>7. \A k \in 1 .. N : a[k] <= Len(t)
  BY <1>2, <1>3, <1>4, <1>5, <1>6
<1>8. \A k \in 1 .. N : u[a[k]] = t[a[k]]
  BY <1>1, <1>7 DEF Begins
<1> DEFINE m == a[N] + 1
<1>9. m \in Nat \ {0} /\ b[N] + 1 = m
  BY <1>0, <1>1, <1>6
<1>10. Opened(t, i, o) => BodyFrom(t, i, o) = Skip(t, m) /\ m <= BodyFrom(t, i, o)
  BY <1>2
<1>11. Opened(u, i, o) => BodyFrom(u, i, o) = Skip(u, m) /\ m <= BodyFrom(u, i, o)
  BY <1>3, <1>9
<1>12. Opened(t, i, o) <=> /\ \A k \in 1 .. N : t[a[k]] \in o[k]
                           /\ m <= Len(t) /\ t[m] = "." => o[N] \in Colons
  BY <1>0, <1>7 DEF Opened
<1>13. Opened(u, i, o) <=> /\ \A k \in 1 .. N : t[a[k]] \in o[k]
                           /\ m <= Len(u) /\ u[m] = "." => o[N] \in Colons
  <2>1. \A k \in 1 .. N : b[k] <= Len(u) /\ u[b[k]] = t[a[k]]
    BY <1>0, <1>1, <1>6, <1>7, <1>8
  <2>2. b[N] + 1 = m
    BY <1>9
  <2> HIDE DEF a, b, m
  <2> QED
    BY <1>0, <2>1, <2>2 DEF Opened, b
<1> HIDE DEF a, b, m
<1>14. Opened(t, i, o) \/ Opened(u, i, o)
  BY <1>2, <1>3
<1>15. Skip(t, m) <= Len(t) \/ Skip(u, m) <= Len(t)
  BY <1>2, <1>3, <1>10, <1>11
<1>16. Skip(u, m) = Skip(t, m)
  BY <1>9, <1>15, SkipStands
<1>17. m <= Len(t) /\ u[m] = t[m]
  <2>1. m <= Len(t)
    BY <1>0, <1>2, <1>3, <1>9, <1>10, <1>11, <1>15, <1>16
  <2> QED
    BY <1>9, <2>1 DEF Begins
<1>18. Opened(t, i, o) <=> Opened(u, i, o)
  <2> DEFINE words == \A k \in 1 .. N : t[a[k]] \in o[k]
  <2>1. m <= Len(t) /\ m <= Len(u) /\ u[m] = t[m]
    BY <1>0, <1>9, <1>17
  <2>2. Opened(t, i, o) <=> words /\ (t[m] = "." => o[N] \in Colons)
    BY <1>12, <2>1
  <2>3. Opened(u, i, o) <=> words /\ (t[m] = "." => o[N] \in Colons)
    BY <1>13, <2>1
  <2> QED
    BY <2>2, <2>3
<1> QED
  BY <1>10, <1>11, <1>14, <1>16, <1>18

-----------------------------------------------------------------------------
(* How a match closes.                                                       *)

Closes == {"by", "stop"}

(* What closes a body: a stop or a line end at once, or "by" and a day.      *)
LEMMA CloseIs ==
    ASSUME NEW W, NEW t \in Seq(W), NEW e \in 1 .. Len(t), NEW close \in Closes,
           CloseEnd(t, e, close) # Absent
    PROVE  /\ CloseEnd(t, e, close) \in e .. Len(t)
           /\ close = "stop" => CloseEnd(t, e, close) = e /\ t[e] \in {".", NL}
           /\ close = "by" => /\ CloseEnd(t, e, close) = Skip(t, Skip(t, e) + 1)
                              /\ Skip(t, e) \in e .. Len(t) /\ t[Skip(t, e)] = "by"
                              /\ t[CloseEnd(t, e, close)] \in DOMAIN Day
<1> DEFINE by == Skip(t, e)
           day == Skip(t, by + 1)
<1>1. by \in 1 .. Len(t) + 1 /\ e <= by /\ (by > Len(t) => by = Len(t) + 1)
  BY Skips
<1>2. CloseEnd(t, e, close) = IF close = "stop" THEN (IF t[e] \in {".", NL} THEN e ELSE Absent)
                              ELSE IF day <= Len(t) /\ t[by] = "by" /\ t[day] \in DOMAIN Day
                                   THEN day ELSE Absent
  BY DEF CloseEnd
<1> HIDE DEF by
<1>3. CASE close = "stop"
  BY <1>2, <1>3
<1>4. CASE close = "by"
  <2>1. by + 1 \in Nat \ {0} /\ Len(t) \in Nat
    BY <1>1
  <2>2. /\ day \in 1 .. Len(t) + 1
        /\ by + 1 <= Len(t) + 1 => by + 1 <= day
        /\ by + 1 > Len(t) => day = Len(t) + 1
    BY <2>1, Skips
  <2>3. CloseEnd(t, e, close) = day /\ day <= Len(t) /\ t[by] = "by" /\ t[day] \in DOMAIN Day
    BY <1>2, <1>4
  <2> HIDE DEF day
  <2>4. by \in e .. Len(t) /\ day \in e .. Len(t)
    BY <1>1, <2>1, <2>2, <2>3
  <2> QED
    BY <1>4, <2>3, <2>4 DEF by, day
<1> QED
  BY <1>3, <1>4 DEF Closes

(* A body that ends no later is closed no later.                             *)
LEMMA CloseOrder ==
    ASSUME NEW W, NEW t \in Seq(W), NEW close \in Closes,
           NEW e \in 1 .. Len(t), NEW f \in 1 .. Len(t), e <= f,
           CloseEnd(t, e, close) # Absent, CloseEnd(t, f, close) # Absent
    PROVE  CloseEnd(t, e, close) <= CloseEnd(t, f, close)
<1>1. CASE close = "stop"
  BY <1>1, CloseIs
<1>2. CASE close = "by"
  <2>1. /\ CloseEnd(t, e, close) = Skip(t, Skip(t, e) + 1)
        /\ Skip(t, e) \in e .. Len(t)
    BY <1>2, CloseIs
  <2>2. /\ CloseEnd(t, f, close) = Skip(t, Skip(t, f) + 1)
        /\ Skip(t, f) \in f .. Len(t)
    BY <1>2, CloseIs
  <2> DEFINE m == Skip(t, e) + 1
             n == Skip(t, f) + 1
  <2>3. Skip(t, e) <= Skip(t, f)
    BY SkipsOn
  <2>4. m \in Nat \ {0} /\ n \in Nat \ {0} /\ m <= n
    BY <2>1, <2>2, <2>3
  <2>5. CloseEnd(t, e, close) = Skip(t, m) /\ CloseEnd(t, f, close) = Skip(t, n)
    BY <2>1, <2>2
  <2> HIDE DEF m, n
  <2>6. Skip(t, m) <= Skip(t, n)
    BY <2>4, SkipsOn
  <2> QED
    BY <2>5, <2>6
<1> QED
  BY <1>1, <1>2 DEF Closes

(* What closes a body in the shorter text closes it.                         *)
LEMMA CloseStands ==
    ASSUME NEW W, NEW t \in Seq(W), NEW u \in Seq(W), Begins(t, u), NEW close \in Closes,
           NEW e \in 1 .. Len(t),
           \/ CloseEnd(t, e, close) # Absent
           \/ CloseEnd(u, e, close) # Absent /\ CloseEnd(u, e, close) <= Len(t)
    PROVE  CloseEnd(u, e, close) = CloseEnd(t, e, close)
<1>0. Len(t) \in Nat /\ Len(u) = Len(t) + 1 /\ e \in 1 .. Len(u) /\ u[e] = t[e]
  BY DEF Begins
<1>1. CASE close = "stop"
  BY <1>0, <1>1 DEF CloseEnd
<1>2. CASE close = "by"
  <2>1. Skip(t, e) <= Len(t) \/ Skip(u, e) <= Len(t)
    <3>1. CASE CloseEnd(t, e, close) # Absent
      <4>1. Skip(t, e) \in e .. Len(t)
        BY <1>2, <3>1, CloseIs
      <4> QED
        BY <4>1
    <3>2. CASE CloseEnd(u, e, close) # Absent /\ CloseEnd(u, e, close) <= Len(t)
      <4>1. Skip(u, e) \in e .. Len(u) /\ CloseEnd(u, e, close) = Skip(u, Skip(u, e) + 1)
        BY <1>0, <1>2, <3>2, CloseIs
      <4> DEFINE n == Skip(u, e) + 1
      <4>2. n \in Nat \ {0} /\ n <= Len(u) + 1 /\ CloseEnd(u, e, close) = Skip(u, n)
        BY <4>1
      <4> HIDE DEF n
      <4>3. n <= Skip(u, n) /\ Skip(u, n) \in Nat
        BY <4>2, Skips
      <4>4. n <= Len(t)
        BY <1>0, <3>2, <4>2, <4>3
      <4> QED
        BY <1>0, <4>1, <4>4 DEF n
    <3> QED
      BY <3>1, <3>2
  <2>2. Skip(u, e) = Skip(t, e)
    BY <2>1, SkipStands
  <2>3. Skip(t, e) \in e .. Len(t)
    <3>1. e \in Nat \ {0}
      OBVIOUS
    <3>2. Skip(t, e) \in 1 .. Len(t) + 1 /\ (e <= Len(t) + 1 => e <= Skip(t, e))
      BY ONLY t \in Seq(W), <3>1, Skips
    <3> QED
      BY <1>0, <2>1, <2>2, <3>2
  <2> DEFINE m == Skip(t, e)
             n == m + 1
  <2>4. m \in 1 .. Len(t) /\ u[m] = t[m] /\ n \in Nat \ {0}
    BY <2>3 DEF Begins
  <2>5. /\ CloseEnd(t, e, close) = IF Skip(t, n) <= Len(t) /\ t[m] = "by" /\ t[Skip(t, n)] \in DOMAIN Day
                                   THEN Skip(t, n) ELSE Absent
        /\ CloseEnd(u, e, close) = IF Skip(u, n) <= Len(u) /\ u[m] = "by" /\ u[Skip(u, n)] \in DOMAIN Day
                                   THEN Skip(u, n) ELSE Absent
    BY <1>2, <2>2 DEF CloseEnd
  <2> HIDE DEF m, n
  <2>6. Skip(t, n) <= Len(t) \/ Skip(u, n) <= Len(t)
    BY <2>5
  <2>7. Skip(u, n) = Skip(t, n)
    BY <2>4, <2>6, SkipStands
  <2> DEFINE d == Skip(t, n)
  <2>8. d \in 1 .. Len(t)
    <3>1. Skip(t, n) \in 1 .. Len(t) + 1
      BY <2>4, Skips
    <3> QED
      BY <1>0, <2>6, <2>7, <3>1
  <2>9. u[d] = t[d] /\ d <= Len(u)
    BY <1>0, <2>8 DEF Begins
  <2> HIDE DEF d
  <2> QED
    BY <2>4, <2>5, <2>7, <2>8, <2>9 DEF d
<1> QED
  BY <1>1, <1>2 DEF Closes

(* Where a body may end.                                                     *)
LEMMA EndsAre ==
    ASSUME NEW W, NEW t \in Seq(W), NEW from \in Nat \ {0}, NEW close \in Closes, NEW e
    PROVE  e \in Ends(t, from, close) <=>
               /\ e \in from + 1 .. Len(t) /\ \A k \in from .. e - 1 : t[k] # NL
               /\ CloseEnd(t, e, close) # Absent
<1> SUFFICES ASSUME e \in from + 1 .. Len(t)
             PROVE  NL \in ToSet(SubSeq(t, from, e - 1)) <=> \E k \in from .. e - 1 : t[k] = NL
  BY DEF Ends
<1> DEFINE s == SubSeq(t, from, e - 1)
<1>1. Len(s) = e - from /\ DOMAIN s = 1 .. e - from /\ \A k \in 1 .. e - from : s[k] = t[from + k - 1]
  OBVIOUS
<1> HIDE DEF s
<1>2. ASSUME NL \in ToSet(s) PROVE \E k \in from .. e - 1 : t[k] = NL
  <2>1. PICK k \in 1 .. e - from : s[k] = NL
    BY <1>1, <1>2 DEF ToSet
  <2>2. from + k - 1 \in from .. e - 1
    OBVIOUS
  <2> QED
    BY <1>1, <2>1, <2>2
<1>3. ASSUME NEW k \in from .. e - 1, t[k] = NL PROVE NL \in ToSet(s)
  <2>1. k - from + 1 \in 1 .. e - from /\ from + (k - from + 1) - 1 = k
    OBVIOUS
  <2>2. s[k - from + 1] = NL
    BY <1>1, <1>3, <2>1
  <2> QED
    BY <1>1, <2>1, <2>2 DEF ToSet
<1> QED
  BY <1>2, <1>3 DEF s

-----------------------------------------------------------------------------
(* Matches.                                                                  *)

IsPattern(p) ==
    /\ p.close \in Closes
    /\ \E n \in Nat : DOMAIN p.ways = 1 .. n
    /\ \A w \in DOMAIN p.ways : IsOpening(p.ways[w].opens)

Match == [start : Nat, way : Nat, from : Nat, to : Nat, last : Nat]

IsMatch(t, i, p, m) ==
    /\ m.start = i
    /\ m.way \in Matching(t, i, p) /\ \A w \in Matching(t, i, p) : m.way <= w
    /\ m.from = BodyFrom(t, i, p.ways[m.way].opens)
    /\ m.to \in Ends(t, m.from, p.close) /\ \A e \in Ends(t, m.from, p.close) : m.to <= e
    /\ m.last = CloseEnd(t, m.to, p.close)
    /\ i < m.from /\ m.from < m.to /\ m.to <= m.last /\ m.last <= Len(t)

(* A way that matches is one of the pattern, and its body begins behind i.   *)
LEMMA MatchingIs ==
    ASSUME NEW W, NEW t \in Seq(W), NEW p, IsPattern(p), NEW i \in Nat \ {0},
           NEW w \in Matching(t, i, p)
    PROVE  /\ w \in DOMAIN p.ways /\ w \in Nat /\ IsOpening(p.ways[w].opens)
           /\ Opened(t, i, p.ways[w].opens)
           /\ BodyFrom(t, i, p.ways[w].opens) \in i + 1 .. Len(t) + 1
           /\ BodyFrom(t, i, p.ways[w].opens) # Absent
           /\ Ends(t, BodyFrom(t, i, p.ways[w].opens), p.close) # {}
<1>1. /\ w \in DOMAIN p.ways /\ BodyFrom(t, i, p.ways[w].opens) # Absent
      /\ Ends(t, BodyFrom(t, i, p.ways[w].opens), p.close) # {}
  BY DEF Matching
<1>2. w \in Nat /\ IsOpening(p.ways[w].opens)
  BY <1>1 DEF IsPattern
<1> DEFINE o == p.ways[w].opens
           a == PlacesOf(t, i, o)[Len(o)]
<1> HIDE DEF o
<1>3. Opened(t, i, o) /\ a \in i .. Len(t) /\ BodyFrom(t, i, o) \in a + 1 .. Len(t) + 1
  BY <1>1, <1>2, BodyOpens DEF o
<1> HIDE DEF a
<1>4. BodyFrom(t, i, o) \in i + 1 .. Len(t) + 1
  BY <1>3
<1> QED
  BY <1>1, <1>2, <1>3, <1>4 DEF o

(* MatchAt finds the first way that matches, and its shortest body.          *)
LEMMA MatchIs ==
    ASSUME NEW W, NEW t \in Seq(W), NEW p, IsPattern(p), NEW i \in 1 .. Len(t),
           Matching(t, i, p) # {}
    PROVE  MatchAt(t, i, p) \in Match /\ IsMatch(t, i, p, MatchAt(t, i, p))
<1> DEFINE ways == Matching(t, i, p)
           w == Min(ways)
           from == BodyFrom(t, i, p.ways[w].opens)
           ends == Ends(t, from, p.close)
           to == Min(ends)
           last == CloseEnd(t, to, p.close)
<1>0. i \in Nat \ {0} /\ Len(t) \in Nat /\ p.close \in Closes
  BY DEF IsPattern
<1>1. ways \in SUBSET Nat /\ ways # {}
  BY <1>0, MatchingIs
<1> HIDE DEF ways
<1>2. w \in ways /\ w \in Nat /\ \A v \in ways : w <= v
  BY <1>1, Least
<1> HIDE DEF w
<1>3. from \in i + 1 .. Len(t) + 1 /\ from # Absent /\ ends # {}
  BY <1>0, <1>2, MatchingIs DEF ways
<1> HIDE DEF from
<1>4. from \in Nat \ {0}
  BY <1>0, <1>3
<1>5. \A e \in ends : e \in from + 1 .. Len(t) /\ CloseEnd(t, e, p.close) # Absent
  BY <1>0, <1>4, EndsAre
<1>6. ends \in SUBSET Nat
  BY <1>4, <1>5
<1> HIDE DEF ends
<1>7. to \in ends /\ \A e \in ends : to <= e
  BY <1>3, <1>6, Least
<1> HIDE DEF to
<1>8. to \in from + 1 .. Len(t) /\ CloseEnd(t, to, p.close) # Absent
  BY <1>5, <1>7
<1>9. to \in 1 .. Len(t)
  BY <1>0, <1>4, <1>8
<1>10. last \in to .. Len(t)
  BY <1>0, <1>8, <1>9, CloseIs
<1>11. MatchAt(t, i, p) = [start |-> i, way |-> w, from |-> from, to |-> to, last |-> last]
  BY DEF MatchAt, Lazy, ways, w, from, ends, to
<1> DEFINE m == MatchAt(t, i, p)
<1>12. m.start = i /\ m.way = w /\ m.from = from /\ m.to = to /\ m.last = last
  BY <1>11
<1>13. i \in Nat /\ from \in Nat /\ to \in Nat /\ last \in Nat
  BY <1>0, <1>4, <1>9, <1>10
<1>14. m \in Match
  BY <1>2, <1>11, <1>13 DEF Match
<1>15. i < from /\ from < to /\ to <= last /\ last <= Len(t)
  BY <1>0, <1>3, <1>4, <1>8, <1>9, <1>10
<1> HIDE DEF m, last
<1>16. IsMatch(t, i, p, m)
  BY <1>2, <1>7, <1>12, <1>15 DEF IsMatch, ways, from, ends, last
<1> QED
  BY <1>14, <1>16 DEF m

(* g is what is found from each place of t on.                               *)
Finding(t, p, g) ==
    /\ g[Len(t) + 1] = <<>>
    /\ \A i \in 1 .. Len(t) :
           /\ Matching(t, i, p) = {} => g[i] = g[i + 1]
           /\ Matching(t, i, p) # {} => g[i] = <<MatchAt(t, i, p)>> \o g[MatchAt(t, i, p).last + 1]

(* The recursion of Found is one.                                            *)
LEMMA FoundIs ==
    ASSUME NEW W, NEW t \in Seq(W), NEW p, IsPattern(p)
    PROVE  \E g \in [1 .. Len(t) + 1 -> Seq(Match)] : Finding(t, p, g) /\ Found(t, p) = g[1]
<1> DEFINE L == Len(t)
           D == 1 .. L + 1
           X == Seq(Match)
           r == [i \in D |-> L + 1 - i]
           M(i) == MatchAt(t, i, p)
           More(i, f) == IF i = L + 1 THEN <<>>
                         ELSE IF Matching(t, i, p) = {} THEN f[i + 1]
                         ELSE <<M(i)>> \o f[M(i).last + 1]
           step == [i \in D |-> [f \in [D -> X] |-> More(i, f)]]
           Eq(f) == f = [i \in D |-> More(i, f)]
           g == CHOOSE f : Eq(f)
<1>0. L \in Nat
  OBVIOUS
<1>1. Found(t, p) = g[1]
  BY DEF Found, Onwards
<1>2. ASSUME NEW i \in 1 .. L, Matching(t, i, p) # {}
      PROVE  M(i) \in Match /\ M(i).last + 1 \in i + 1 .. L + 1
  <2>1. M(i) \in Match /\ IsMatch(t, i, p, M(i))
    BY <1>2, MatchIs
  <2> DEFINE m == M(i)
  <2>2. m.start \in Nat /\ m.from \in Nat /\ m.to \in Nat /\ m.last \in Nat
    BY <2>1 DEF Match
  <2>3. i < m.from /\ m.from < m.to /\ m.to <= m.last /\ m.last <= L
    BY <2>1 DEF IsMatch
  <2> HIDE DEF m
  <2>4. m.last + 1 \in i + 1 .. L + 1
    BY <2>2, <2>3
  <2> QED
    BY <2>1, <2>4 DEF m
<1> HIDE DEF M
<1>3. ASSUME NEW i \in D, NEW f, \A e \in D : e > i => f[e] \in X PROVE More(i, f) \in X
  <2>1. CASE i = L + 1
    BY <2>1
  <2>2. CASE i # L + 1 /\ Matching(t, i, p) = {}
    <3>1. i + 1 \in D /\ i + 1 > i
      BY <1>0, <2>2
    <3> QED
      BY <1>3, <2>2, <3>1
  <2>3. CASE i # L + 1 /\ Matching(t, i, p) # {}
    <3>1. i \in 1 .. L
      BY <1>0, <2>3
    <3>2. M(i) \in Match /\ M(i).last + 1 \in D /\ M(i).last + 1 > i
      BY <1>0, <1>2, <2>3, <3>1
    <3>3. f[M(i).last + 1] \in Seq(Match)
      BY <1>3, <3>2
    <3>4. <<M(i)>> \in Seq(Match)
      BY <3>2
    <3>5. <<M(i)>> \o f[M(i).last + 1] \in Seq(Match)
      BY ONLY <3>3, <3>4
    <3> QED
      BY <2>3, <3>5
  <2> QED
    BY <2>1, <2>2, <2>3
<1>4. ASSUME NEW i \in D, NEW f \in [D -> X], NEW h \in [D -> X],
             \A e \in D : r[e] < r[i] => f[e] = h[e]
      PROVE  More(i, f) = More(i, h)
  <2>1. CASE i = L + 1
    BY <2>1
  <2>2. CASE i # L + 1 /\ Matching(t, i, p) = {}
    <3>1. i + 1 \in D /\ r[i + 1] < r[i]
      BY <1>0, <2>2
    <3> QED
      BY <1>4, <2>2, <3>1
  <2>3. CASE i # L + 1 /\ Matching(t, i, p) # {}
    <3>1. i \in 1 .. L
      BY <1>0, <2>3
    <3> DEFINE k == M(i).last + 1
    <3>2. k \in i + 1 .. L + 1
      BY <1>2, <2>3, <3>1
    <3> HIDE DEF k
    <3>3. k \in D /\ r[k] < r[i]
      BY <1>0, <3>1, <3>2
    <3>4. f[k] = h[k]
      BY <1>4, <3>3
    <3> QED
      BY <2>3, <3>4 DEF k
  <2> QED
    BY <2>1, <2>2, <2>3
<1> HIDE DEF More
<1>5. LooksDown(step, D, X, r, L + 1)
  <2>1. L + 1 \in Nat /\ r \in [D -> 0 .. L + 1]
    BY <1>0
  <2>2. X # {} /\ step \in [D -> [[D -> X] -> X]]
    <3>1. <<>> \in X
      OBVIOUS
    <3>2. \A i \in D, f \in [D -> X] : More(i, f) \in X
      BY <1>3
    <3> HIDE DEF D, X
    <3> QED
      BY <3>1, <3>2
  <2>3. \A i \in D : \A f, h \in [D -> X] :
            (\A e \in D : r[e] < r[i] => f[e] = h[e]) => step[i][f] = step[i][h]
    BY <1>4
  <2> HIDE DEF step, D, X, r
  <2> QED
    BY <2>1, <2>2, <2>3 DEF LooksDown
<1>6. \E f \in [D -> X] : \A i \in D : f[i] = step[i][f]
  <2> HIDE DEF step, D, X, r, L
  <2> QED
    BY ONLY <1>5, RecursionByRank
<1>7. PICK f \in [D -> X] : \A i \in D : f[i] = step[i][f]
  BY <1>6
<1>8. Eq(f)
  BY <1>7
<1>9. g = [i \in D |-> More(i, g)]
  <2>1. Eq(g)
    BY <1>8
  <2> QED
    BY <2>1
<1> HIDE DEF g
<1>10. \A i \in D : g[i] \in X
  <2> DEFINE S == {n \in 0 .. L : g[L + 1 - n] \in X /\ \A e \in D : e > L + 1 - n => g[e] \in X}
  <2>1. 0 \in S
    <3>1. L + 1 \in D /\ g[L + 1] = <<>>
      BY <1>0, <1>9 DEF More
    <3>2. L + 1 - 0 = L + 1 /\ 0 \in 0 .. L /\ \A e \in D : ~ (e > L + 1)
      BY <1>0
    <3>3. <<>> \in X
      OBVIOUS
    <3> HIDE DEF X, D, L
    <3> QED
      BY <3>1, <3>2, <3>3
  <2>2. ASSUME NEW n \in 0 .. L - 1, n \in S PROVE n + 1 \in S
    <3> DEFINE i == L + 1 - (n + 1)
    <3>1. i \in D /\ n + 1 \in 0 .. L /\ \A e \in D : e > i => e = L + 1 - n \/ e > L + 1 - n
      <4>1. n \in Nat /\ n <= L - 1
        BY ONLY <1>0, n \in 0 .. L - 1
      <4>2. n + 1 \in 0 .. L
        BY ONLY <1>0, <4>1
      <4>3. i \in D
        BY ONLY <1>0, <4>1
      <4>4. \A e \in D : e > i => e = L + 1 - n \/ e > L + 1 - n
        BY ONLY <1>0, <4>1, SMTT(20)
      <4> QED
        BY <4>2, <4>3, <4>4
    <3>2. \A e \in D : e > i => g[e] \in X
      BY <2>2, <3>1
    <3> HIDE DEF i
    <3>3. g[i] \in X
      BY <1>3, <1>9, <3>1, <3>2
    <3> QED
      BY <3>1, <3>2, <3>3 DEF i
  <2>3. \A n \in 0 .. L - 1 : n \in S => n + 1 \in S
    BY <2>2
  <2> HIDE DEF S
  <2>4. \A n \in 0 .. L : n \in S
    BY <1>0, <2>1, <2>3, CountUp
  <2>5. L \in S /\ 1 \in D /\ \A e \in D : e = 1 \/ e > 1
    BY <1>0, <2>4
  <2> QED
    BY <1>0, <2>5 DEF S
<1>11. g \in [D -> X]
  BY <1>9, <1>10
<1>12. Finding(t, p, g)
  <2>1. L + 1 \in D /\ g[L + 1] = <<>>
    BY <1>0, <1>9 DEF More
  <2>2. ASSUME NEW i \in 1 .. L
        PROVE  /\ Matching(t, i, p) = {} => g[i] = g[i + 1]
               /\ Matching(t, i, p) # {} => g[i] = <<M(i)>> \o g[M(i).last + 1]
    <3>1. i \in D /\ i # L + 1
      BY <1>0
    <3>2. g[i] = More(i, g)
      BY <1>9, <3>1
    <3> QED
      BY <3>1, <3>2 DEF More
  <2> QED
    BY <2>1, <2>2 DEF Finding, M
<1> QED
  BY <1>1, <1>11, <1>12

(* s is what is found in t from i on: matches, one behind the other, and all *)
(* places where one begins lie in one of them.                               *)
AllFrom(t, p, i, s) ==
    /\ \A j \in 1 .. Len(s) :
           /\ s[j].start \in i .. Len(t) /\ Matching(t, s[j].start, p) # {}
           /\ s[j] = MatchAt(t, s[j].start, p)
    /\ \A j \in 2 .. Len(s) : s[j].start > s[j - 1].last
    /\ \A k \in i .. Len(t) :
           Matching(t, k, p) # {} => \E j \in 1 .. Len(s) : k \in s[j].start .. s[j].last

(* Everything is found, from every place on.                                 *)
LEMMA AllFound ==
    ASSUME NEW W, NEW t \in Seq(W), NEW p, IsPattern(p),
           NEW g \in [1 .. Len(t) + 1 -> Seq(Match)], Finding(t, p, g)
    PROVE  \A i \in 1 .. Len(t) + 1 : AllFrom(t, p, i, g[i])
<1> DEFINE L == Len(t)
           S == {n \in 0 .. L : \A i \in L + 1 - n .. L + 1 : AllFrom(t, p, i, g[i])}
<1>0. L \in Nat
  OBVIOUS
<1>1. 0 \in S
  <2>1. g[L + 1] = <<>>
    BY DEF Finding
  <2>2. AllFrom(t, p, L + 1, <<>>)
    BY <1>0 DEF AllFrom
  <2>3. \A i \in L + 1 - 0 .. L + 1 : i = L + 1
    BY <1>0
  <2> QED
    BY <1>0, <2>1, <2>2, <2>3
<1>2. ASSUME NEW n \in 0 .. L - 1, n \in S PROVE n + 1 \in S
  <2> DEFINE i == L - n
  <2>1. /\ n + 1 \in 0 .. L /\ i \in 1 .. L
        /\ \A k \in L + 1 - (n + 1) .. L + 1 : k = i \/ k \in L + 1 - n .. L + 1
        /\ \A k \in i + 1 .. L + 1 : k \in L + 1 - n .. L + 1
    BY <1>0
  <2>2. \A k \in i + 1 .. L + 1 : AllFrom(t, p, k, g[k])
    BY <1>2, <2>1
  <2> HIDE DEF i
  <2>3. ASSUME Matching(t, i, p) = {} PROVE AllFrom(t, p, i, g[i])
    <3>0. i + 1 \in i + 1 .. L + 1
      BY <1>0, <2>1
    <3>1. g[i] = g[i + 1] /\ AllFrom(t, p, i + 1, g[i + 1])
      BY <2>1, <2>2, <2>3, <3>0 DEF Finding
    <3>2. \A k \in i .. L : k = i \/ k \in i + 1 .. L
      BY <2>1
    <3>3. \A k \in i + 1 .. L : k \in i .. L
      BY <2>1
    <3> DEFINE s == g[i]
    <3>4. AllFrom(t, p, i + 1, s)
      BY <3>1
    <3> HIDE DEF s, L
    <3>5. AllFrom(t, p, i, s)
      BY <2>3, <3>2, <3>3, <3>4 DEF AllFrom, L
    <3> QED
      BY <3>5 DEF s
  <2>4. ASSUME Matching(t, i, p) # {} PROVE AllFrom(t, p, i, g[i])
    <3> DEFINE m == MatchAt(t, i, p)
               k == m.last + 1
               s == g[k]
               all == <<m>> \o s
    <3>1. m \in Match /\ IsMatch(t, i, p, m)
      BY <2>1, <2>4, MatchIs
    <3>2. /\ m.start = i /\ m.from \in Nat /\ m.to \in Nat /\ m.last \in Nat
          /\ i < m.from /\ m.from < m.to /\ m.to <= m.last /\ m.last <= L
      BY <3>1 DEF Match, IsMatch
    <3>3. g[i] = all
      BY <2>1, <2>4 DEF Finding
    <3> HIDE DEF m
    <3>4. i < m.last /\ k \in i + 1 .. L + 1
      BY <1>0, <2>1, <3>2
    <3>5. s \in Seq(Match) /\ AllFrom(t, p, k, s)
      BY <1>0, <2>1, <2>2, <3>4
    <3> HIDE DEF k, s
    <3>6. /\ Len(all) = Len(s) + 1 /\ Len(s) \in Nat /\ all[1] = m
          /\ \A j \in 1 .. Len(s) : all[j + 1] = s[j]
      BY <3>1, <3>5
    <3> HIDE DEF all
    <3>7. ASSUME NEW j \in 1 .. Len(all)
          PROVE  /\ all[j].start \in i .. L /\ Matching(t, all[j].start, p) # {}
                 /\ all[j] = MatchAt(t, all[j].start, p)
      <4>1. CASE j = 1
        <5>1. all[j] = m /\ m.start = i /\ i \in i .. L
          BY <2>1, <3>2, <3>6, <4>1
        <5> QED
          BY <2>4, <5>1 DEF m
      <4>2. CASE j # 1
        <5>1. j - 1 \in 1 .. Len(s) /\ (j - 1) + 1 = j
          BY <3>6, <4>2
        <5>2. all[j] = s[j - 1]
          BY <3>6, <5>1
        <5>3. /\ s[j - 1].start \in k .. L /\ Matching(t, s[j - 1].start, p) # {}
              /\ s[j - 1] = MatchAt(t, s[j - 1].start, p)
          BY <3>5, <5>1 DEF AllFrom
        <5>4. \A x \in k .. L : x \in i .. L
          BY <2>1, <3>4
        <5> QED
          BY <5>2, <5>3, <5>4
      <4> QED
        BY <4>1, <4>2
    <3>8. ASSUME NEW j \in 2 .. Len(all) PROVE all[j].start > all[j - 1].last
      <4>1. CASE j = 2
        <5>1. 1 \in 1 .. Len(s) /\ all[2] = s[1]
          BY <3>6, <4>1
        <5>2. s[1].start \in k .. L
          BY <3>5, <5>1 DEF AllFrom
        <5>3. all[j].start \in k .. L /\ all[j - 1].last = m.last
          BY <3>6, <4>1, <5>1, <5>2
        <5> QED
          BY <3>2, <5>3 DEF k
      <4>2. CASE j # 2
        <5>1. /\ j - 1 \in 2 .. Len(s) /\ (j - 1) + 1 = j /\ j - 1 \in 1 .. Len(s)
              /\ j - 2 \in 1 .. Len(s) /\ (j - 2) + 1 = j - 1 /\ (j - 1) - 1 = j - 2
          BY <3>6, <4>2
        <5>2. all[j] = s[j - 1] /\ all[j - 1] = s[j - 2]
          BY <3>6, <5>1
        <5>3. s[j - 1].start > s[(j - 1) - 1].last
          BY <3>5, <5>1 DEF AllFrom
        <5> QED
          BY <5>1, <5>2, <5>3
      <4> QED
        BY <4>1, <4>2
    <3>9. ASSUME NEW x \in i .. L, Matching(t, x, p) # {}
          PROVE  \E j \in 1 .. Len(all) : x \in all[j].start .. all[j].last
      <4>1. CASE x <= m.last
        <5>1. 1 \in 1 .. Len(all) /\ x \in all[1].start .. all[1].last
          BY <2>1, <3>2, <3>6, <4>1
        <5> QED
          BY <5>1
      <4>2. CASE x > m.last
        <5>1. x \in k .. L
          BY <3>2, <4>2 DEF k
        <5>2. PICK j \in 1 .. Len(s) : x \in s[j].start .. s[j].last
          BY <3>5, <3>9, <5>1 DEF AllFrom
        <5>3. j + 1 \in 1 .. Len(all) /\ all[j + 1] = s[j]
          BY <3>6
        <5> QED
          BY <5>2, <5>3
      <4> QED
        BY <2>1, <3>2, <4>1, <4>2
    <3>10. AllFrom(t, p, i, all)
      BY <3>7, <3>8, <3>9 DEF AllFrom
    <3> QED
      BY <3>3, <3>10
  <2>5. AllFrom(t, p, i, g[i])
    BY <2>3, <2>4
  <2> QED
    BY <1>2, <2>1, <2>5
<1>3. \A n \in 0 .. L - 1 : n \in S => n + 1 \in S
  BY <1>2
<1> HIDE DEF S
<1>4. L \in S
  <2>1. \A n \in 0 .. L : n \in S
    BY <1>0, <1>1, <1>3, CountUp
  <2> QED
    BY <1>0, <2>1
<1>5. \A i \in L + 1 - L .. L + 1 : AllFrom(t, p, i, g[i])
  BY <1>4 DEF S
<1> QED
  BY <1>0, <1>5

(* Found finds all there is.                                                 *)
LEMMA FoundAll ==
    ASSUME NEW W, NEW t \in Seq(W), NEW p, IsPattern(p)
    PROVE  Found(t, p) \in Seq(Match) /\ AllFrom(t, p, 1, Found(t, p))
<1>1. PICK g \in [1 .. Len(t) + 1 -> Seq(Match)] : Finding(t, p, g) /\ Found(t, p) = g[1]
  BY FoundIs
<1>2. 1 \in 1 .. Len(t) + 1
  OBVIOUS
<1> QED
  BY <1>1, <1>2, AllFound

(* What is found are matches.                                                *)
LEMMA FoundIsMatch ==
    ASSUME NEW W, NEW t \in Seq(W), NEW p, IsPattern(p), NEW m \in ToSet(Found(t, p))
    PROVE  /\ m \in Match /\ m.start \in 1 .. Len(t)
           /\ Matching(t, m.start, p) # {} /\ m = MatchAt(t, m.start, p)
           /\ IsMatch(t, m.start, p, m)
<1>1. Found(t, p) \in Seq(Match) /\ AllFrom(t, p, 1, Found(t, p))
  BY FoundAll
<1>2. PICK j \in 1 .. Len(Found(t, p)) : m = Found(t, p)[j]
  BY <1>1 DEF ToSet
<1>3. m.start \in 1 .. Len(t) /\ Matching(t, m.start, p) # {} /\ m = MatchAt(t, m.start, p)
  BY <1>1, <1>2 DEF AllFrom
<1> DEFINE i == m.start
<1> HIDE DEF i
<1>4. MatchAt(t, i, p) \in Match /\ IsMatch(t, i, p, MatchAt(t, i, p))
  BY <1>3, MatchIs DEF i
<1> QED
  BY <1>3, <1>4 DEF i

(* No word of the opening o, and no line end, begins the opening q.          *)
Apart(o, q) == NL \notin q[1] /\ \A k \in 1 .. Len(o) : o[k] \cap q[1] = {}

(* The ways of a pattern tell themselves apart by their first word, and have *)
(* as many opening words if one may begin inside another.                    *)
Uniform(p) ==
    \A v, w \in DOMAIN p.ways :
        /\ \/ Len(p.ways[v].opens) = Len(p.ways[w].opens)
           \/ Apart(p.ways[v].opens, p.ways[w].opens)
        /\ v # w => p.ways[v].opens[1] \cap p.ways[w].opens[1] = {}

(* A match in the shorter text is one in the longer, and the other way round *)
(* if it ends in the shorter.                                                *)
LEMMA MatchStands ==
    ASSUME NEW W, NEW t \in Seq(W), NEW u \in Seq(W), Begins(t, u),
           NEW p, IsPattern(p), Uniform(p), NEW i \in 1 .. Len(t)
    PROVE  /\ Matching(t, i, p) # {} =>
                  Matching(u, i, p) # {} /\ MatchAt(u, i, p) = MatchAt(t, i, p)
           /\ Matching(u, i, p) # {} /\ MatchAt(u, i, p).last <= Len(t) => Matching(t, i, p) # {}
<1> DEFINE L == Len(t)
           c == p.close
<1>0. /\ L \in Nat /\ Len(u) = L + 1 /\ i \in Nat \ {0} /\ i \in 1 .. Len(u) /\ c \in Closes
      /\ \A k \in 1 .. L : u[k] = t[k]
  BY DEF IsPattern, Begins
<1>1. ASSUME Matching(t, i, p) # {}
      PROVE  Matching(u, i, p) # {} /\ MatchAt(u, i, p) = MatchAt(t, i, p)
  <2> DEFINE m == MatchAt(t, i, p)
             w == m.way
             o == p.ways[w].opens
             from == m.from
  <2>1. m \in Match /\ IsMatch(t, i, p, m)
    BY <1>1, MatchIs
  <2> HIDE DEF m
  <2>2. /\ m.start = i /\ w \in Matching(t, i, p)
        /\ from = BodyFrom(t, i, o)
        /\ m.to \in Ends(t, from, c) /\ \A e \in Ends(t, from, c) : m.to <= e
        /\ m.last = CloseEnd(t, m.to, c)
        /\ i < from /\ from < m.to /\ m.to <= m.last /\ m.last <= L
        /\ from \in Nat /\ m.to \in Nat /\ m.last \in Nat
    BY <2>1 DEF IsMatch, Match
  <2>3. w \in DOMAIN p.ways /\ IsOpening(o) /\ BodyFrom(t, i, o) # Absent
    BY <1>0, <2>2, MatchingIs
  <2>4. BodyFrom(u, i, o) = from
    <3>1. from <= L
      BY <1>0, <2>2
    <3> HIDE DEF o, w
    <3>2. BodyFrom(t, i, o) # Absent /\ BodyFrom(t, i, o) <= Len(t)
      BY <2>2, <2>3, <3>1
    <3> QED
      BY <1>0, <2>2, <2>3, <3>2, BodyStands
  <2>5. from \in Nat \ {0} /\ m.to \in 1 .. L /\ m.to \in 1 .. Len(u)
    BY <1>0, <2>2
  <2>6. CloseEnd(t, m.to, c) # Absent /\ \A k \in from .. m.to - 1 : t[k] # NL
    BY <1>0, <2>2, <2>5, EndsAre
  <2>7. CloseEnd(u, m.to, c) = m.last /\ m.last # Absent
    BY <1>0, <2>2, <2>5, <2>6, CloseStands
  <2>8. m.to \in Ends(u, from, c)
    <3>1. \A k \in from .. m.to - 1 : u[k] # NL
      BY <1>0, <2>2, <2>5, <2>6, SMTT(20)
    <3>2. m.to \in from + 1 .. Len(u)
      BY <1>0, <2>2
    <3> QED
      BY <1>0, <2>5, <2>7, <3>1, <3>2, EndsAre
  <2>9. w \in Matching(u, i, p)
    <3>1. from # Absent
      BY <2>2, <2>3
    <3> QED
      BY <2>3, <2>4, <2>8, <3>1 DEF Matching
  <2>10. \A v \in Matching(u, i, p) : v = w
    <3> SUFFICES ASSUME NEW v \in Matching(u, i, p), v # w PROVE FALSE
      OBVIOUS
    <3>1. v \in DOMAIN p.ways /\ IsOpening(p.ways[v].opens) /\ Opened(u, i, p.ways[v].opens)
      BY <1>0, MatchingIs
    <3>2. Opened(u, i, p.ways[w].opens)
      BY <1>0, <2>9, MatchingIs
    <3>3. PlacesOf(u, i, p.ways[v].opens)[1] = i /\ PlacesOf(u, i, p.ways[w].opens)[1] = i
      BY <1>0, <2>3, <3>1, PlacesAre
    <3>4. 1 \in DOMAIN p.ways[v].opens /\ 1 \in DOMAIN p.ways[w].opens
      BY <2>3, <3>1 DEF IsOpening
    <3>5. u[i] \in p.ways[v].opens[1]
      BY <3>1, <3>3, <3>4 DEF Opened
    <3>6. u[i] \in p.ways[w].opens[1]
      BY <3>2, <3>3, <3>4 DEF Opened
    <3> QED
      BY <2>3, <3>1, <3>5, <3>6 DEF Uniform
  <2> DEFINE n == MatchAt(u, i, p)
  <2>11. n \in Match /\ IsMatch(u, i, p, n)
    BY <1>0, <2>9, MatchIs
  <2> HIDE DEF n
  <2>12. n.start = i /\ n.way = w /\ n.from = from
    BY <2>4, <2>10, <2>11 DEF IsMatch
  <2>13. /\ n.to \in Ends(u, from, c) /\ \A e \in Ends(u, from, c) : n.to <= e
         /\ n.last = CloseEnd(u, n.to, c) /\ n.to \in Nat /\ n.last \in Nat
    BY <2>11, <2>12 DEF IsMatch, Match
  <2>14. /\ n.to \in from + 1 .. Len(u) /\ CloseEnd(u, n.to, c) # Absent
         /\ \A k \in from .. n.to - 1 : u[k] # NL
    BY <1>0, <2>5, <2>13, EndsAre
  <2>15. n.to <= m.to
    BY <2>8, <2>13
  <2>16. n.to \in 1 .. L /\ n.to \in 1 .. Len(u)
    BY <1>0, <2>5, <2>14, <2>15
  <2>17. n.last <= m.last
    BY <1>0, <2>5, <2>7, <2>13, <2>14, <2>15, <2>16, CloseOrder
  <2>18. CloseEnd(t, n.to, c) = n.last /\ n.last # Absent
    <3>1. CloseEnd(u, n.to, c) <= Len(t)
      BY <1>0, <2>2, <2>13, <2>17
    <3> QED
      BY <1>0, <2>13, <2>14, <2>16, <3>1, CloseStands
  <2>19. n.to \in Ends(t, from, c)
    <3>1. \A k \in from .. n.to - 1 : t[k] # NL
      BY <1>0, <2>5, <2>14, <2>16, SMTT(20)
    <3>2. n.to \in from + 1 .. L
      BY <1>0, <2>5, <2>14, <2>16
    <3> QED
      BY <1>0, <2>5, <2>18, <3>1, <3>2, EndsAre
  <2>20. n.to = m.to
    BY <2>2, <2>13, <2>15, <2>19
  <2>21. n.last = m.last
    BY <2>7, <2>13, <2>20
  <2>22. n = m
    BY <2>1, <2>2, <2>11, <2>12, <2>20, <2>21 DEF Match
  <2> QED
    BY <2>9, <2>22 DEF m, n
<1>2. ASSUME Matching(u, i, p) # {}, MatchAt(u, i, p).last <= L
      PROVE  Matching(t, i, p) # {}
  <2> DEFINE m == MatchAt(u, i, p)
             w == m.way
             o == p.ways[w].opens
             from == m.from
  <2>1. m \in Match /\ IsMatch(u, i, p, m)
    BY <1>0, <1>2, MatchIs
  <2>0. m.last <= L
    BY <1>2
  <2> HIDE DEF m
  <2>2. /\ w \in Matching(u, i, p) /\ from = BodyFrom(u, i, o)
        /\ m.to \in Ends(u, from, c) /\ m.last = CloseEnd(u, m.to, c)
        /\ i < from /\ from < m.to /\ m.to <= m.last
        /\ from \in Nat /\ m.to \in Nat /\ m.last \in Nat
    BY <2>1 DEF IsMatch, Match
  <2>3. w \in DOMAIN p.ways /\ IsOpening(o) /\ BodyFrom(u, i, o) # Absent
    BY <1>0, <2>2, MatchingIs
  <2>4. from <= L /\ m.to \in 1 .. L /\ from \in Nat \ {0} /\ m.to \in from + 1 .. L
    BY <1>0, <2>0, <2>2
  <2>5. BodyFrom(t, i, o) = from
    <3> HIDE DEF o, w
    <3>1. BodyFrom(u, i, o) # Absent /\ BodyFrom(u, i, o) <= Len(t)
      BY <2>2, <2>3, <2>4
    <3> QED
      BY <1>0, <2>2, <2>3, <3>1, BodyStands
  <2>6. CloseEnd(u, m.to, c) # Absent /\ \A k \in from .. m.to - 1 : u[k] # NL
    BY <1>0, <2>2, <2>4, EndsAre
  <2>7. CloseEnd(t, m.to, c) # Absent
    <3>1. CloseEnd(u, m.to, c) <= Len(t)
      BY <2>0, <2>2
    <3> QED
      BY <1>0, <2>4, <2>6, <3>1, CloseStands
  <2>8. \A k \in from .. m.to - 1 : t[k] # NL
    BY <1>0, <2>4, <2>6
  <2>9. m.to \in Ends(t, from, c)
    BY <1>0, <2>4, <2>7, <2>8, EndsAre
  <2>10. w \in Matching(t, i, p)
    <3>1. from # Absent
      BY <2>2, <2>3
    <3> QED
      BY <2>3, <2>5, <2>9, <3>1 DEF Matching
  <2> QED
    BY <2>10
<1> QED
  BY <1>1, <1>2

(* Where a match takes the last word of the longer text, nothing matched in  *)
(* the shorter one.                                                          *)
LEMMA NothingBehind ==
    ASSUME NEW W, NEW t \in Seq(W), NEW u \in Seq(W), Begins(t, u),
           NEW p, IsPattern(p), Uniform(p), NEW i \in 1 .. Len(t), NEW j \in i .. Len(t),
           Matching(u, i, p) # {}, MatchAt(u, i, p).last > Len(t)
    PROVE  Matching(t, j, p) = {}
<1> DEFINE L == Len(t)
           c == p.close
           m == MatchAt(u, i, p)
           n == MatchAt(u, j, p)
<1>0. /\ L \in Nat /\ Len(u) = L + 1 /\ i \in 1 .. Len(u) /\ j \in 1 .. Len(t) /\ j \in 1 .. Len(u)
      /\ i \in Nat \ {0} /\ j \in Nat \ {0} /\ i <= j /\ c \in Closes
  BY DEF Begins, IsPattern
<1> SUFFICES ASSUME Matching(t, j, p) # {} PROVE FALSE
  OBVIOUS
<1>1. Matching(u, j, p) # {} /\ n = MatchAt(t, j, p)
  BY <1>0, MatchStands
<1>2. n \in Match /\ IsMatch(u, j, p, n) /\ IsMatch(t, j, p, n)
  BY <1>0, <1>1, MatchIs
<1>3. m \in Match /\ IsMatch(u, i, p, m) /\ m.last > L
  BY <1>0, MatchIs
<1> HIDE DEF m, n
<1> DEFINE o == p.ways[m.way].opens
           q == p.ways[n.way].opens
<1>4. /\ m.way \in Matching(u, i, p) /\ m.from = BodyFrom(u, i, o)
      /\ \A e \in Ends(u, m.from, c) : m.to <= e
      /\ m.to \in Ends(u, m.from, c) /\ m.last = CloseEnd(u, m.to, c)
      /\ i < m.from /\ m.from \in Nat /\ m.to \in Nat /\ m.last \in Nat
  BY <1>3 DEF IsMatch, Match
<1>5. /\ n.way \in Matching(u, j, p) /\ n.from = BodyFrom(u, j, q)
      /\ n.to \in Ends(u, n.from, c) /\ n.last = CloseEnd(u, n.to, c)
      /\ j < n.from /\ n.from < n.to /\ n.to <= n.last /\ n.last <= L
      /\ n.from \in Nat /\ n.to \in Nat /\ n.last \in Nat
  BY <1>2 DEF IsMatch, Match
<1>6. /\ m.way \in DOMAIN p.ways /\ IsOpening(o) /\ BodyFrom(u, i, o) # Absent
      /\ n.way \in DOMAIN p.ways /\ IsOpening(q) /\ BodyFrom(u, j, q) # Absent
  BY <1>0, <1>4, <1>5, MatchingIs
<1>7. Len(q) = Len(o) \/ Apart(o, q)
  BY <1>6 DEF Uniform
<1> HIDE DEF o, q
<1>8. m.from <= n.from
  <2>1. CASE Len(q) = Len(o)
    BY <1>0, <1>4, <1>5, <1>6, <2>1, BodyOrder
  <2>2. CASE Apart(o, q)
    <3>1. Opened(u, i, o) /\ Opened(u, j, q)
      BY <1>0, <1>6, BodyOpens
    <3>2. u[j] \in q[1]
      <4>1. PlacesOf(u, j, q)[1] = j /\ 1 \in DOMAIN q
        BY <1>0, <1>6, PlacesAre DEF IsOpening
      <4> QED
        BY <3>1, <4>1 DEF Opened
    <3>3. u[j] # NL /\ \A k \in 1 .. Len(o) : u[j] \notin o[k]
      BY <2>2, <3>2 DEF Apart
    <3>4. j \notin i .. m.from - 1
      BY <1>0, <1>4, <1>6, <3>1, <3>3, OpensOnly
    <3> QED
      BY <1>0, <1>4, <1>5, <3>4
  <2> QED
    BY <1>7, <2>1, <2>2
<1>9. m.from \in Nat \ {0} /\ n.from \in Nat \ {0}
  BY <1>0, <1>4, <1>5
<1>10. /\ m.to \in m.from + 1 .. Len(u) /\ CloseEnd(u, m.to, c) # Absent
       /\ \A k \in m.from .. m.to - 1 : u[k] # NL
  BY <1>0, <1>4, <1>9, EndsAre
<1>11. n.to \in n.from + 1 .. Len(u) /\ CloseEnd(u, n.to, c) # Absent
  BY <1>0, <1>5, <1>9, EndsAre
<1>12. CASE n.to < m.to
  <2>1. n.to \in m.from + 1 .. Len(u)
    BY <1>0, <1>4, <1>5, <1>8, <1>11
  <2>2. \A k \in m.from .. n.to - 1 : u[k] # NL
    BY <1>4, <1>5, <1>10, <1>12, SMTT(20)
  <2>3. n.to \in Ends(u, m.from, c)
    BY <1>0, <1>9, <1>11, <2>1, <2>2, EndsAre
  <2> QED
    BY <1>4, <1>5, <1>12, <2>3
<1>13. CASE m.to <= n.to
  <2>1. m.to \in 1 .. Len(u) /\ n.to \in 1 .. Len(u)
    BY <1>0, <1>4, <1>5, <1>10, <1>11
  <2>2. m.last <= n.last
    BY <1>0, <1>4, <1>5, <1>10, <1>11, <1>13, <2>1, CloseOrder
  <2> QED
    BY <1>0, <1>3, <1>4, <1>5, <2>2
<1> QED
  BY <1>4, <1>5, <1>12, <1>13

(* s is the beginning of r.                                                  *)
Leads(s, r) == Len(s) <= Len(r) /\ \A k \in 1 .. Len(s) : r[k] = s[k]

(* What is found in the shorter text is found first in the longer.           *)
LEMMA FoundLeads ==
    ASSUME NEW W, NEW t \in Seq(W), NEW u \in Seq(W), Begins(t, u),
           NEW p, IsPattern(p), Uniform(p)
    PROVE  Leads(Found(t, p), Found(u, p))
<1> DEFINE L == Len(t)
<1>0. L \in Nat /\ Len(u) = L + 1
  BY DEF Begins
<1>1. PICK g \in [1 .. Len(t) + 1 -> Seq(Match)] : Finding(t, p, g) /\ Found(t, p) = g[1]
  BY FoundIs
<1>2. PICK h \in [1 .. Len(u) + 1 -> Seq(Match)] : Finding(u, p, h) /\ Found(u, p) = h[1]
  BY FoundIs
<1> DEFINE S == {n \in 0 .. L : \A i \in L + 1 - n .. L + 1 : Leads(g[i], h[i])}
<1>3. 0 \in S
  <2>1. g[L + 1] = <<>>
    BY <1>1 DEF Finding
  <2>2. h[L + 1] \in Seq(Match)
    BY <1>0
  <2>3. Leads(g[L + 1], h[L + 1])
    BY <2>1, <2>2 DEF Leads
  <2>4. \A i \in L + 1 - 0 .. L + 1 : i = L + 1
    BY <1>0
  <2> QED
    BY <1>0, <2>3, <2>4
<1>4. ASSUME NEW n \in 0 .. L - 1, n \in S PROVE n + 1 \in S
  <2> DEFINE i == L - n
  <2>1. /\ n + 1 \in 0 .. L /\ i \in 1 .. L /\ i \in 1 .. Len(u)
        /\ \A k \in L + 1 - (n + 1) .. L + 1 : k = i \/ k \in L + 1 - n .. L + 1
        /\ \A k \in i + 1 .. L + 1 : k \in L + 1 - n .. L + 1
    BY <1>0
  <2>2. \A k \in i + 1 .. L + 1 : Leads(g[k], h[k])
    BY <1>4, <2>1
  <2> HIDE DEF i
  <2>3. ASSUME Matching(t, i, p) # {} PROVE Leads(g[i], h[i])
    <3> DEFINE m == MatchAt(t, i, p)
               k == m.last + 1
    <3>1. Matching(u, i, p) # {} /\ MatchAt(u, i, p) = m
      BY <2>1, <2>3, MatchStands
    <3>2. g[i] = <<m>> \o g[k] /\ h[i] = <<m>> \o h[k]
      BY <1>1, <1>2, <2>1, <2>3, <3>1 DEF Finding
    <3>3. m \in Match /\ IsMatch(t, i, p, m)
      BY <2>1, <2>3, MatchIs
    <3> HIDE DEF m
    <3>4. /\ m.from \in Nat /\ m.to \in Nat /\ m.last \in Nat
          /\ i < m.from /\ m.from < m.to /\ m.to <= m.last /\ m.last <= L
      BY <3>3 DEF Match, IsMatch
    <3>5. k \in i + 1 .. L + 1
      BY <1>0, <2>1, <3>4, SMTT(20)
    <3> HIDE DEF k
    <3>6. Leads(g[k], h[k]) /\ k \in 1 .. L + 1 /\ k \in 1 .. Len(u) + 1
      BY <1>0, <2>1, <2>2, <3>5
    <3>7. g[k] \in Seq(Match) /\ h[k] \in Seq(Match)
      BY <3>6
    <3> DEFINE a == g[k]
               b == h[k]
    <3>8. a \in Seq(Match) /\ b \in Seq(Match) /\ Leads(a, b) /\ g[i] = <<m>> \o a /\ h[i] = <<m>> \o b
      BY <3>2, <3>6, <3>7
    <3> HIDE DEF a, b
    <3>9. Leads(<<m>> \o a, <<m>> \o b)
      <4>1. /\ Len(<<m>> \o a) = Len(a) + 1 /\ Len(<<m>> \o b) = Len(b) + 1
            /\ \A k1 \in 1 .. Len(a) + 1 : (<<m>> \o a)[k1] = IF k1 = 1 THEN m ELSE a[k1 - 1]
        BY ONLY <3>3, <3>8
      <4>2. \A k1 \in 1 .. Len(b) + 1 : (<<m>> \o b)[k1] = IF k1 = 1 THEN m ELSE b[k1 - 1]
        BY ONLY <3>3, <3>8
      <4>3. Len(a) \in Nat /\ Len(b) \in Nat /\ Len(a) <= Len(b) /\ \A k1 \in 1 .. Len(a) : b[k1] = a[k1]
        BY ONLY <3>8 DEF Leads
      <4> QED
        BY ONLY <4>1, <4>2, <4>3 DEF Leads
    <3> QED
      BY <3>8, <3>9
  <2>4. ASSUME Matching(t, i, p) = {} PROVE Leads(g[i], h[i])
    <3>0. i + 1 \in i + 1 .. L + 1
      BY <1>0, <2>1
    <3>1. g[i] = g[i + 1] /\ i + 1 \in i + 1 .. L + 1
      BY <1>1, <2>1, <2>4, <3>0 DEF Finding
    <3>2. CASE Matching(u, i, p) = {}
      <4>1. h[i] = h[i + 1]
        BY <1>2, <2>1, <3>2 DEF Finding
      <4> QED
        BY <2>2, <3>1, <4>1
    <3>3. CASE Matching(u, i, p) # {}
      <4>1. ~ (MatchAt(u, i, p).last <= Len(t))
        BY <2>1, <2>4, <3>3, MatchStands
      <4>2. MatchAt(u, i, p).last \in Nat
        <5>1. MatchAt(u, i, p) \in Match
          BY <2>1, <3>3, MatchIs
        <5> QED
          BY <5>1 DEF Match
      <4>3. MatchAt(u, i, p).last > Len(t)
        BY <1>0, <4>1, <4>2
      <4>4. \A j \in i .. Len(t) : Matching(t, j, p) = {}
        BY <2>1, <3>3, <4>3, NothingBehind
      <4>5. AllFrom(t, p, i, g[i]) /\ g[i] \in Seq(Match)
        <5>1. i \in 1 .. Len(t) + 1
          BY <1>0, <2>1
        <5> QED
          BY <1>1, <5>1, AllFound
      <4> DEFINE s == g[i]
      <4>6. AllFrom(t, p, i, s) /\ s \in Seq(Match)
        BY <4>5
      <4> HIDE DEF s
      <4>7. Len(s) = 0
        <5> SUFFICES ASSUME 1 \in 1 .. Len(s) PROVE FALSE
          BY <4>6
        <5>1. s[1].start \in i .. Len(t) /\ Matching(t, s[1].start, p) # {}
          BY <4>6 DEF AllFrom
        <5> QED
          BY <4>4, <5>1
      <4>8. h[i] \in Seq(Match)
        BY <1>0, <2>1
      <4> QED
        BY <4>7, <4>8 DEF Leads, s
    <3> QED
      BY <3>2, <3>3
  <2>5. Leads(g[i], h[i])
    BY <2>3, <2>4
  <2> QED
    BY <1>4, <2>1, <2>5
<1>5. \A n \in 0 .. L - 1 : n \in S => n + 1 \in S
  BY <1>4
<1> HIDE DEF S
<1>6. L \in S
  <2>1. \A n \in 0 .. L : n \in S
    BY <1>0, <1>3, <1>5, CountUp
  <2> QED
    BY <1>0, <2>1
<1>7. 1 \in L + 1 - L .. L + 1
  BY <1>0
<1> QED
  BY <1>1, <1>2, <1>6, <1>7 DEF S

-----------------------------------------------------------------------------
(* The patterns.                                                             *)

(* The ways of each pattern.                                                 *)
LEMMA Ways ==
    /\ IllBy.close = "by" /\ DOMAIN IllBy.ways = {1} /\ IllBy.ways[1].opens = <<{"I'll"}>>
    /\ IWillBy.close = "by" /\ DOMAIN IWillBy.ways = {1} /\ IWillBy.ways[1].opens = <<{"I"}, {"will"}>>
    /\ PromisedBy.close = "by" /\ DOMAIN PromisedBy.ways = {1}
    /\ PromisedBy.ways[1].opens = <<Tails, {"promised"}>>
    /\ NameWillBy.close = "by" /\ DOMAIN NameWillBy.ways = {1}
    /\ NameWillBy.ways[1].opens = <<Tails, {"will"}>>
    /\ Owes.close = "stop" /\ DOMAIN Owes.ways = {1, 2}
    /\ Owes.ways[1].opens = <<{"I"}, {"owe"}, Names>> /\ Owes.ways[2].opens = <<Tails, {"owes"}, {"me"}>>
    /\ Owes.ways[1].owner = "user" /\ Owes.ways[1].name = 3
    /\ IThink.close = "stop" /\ DOMAIN IThink.ways = {1} /\ IThink.ways[1].opens = <<{"I"}, {"think"}>>
    /\ IBelieve.close = "stop" /\ DOMAIN IBelieve.ways = {1, 2}
    /\ IBelieve.ways[1].opens = <<{"I"}, {"believe"}>>
    /\ IBelieve.ways[2].opens = <<{"I'm"}, {"convinced"}>>
    /\ NotSure.close = "stop" /\ DOMAIN NotSure.ways = {1, 2}
    /\ NotSure.ways[1].opens = <<{"I'm"}, {"not"}, {"sure"}, {"about"}>>
    /\ NotSure.ways[2].opens = <<{"I'm"}, {"not"}, {"sure"}>>
    /\ Revision.close = "stop" /\ DOMAIN Revision.ways = {1, 2}
    /\ Revision.ways[1].opens = <<{"actually:"}>>
    /\ Revision.ways[2].opens = <<{"on"}, {"second"}, {"thought:"}>>
<1>1. /\ IllBy.close = "by" /\ DOMAIN IllBy.ways = {1} /\ IllBy.ways[1].opens = <<{"I'll"}>>
  BY DEF IllBy, Mine, Way
<1>2. /\ IWillBy.close = "by" /\ DOMAIN IWillBy.ways = {1}
      /\ IWillBy.ways[1].opens = <<{"I"}, {"will"}>>
  BY DEF IWillBy, Mine, Way
<1>3. /\ PromisedBy.close = "by" /\ DOMAIN PromisedBy.ways = {1}
      /\ PromisedBy.ways[1].opens = <<Tails, {"promised"}>>
  BY DEF PromisedBy, Theirs, Way
<1>4. /\ NameWillBy.close = "by" /\ DOMAIN NameWillBy.ways = {1}
      /\ NameWillBy.ways[1].opens = <<Tails, {"will"}>>
  BY DEF NameWillBy, Theirs, Way
<1>5. /\ Owes.close = "stop" /\ DOMAIN Owes.ways = {1, 2}
      /\ Owes.ways[1].opens = <<{"I"}, {"owe"}, Names>>
      /\ Owes.ways[2].opens = <<Tails, {"owes"}, {"me"}>>
      /\ Owes.ways[1].owner = "user" /\ Owes.ways[1].name = 3
  BY DEF Owes, Theirs, Way
<1>6. IThink.close = "stop" /\ DOMAIN IThink.ways = {1} /\ IThink.ways[1].opens = <<{"I"}, {"think"}>>
  BY DEF IThink, Mine, Way
<1>7. /\ IBelieve.close = "stop" /\ DOMAIN IBelieve.ways = {1, 2}
      /\ IBelieve.ways[1].opens = <<{"I"}, {"believe"}>>
      /\ IBelieve.ways[2].opens = <<{"I'm"}, {"convinced"}>>
  BY DEF IBelieve, Mine, Way
<1>8. /\ NotSure.close = "stop" /\ DOMAIN NotSure.ways = {1, 2}
      /\ NotSure.ways[1].opens = <<{"I'm"}, {"not"}, {"sure"}, {"about"}>>
      /\ NotSure.ways[2].opens = <<{"I'm"}, {"not"}, {"sure"}>>
  BY DEF NotSure, Mine, Way
<1>9. /\ Revision.close = "stop" /\ DOMAIN Revision.ways = {1, 2}
      /\ Revision.ways[1].opens = <<{"actually:"}>>
      /\ Revision.ways[2].opens = <<{"on"}, {"second"}, {"thought:"}>>
  BY DEF Revision, Mine, Way
<1> QED
  BY <1>1, <1>2, <1>3, <1>4, <1>5, <1>6, <1>7, <1>8, <1>9

(* The patterns there are.                                                   *)
LEMMA PatternsListed ==
    /\ ToSet(Promises) = {IllBy, IWillBy, PromisedBy, NameWillBy, Owes}
    /\ ToSet(Opinions) = {IThink, IBelieve, NotSure, Revision}
    /\ ToSet(Promises \o Opinions) = ToSet(Promises) \cup ToSet(Opinions)
<1> DEFINE P(a, b, c, d, e) == <<a, b, c, d, e>>
           O(a, b, c, d) == <<a, b, c, d>>
<1>1. ASSUME NEW a, NEW b, NEW c, NEW d, NEW e, NEW f, NEW g, NEW h, NEW i
      PROVE  /\ ToSet(P(a, b, c, d, e)) = {a, b, c, d, e} /\ ToSet(O(f, g, h, i)) = {f, g, h, i}
             /\ ToSet(P(a, b, c, d, e) \o O(f, g, h, i))
                    = ToSet(P(a, b, c, d, e)) \cup ToSet(O(f, g, h, i))
  BY DEF ToSet
<1>2. Promises = P(IllBy, IWillBy, PromisedBy, NameWillBy, Owes)
  BY DEF Promises
<1>3. Opinions = O(IThink, IBelieve, NotSure, Revision)
  BY DEF Opinions
<1> HIDE DEF P, O
<1> QED
  BY <1>1, <1>2, <1>3

(* They are patterns, and all but NotSure tell their ways apart at once.     *)
LEMMA PatternsAre ==
    ASSUME NEW p \in ToSet(Promises \o Opinions)
    PROVE  IsPattern(p) /\ (p # NotSure => Uniform(p))
<1> DEFINE Fit(q) == IsPattern(q) /\ Uniform(q)
<1>0. \A a, b, c, d : IsOpening(<<a>>) /\ IsOpening(<<a, b>>) /\ IsOpening(<<a, b, c>>)
                                       /\ IsOpening(<<a, b, c, d>>)
  BY DEF IsOpening
<1>1. {1} = 1 .. 1 /\ {1, 2} = 1 .. 2
  OBVIOUS
<1>2. ASSUME NEW q, NEW o, q.close \in Closes, DOMAIN q.ways = {1}, q.ways[1].opens = o, IsOpening(o)
      PROVE  Fit(q)
  <2>1. IsPattern(q)
    BY <1>1, <1>2 DEF IsPattern
  <2> QED
    BY <1>2, <2>1 DEF Uniform
<1>3. ASSUME NEW q, NEW o, NEW r, q.close \in Closes, DOMAIN q.ways = {1, 2},
             q.ways[1].opens = o, q.ways[2].opens = r, IsOpening(o), IsOpening(r)
      PROVE  /\ IsPattern(q)
             /\ (Len(o) = Len(r) \/ (Apart(o, r) /\ Apart(r, o))) /\ o[1] \cap r[1] = {} => Uniform(q)
  <2>1. IsPattern(q)
    <3>1. DOMAIN q.ways = 1 .. 2 /\ 2 \in Nat
      BY <1>1, <1>3
    <3>2. \A w \in DOMAIN q.ways : IsOpening(q.ways[w].opens)
      BY <1>3
    <3> QED
      BY <1>3, <3>1, <3>2 DEF IsPattern
  <2>2. ASSUME Len(o) = Len(r) \/ (Apart(o, r) /\ Apart(r, o)), o[1] \cap r[1] = {}
        PROVE  Uniform(q)
    <3> SUFFICES ASSUME NEW v \in {1, 2}, NEW w \in {1, 2}
                 PROVE  /\ \/ Len(q.ways[v].opens) = Len(q.ways[w].opens)
                           \/ Apart(q.ways[v].opens, q.ways[w].opens)
                        /\ v # w => q.ways[v].opens[1] \cap q.ways[w].opens[1] = {}
      BY <1>3 DEF Uniform
    <3>1. r[1] \cap o[1] = {}
      BY <2>2
    <3>2. \/ Len(q.ways[v].opens) = Len(q.ways[w].opens)
          \/ Apart(q.ways[v].opens, q.ways[w].opens)
      BY <1>3, <2>2
    <3>3. v # w => q.ways[v].opens[1] \cap q.ways[w].opens[1] = {}
      BY <1>3, <2>2, <3>1
    <3> QED
      BY <3>2, <3>3
  <2> QED
    BY <2>1, <2>2
<1> HIDE DEF Fit
<1>4. "by" \in Closes /\ "stop" \in Closes
  BY DEF Closes
<1>5. Fit(IllBy) /\ Fit(IWillBy)
  <2>1. Fit(IllBy)
    <3> DEFINE o == <<{"I'll"}>>
    <3>1. DOMAIN IllBy.ways = {1} /\ IllBy.ways[1].opens = o /\ IllBy.close \in Closes
      BY <1>4, Ways
    <3>2. IsOpening(o)
      BY <1>0
    <3> HIDE DEF o
    <3> QED
      BY <1>2, <3>1, <3>2
  <2>2. Fit(IWillBy)
    <3> DEFINE o == <<{"I"}, {"will"}>>
    <3>1. DOMAIN IWillBy.ways = {1} /\ IWillBy.ways[1].opens = o /\ IWillBy.close \in Closes
      BY <1>4, Ways
    <3>2. IsOpening(o)
      BY <1>0
    <3> HIDE DEF o
    <3> QED
      BY <1>2, <3>1, <3>2
  <2> QED
    BY <2>1, <2>2
<1>6. Fit(PromisedBy) /\ Fit(NameWillBy)
  <2>1. Fit(PromisedBy)
    <3> DEFINE o == <<Tails, {"promised"}>>
    <3>1. DOMAIN PromisedBy.ways = {1} /\ PromisedBy.ways[1].opens = o /\ PromisedBy.close \in Closes
      BY <1>4, Ways
    <3>2. IsOpening(o)
      BY <1>0
    <3> HIDE DEF o
    <3> QED
      BY <1>2, <3>1, <3>2
  <2>2. Fit(NameWillBy)
    <3> DEFINE o == <<Tails, {"will"}>>
    <3>1. DOMAIN NameWillBy.ways = {1} /\ NameWillBy.ways[1].opens = o /\ NameWillBy.close \in Closes
      BY <1>4, Ways
    <3>2. IsOpening(o)
      BY <1>0
    <3> HIDE DEF o
    <3> QED
      BY <1>2, <3>1, <3>2
  <2> QED
    BY <2>1, <2>2
<1>7. Fit(IThink)
  <2> DEFINE o == <<{"I"}, {"think"}>>
  <2>1. DOMAIN IThink.ways = {1} /\ IThink.ways[1].opens = o /\ IThink.close \in Closes
    BY <1>4, Ways
  <2>2. IsOpening(o)
    BY <1>0
  <2> HIDE DEF o
  <2> QED
    BY <1>2, <2>1, <2>2
<1>8. Fit(Owes)
  <2> DEFINE o == <<{"I"}, {"owe"}, Names>>
             r == <<Tails, {"owes"}, {"me"}>>
  <2>1. Len(o) = Len(r) /\ o[1] \cap r[1] = {}
    BY WordsAssumption
  <2>2. IsOpening(o) /\ IsOpening(r)
    BY <1>0
  <2>3. DOMAIN Owes.ways = {1, 2} /\ Owes.ways[1].opens = o /\ Owes.ways[2].opens = r
    BY Ways
  <2>4. Owes.close \in Closes
    BY <1>4, Ways
  <2> HIDE DEF o, r
  <2> QED
    BY <1>3, <2>1, <2>2, <2>3, <2>4 DEF Fit
<1>9. Fit(IBelieve)
  <2> DEFINE o == <<{"I"}, {"believe"}>>
             r == <<{"I'm"}, {"convinced"}>>
  <2>1. Len(o) = Len(r) /\ o[1] \cap r[1] = {}
    OBVIOUS
  <2>2. IsOpening(o) /\ IsOpening(r)
    BY <1>0
  <2>3. DOMAIN IBelieve.ways = {1, 2} /\ IBelieve.ways[1].opens = o /\ IBelieve.ways[2].opens = r
    BY Ways
  <2>4. IBelieve.close \in Closes
    BY <1>4, Ways
  <2> HIDE DEF o, r
  <2> QED
    BY <1>3, <2>1, <2>2, <2>3, <2>4 DEF Fit
<1>10. Fit(Revision)
  <2> DEFINE o == <<{"actually:"}>>
             r == <<{"on"}, {"second"}, {"thought:"}>>
  <2>1. Apart(o, r) /\ Apart(r, o) /\ o[1] \cap r[1] = {}
    <3>1. NL \notin {"on", "actually:"}
      BY WordsAssumption
    <3>2. Len(o) = 1 /\ o[1] = {"actually:"}
      OBVIOUS
    <3>3. Len(r) = 3 /\ r[1] = {"on"} /\ r[2] = {"second"} /\ r[3] = {"thought:"}
      OBVIOUS
    <3> HIDE DEF o, r
    <3>4. {"actually:"} \cap {"on"} = {} /\ {"second"} \cap {"actually:"} = {}
          /\ {"thought:"} \cap {"actually:"} = {} /\ {"on"} \cap {"actually:"} = {}
      OBVIOUS
    <3>5. \A k \in 1 .. Len(o) : o[k] \cap r[1] = {}
      <4>1. \A k \in 1 .. Len(o) : k = 1
        BY <3>2
      <4> QED
        BY <3>2, <3>3, <3>4, <4>1
    <3>6. \A k \in 1 .. Len(r) : r[k] \cap o[1] = {}
      <4>1. \A k \in 1 .. Len(r) : k = 1 \/ k = 2 \/ k = 3
        BY <3>3
      <4> QED
        BY <3>2, <3>3, <3>4, <4>1
    <3> QED
      BY <3>1, <3>2, <3>3, <3>4, <3>5, <3>6 DEF Apart
  <2>2. IsOpening(o) /\ IsOpening(r)
    BY <1>0
  <2>3. DOMAIN Revision.ways = {1, 2} /\ Revision.ways[1].opens = o /\ Revision.ways[2].opens = r
    BY Ways
  <2>4. Revision.close \in Closes
    BY <1>4, Ways
  <2> HIDE DEF o, r
  <2> QED
    BY <1>3, <2>1, <2>2, <2>3, <2>4 DEF Fit
<1>11. IsPattern(NotSure)
  <2> DEFINE o == <<{"I'm"}, {"not"}, {"sure"}, {"about"}>>
             r == <<{"I'm"}, {"not"}, {"sure"}>>
  <2>1. IsOpening(o) /\ IsOpening(r)
    BY <1>0
  <2>2. DOMAIN NotSure.ways = {1, 2} /\ NotSure.ways[1].opens = o /\ NotSure.ways[2].opens = r
    BY Ways
  <2>3. NotSure.close \in Closes
    BY <1>4, Ways
  <2> HIDE DEF o, r
  <2> QED
    BY <1>3, <2>1, <2>2, <2>3
<1>12. p \in {IllBy, IWillBy, PromisedBy, NameWillBy, Owes, IThink, IBelieve, NotSure, Revision}
  BY PatternsListed
<1>13. \A q \in {IllBy, IWillBy, PromisedBy, NameWillBy, Owes, IThink, IBelieve, Revision} : Fit(q)
  BY <1>5, <1>6, <1>7, <1>8, <1>9, <1>10
<1> QED
  BY <1>11, <1>12, <1>13 DEF Fit

-----------------------------------------------------------------------------
(* The invariants.                                                           *)

(* Matches are found, and end where they can.                                *)
LEMMA ExactMatches == ASSUME TextTypeOK PROVE MatchesAreExact
<1> SUFFICES ASSUME NEW p \in ToSet(Promises \o Opinions)
             PROVE  LET found == Found(text, p)
                    IN /\ \A j \in DOMAIN found :
                             /\ j > 1 => found[j].start > found[j - 1].last
                             /\ \A e \in found[j].from + 1 .. found[j].to - 1 :
                                    CloseEnd(text, e, p.close) = Absent
                       /\ \A i \in DOMAIN text :
                             Matching(text, i, p) # {} =>
                                 \E j \in DOMAIN found : i \in found[j].start .. found[j].last
  BY DEF MatchesAreExact
<1>0. text \in Seq(vocabulary) /\ IsPattern(p) /\ p.close \in Closes
  BY PatternsAre DEF TextTypeOK, IsPattern
<1> DEFINE found == Found(text, p)
<1>1. found \in Seq(Match) /\ AllFrom(text, p, 1, found)
  BY <1>0, FoundAll
<1>2. \A m \in ToSet(found) : IsMatch(text, m.start, p, m) /\ m \in Match
  BY <1>0, FoundIsMatch
<1> HIDE DEF found
<1>3. ASSUME NEW j \in DOMAIN found, j > 1 PROVE found[j].start > found[j - 1].last
  BY <1>1, <1>3 DEF AllFrom
<1>4. ASSUME NEW j \in DOMAIN found, NEW e \in found[j].from + 1 .. found[j].to - 1
      PROVE  CloseEnd(text, e, p.close) = Absent
  <2> DEFINE m == found[j]
  <2>1. IsMatch(text, m.start, p, m) /\ m \in Match
    BY <1>2 DEF ToSet
  <2> HIDE DEF m
  <2>2. /\ m.to \in Ends(text, m.from, p.close)
        /\ \A f \in Ends(text, m.from, p.close) : m.to <= f
        /\ m.start < m.from /\ m.start \in Nat /\ m.from \in Nat /\ m.to \in Nat
    BY <2>1 DEF IsMatch, Match
  <2>3. m.from \in Nat \ {0}
    BY <2>2
  <2>4. m.to \in m.from + 1 .. Len(text) /\ \A k \in m.from .. m.to - 1 : text[k] # NL
    BY <1>0, <2>2, <2>3, EndsAre
  <2>5. e \in m.from + 1 .. m.to - 1
    BY DEF m
  <2>6. e \in m.from + 1 .. Len(text) /\ \A k \in m.from .. e - 1 : text[k] # NL
    BY <1>0, <2>2, <2>4, <2>5
  <2>7. e \notin Ends(text, m.from, p.close)
    BY <2>2, <2>5
  <2> QED
    BY <1>0, <2>3, <2>6, <2>7, EndsAre
<1>5. ASSUME NEW i \in DOMAIN text, Matching(text, i, p) # {}
      PROVE  \E j \in DOMAIN found : i \in found[j].start .. found[j].last
  <2>1. i \in 1 .. Len(text) /\ DOMAIN found = 1 .. Len(found)
    BY <1>0, <1>1
  <2> QED
    BY <1>1, <1>5, <2>1 DEF AllFrom
<1> QED
  BY <1>3, <1>4, <1>5 DEF found

(* A text begins with its front.                                             *)
LEMMA FrontBegins ==
    ASSUME NEW W, NEW u \in Seq(W), u # <<>>
    PROVE  Front(u) \in Seq(W) /\ Begins(Front(u), u)
<1> DEFINE n == Len(u) - 1
           t == SubSeq(u, 1, n)
<1>1. n \in Nat /\ Len(u) = n + 1
  OBVIOUS
<1> HIDE DEF n
<1>2. Len(t) = n /\ t \in Seq(W)
  BY <1>1
<1>3. \A k \in 1 .. n : t[k] = u[k]
  BY <1>1
<1>4. Front(u) = t
  BY DEF Front, n
<1> HIDE DEF t
<1> QED
  BY <1>1, <1>2, <1>3, <1>4 DEF Begins

(* What was found stays found.                                               *)
LEMMA StandingMatches == ASSUME TextTypeOK PROVE MatchesStand
<1> SUFFICES ASSUME text # <<>>, NEW p \in ToSet(Promises \o Opinions) \ {NotSure}
             PROVE  IsPrefix(Found(Front(text), p), Found(text, p))
  BY DEF MatchesStand
<1> DEFINE t == Front(text)
<1>0. text \in Seq(vocabulary) /\ IsPattern(p) /\ Uniform(p)
  BY PatternsAre DEF TextTypeOK
<1>1. t \in Seq(vocabulary) /\ Begins(t, text)
  BY <1>0, FrontBegins
<1> HIDE DEF t
<1> DEFINE s == Found(t, p)
           r == Found(text, p)
<1>2. Leads(s, r)
  BY <1>0, <1>1, FoundLeads
<1>3. s \in Seq(Match) /\ r \in Seq(Match)
  BY <1>0, <1>1, FoundAll
<1> HIDE DEF s, r
<1>4. SubSeq(s, 1, Len(s)) = SubSeq(r, 1, Len(s))
  BY <1>2, <1>3 DEF Leads
<1> QED
  BY <1>2, <1>4 DEF IsPrefix, Leads, s, r, t

-----------------------------------------------------------------------------
(* One thing said is recorded once: a body tells its pattern by the words    *)
(* before it.                                                                *)

(* a is the place of the last word before f.                                 *)
Before(t, f, a) == a \in 1 .. f - 1 /\ t[a] # NL /\ \A k \in a + 1 .. f - 1 : t[k] = NL

LastWord(t, f, w) == \E a \in Nat : Before(t, f, a) /\ t[a] = w

LastTwo(t, f, v, w) ==
    \E a, b \in Nat : Before(t, f, a) /\ t[a] = w /\ Before(t, a, b) /\ t[b] = v

(* There is one last word.                                                   *)
LEMMA BeforeOne ==
    ASSUME NEW t, NEW f \in Nat, NEW a \in Nat, NEW b \in Nat, Before(t, f, a), Before(t, f, b)
    PROVE  a = b
<1>1. ~ (a < b) /\ ~ (b < a)
  BY DEF Before
<1> QED
  BY <1>1

(* Words before a place are the only ones.                                   *)
LEMMA LastOnce ==
    ASSUME NEW t, NEW f \in Nat, NEW v, NEW w, NEW x, NEW y
    PROVE  /\ LastWord(t, f, w) /\ LastWord(t, f, x) => w = x
           /\ LastTwo(t, f, v, w) => LastWord(t, f, w)
           /\ LastTwo(t, f, v, w) /\ LastTwo(t, f, x, y) => v = x /\ w = y
<1>1. LastWord(t, f, w) /\ LastWord(t, f, x) => w = x
  BY BeforeOne DEF LastWord
<1>2. LastTwo(t, f, v, w) => LastWord(t, f, w)
  BY DEF LastTwo, LastWord
<1>3. ASSUME LastTwo(t, f, v, w), LastTwo(t, f, x, y) PROVE v = x /\ w = y
  <2>1. PICK a \in Nat, b \in Nat : Before(t, f, a) /\ t[a] = w /\ Before(t, a, b) /\ t[b] = v
    BY <1>3 DEF LastTwo
  <2>2. PICK c \in Nat, d \in Nat : Before(t, f, c) /\ t[c] = y /\ Before(t, c, d) /\ t[d] = x
    BY <1>3 DEF LastTwo
  <2>3. a = c
    BY <2>1, <2>2, BeforeOne
  <2>4. b = d
    BY <2>1, <2>2, <2>3, BeforeOne
  <2> QED
    BY <2>1, <2>2, <2>3, <2>4
<1> QED
  BY <1>1, <1>2, <1>3

(* Skip goes from a word over line ends only.                                *)
LEMMA SkipBefore ==
    ASSUME NEW W, NEW t \in Seq(W), NEW n \in 1 .. Len(t), t[n] # NL
    PROVE  Before(t, Skip(t, n + 1), n)
<1> DEFINE m == n + 1
<1>1. m \in Nat \ {0} /\ m <= Len(t) + 1
  OBVIOUS
<1> HIDE DEF m
<1>2. Skip(t, m) \in 1 .. Len(t) + 1
  BY <1>1, Skips
<1>3. m <= Skip(t, m)
  BY <1>1, Skips
<1>4. \A j \in m .. Skip(t, m) - 1 : t[j] = NL
  BY <1>1, Skips
<1> QED
  BY <1>2, <1>3, <1>4 DEF Before, m

(* The opening words of a match stand before its body, one before the other. *)
LEMMA MatchWords ==
    ASSUME NEW W, NEW t \in Seq(W), NEW p, IsPattern(p), NEW m \in Match,
           m.start \in 1 .. Len(t), IsMatch(t, m.start, p, m),
           NL \notin p.ways[m.way].opens[1]
    PROVE  LET o == p.ways[m.way].opens
               at == PlacesOf(t, m.start, o)
           IN /\ m.way \in DOMAIN p.ways /\ IsOpening(o)
              /\ \A k \in 1 .. Len(o) : t[at[k]] \in o[k]
              /\ LastWord(t, m.from, t[at[Len(o)]])
              /\ Len(o) >= 2 => LastTwo(t, m.from, t[at[Len(o) - 1]], t[at[Len(o)]])
<1> DEFINE i == m.start
           o == p.ways[m.way].opens
           at == PlacesOf(t, i, o)
           N == Len(o)
<1>1. m.way \in Matching(t, i, p) /\ m.from = BodyFrom(t, i, o) /\ i \in Nat \ {0} /\ m.from \in Nat
  BY DEF IsMatch, Match
<1>2. m.way \in DOMAIN p.ways /\ IsOpening(o) /\ Opened(t, i, o)
  BY <1>1, MatchingIs
<1>3. NL \notin o[1]
  OBVIOUS
<1> HIDE DEF o
<1>4. N \in Nat \ {0} /\ DOMAIN o = 1 .. N /\ N \in 1 .. N
  BY <1>2 DEF IsOpening
<1>5. m.from = Skip(t, at[N] + 1)
  BY <1>1, <1>2, BodyOpens
<1>6. /\ at \in [1 .. N -> Nat \ {0}] /\ at[1] = i
      /\ \A k \in 2 .. N : at[k] = Skip(t, at[k - 1] + 1)
  BY <1>1, <1>2, PlacesAre
<1>7. \A k \in 1 .. N : at[k] <= Len(t) /\ t[at[k]] \in o[k]
  BY <1>2, <1>4 DEF Opened
<1> HIDE DEF at, i
<1>8. ASSUME NEW k \in 1 .. N PROVE t[at[k]] # NL /\ at[k] \in 1 .. Len(t)
  <2>1. at[k] \in 1 .. Len(t)
    BY <1>6, <1>7
  <2>2. CASE k = 1
    BY <1>3, <1>7, <2>1, <2>2
  <2>3. CASE k # 1
    <3>1. k \in 2 .. N /\ k - 1 \in 1 .. N
      BY <1>4, <2>3
    <3> DEFINE n == at[k - 1] + 1
    <3>2. n \in Nat \ {0} /\ at[k] = Skip(t, n)
      BY <1>6, <3>1
    <3> HIDE DEF n
    <3>3. Skip(t, n) <= Len(t)
      BY <1>7, <3>2
    <3> QED
      BY <2>1, <3>2, <3>3, Skips
  <2> QED
    BY <2>2, <2>3
<1>9. Before(t, m.from, at[N])
  <2> DEFINE n == at[N]
  <2>1. n \in 1 .. Len(t) /\ t[n] # NL
    BY <1>4, <1>8
  <2> HIDE DEF n
  <2>2. Before(t, Skip(t, n + 1), n)
    BY <2>1, SkipBefore
  <2> QED
    BY <1>5, <2>2 DEF n
<1>10. LastWord(t, m.from, t[at[N]])
  BY <1>4, <1>6, <1>9 DEF LastWord
<1>11. ASSUME N >= 2 PROVE LastTwo(t, m.from, t[at[N - 1]], t[at[N]])
  <2> DEFINE n == at[N - 1]
  <2>0. N - 1 \in 1 .. N /\ N \in 2 .. N
    BY <1>4, <1>11
  <2>1. n \in 1 .. Len(t) /\ t[n] # NL
    BY <1>8, <2>0
  <2>2. at[N] = Skip(t, n + 1)
    BY <1>6, <2>0
  <2> HIDE DEF n
  <2>3. Before(t, Skip(t, n + 1), n)
    BY <2>1, SkipBefore
  <2>4. Before(t, at[N], n)
    BY <2>2, <2>3
  <2>5. at[N] \in Nat /\ n \in Nat
    BY <1>4, <1>6, <2>1
  <2>6. LastTwo(t, m.from, t[n], t[at[N]])
    BY <1>9, <2>4, <2>5 DEF LastTwo
  <2> QED
    BY <2>6 DEF n
<1> QED
  BY <1>2, <1>7, <1>10, <1>11 DEF at, o, i

(* The same of what is found.                                                *)
LEMMA FoundWords ==
    ASSUME NEW W, NEW t \in Seq(W), NEW p, IsPattern(p), NEW m \in ToSet(Found(t, p)),
           NEW o, o = p.ways[m.way].opens, NL \notin o[1], NEW N, N = Len(o),
           NEW at, at = PlacesOf(t, m.start, o)
    PROVE  /\ \A k \in 1 .. N : t[at[k]] \in o[k]
           /\ LastWord(t, m.from, t[at[N]])
           /\ N >= 2 => LastTwo(t, m.from, t[at[N - 1]], t[at[N]])
<1>1. /\ m \in Match /\ m.start \in 1 .. Len(t) /\ IsMatch(t, m.start, p, m)
  BY FoundIsMatch
<1> QED
  BY <1>1, MatchWords

(* The way of a match is one of its pattern's.                               *)
LEMMA FoundWay ==
    ASSUME NEW W, NEW t \in Seq(W), NEW p, IsPattern(p), NEW m \in ToSet(Found(t, p))
    PROVE  m.way \in DOMAIN p.ways
<1>1. /\ m.start \in Nat \ {0} /\ m.way \in Matching(t, m.start, p)
  BY FoundIsMatch DEF IsMatch
<1> QED
  BY <1>1, MatchingIs

(* The words before the body of a match of each promise.                     *)
LEMMA PromiseWords ==
    ASSUME NEW W, NEW t \in Seq(W)
    PROVE  /\ \A m \in ToSet(Found(t, IllBy)) : LastWord(t, m.from, "I'll")
           /\ \A m \in ToSet(Found(t, IWillBy)) : LastTwo(t, m.from, "I", "will")
           /\ \A m \in ToSet(Found(t, PromisedBy)) :
                  \E v \in Tails : LastTwo(t, m.from, v, "promised")
           /\ \A m \in ToSet(Found(t, NameWillBy)) :
                  \E v \in Tails : LastTwo(t, m.from, v, "will")
           /\ \A m \in ToSet(Found(t, Owes)) :
                  \/ LastTwo(t, m.from, "owes", "me")
                  \/ \E w \in Names : /\ LastTwo(t, m.from, "owe", w)
                                      /\ Commitment(t, Owes, m, 0, 0).counterpart = w
<1>1. /\ IsPattern(IllBy) /\ IsPattern(IWillBy) /\ IsPattern(PromisedBy)
      /\ IsPattern(NameWillBy) /\ IsPattern(Owes)
  BY PatternsListed, PatternsAre
<1>2. NL # "I'll" /\ NL # "I" /\ NL \notin Tails /\ "I'll" \notin Names
  BY WordsAssumption
<1>3. ASSUME NEW m \in ToSet(Found(t, IllBy)) PROVE LastWord(t, m.from, "I'll")
  <2> DEFINE o == IllBy.ways[m.way].opens
             at == PlacesOf(t, m.start, o)
             N == 1
  <2>1. m.way \in DOMAIN IllBy.ways
    BY <1>1, FoundWay
  <2>2. o = <<{"I'll"}>>
    BY <2>1, Ways
  <2>3. Len(o) = N /\ NL \notin o[1] /\ o[1] = {"I'll"}
    BY <1>2, <2>2
  <2> HIDE DEF o, at, N
  <2>4. /\ \A k \in 1 .. N : t[at[k]] \in o[k]
        /\ LastWord(t, m.from, t[at[N]])
        /\ N >= 2 => LastTwo(t, m.from, t[at[N - 1]], t[at[N]])
    BY <1>1, <2>3, FoundWords DEF o, at
  <2> QED
    BY <2>3, <2>4 DEF N
<1>4. ASSUME NEW m \in ToSet(Found(t, IWillBy)) PROVE LastTwo(t, m.from, "I", "will")
  <2> DEFINE o == IWillBy.ways[m.way].opens
             at == PlacesOf(t, m.start, o)
             N == 2
  <2>1. m.way \in DOMAIN IWillBy.ways
    BY <1>1, FoundWay
  <2>2. o = <<{"I"}, {"will"}>>
    BY <2>1, Ways
  <2>3. Len(o) = N /\ NL \notin o[1] /\ o[1] = {"I"} /\ o[2] = {"will"}
    BY <1>2, <2>2
  <2> HIDE DEF o, at, N
  <2>4. /\ \A k \in 1 .. N : t[at[k]] \in o[k]
        /\ LastWord(t, m.from, t[at[N]])
        /\ N >= 2 => LastTwo(t, m.from, t[at[N - 1]], t[at[N]])
    BY <1>1, <2>3, FoundWords DEF o, at
  <2> QED
    BY <2>3, <2>4 DEF N
<1>5. ASSUME NEW m \in ToSet(Found(t, PromisedBy))
      PROVE  \E v \in Tails : LastTwo(t, m.from, v, "promised")
  <2> DEFINE o == PromisedBy.ways[m.way].opens
             at == PlacesOf(t, m.start, o)
             N == 2
  <2>1. m.way \in DOMAIN PromisedBy.ways
    BY <1>1, FoundWay
  <2>2. o = <<Tails, {"promised"}>>
    BY <2>1, Ways
  <2>3. Len(o) = N /\ NL \notin o[1] /\ o[1] = Tails /\ o[2] = {"promised"}
    BY <1>2, <2>2
  <2> HIDE DEF o, at, N
  <2>4. /\ \A k \in 1 .. N : t[at[k]] \in o[k]
        /\ LastWord(t, m.from, t[at[N]])
        /\ N >= 2 => LastTwo(t, m.from, t[at[N - 1]], t[at[N]])
    BY <1>1, <2>3, FoundWords DEF o, at
  <2> QED
    BY <2>3, <2>4 DEF N
<1>6. ASSUME NEW m \in ToSet(Found(t, NameWillBy))
      PROVE  \E v \in Tails : LastTwo(t, m.from, v, "will")
  <2> DEFINE o == NameWillBy.ways[m.way].opens
             at == PlacesOf(t, m.start, o)
             N == 2
  <2>1. m.way \in DOMAIN NameWillBy.ways
    BY <1>1, FoundWay
  <2>2. o = <<Tails, {"will"}>>
    BY <2>1, Ways
  <2>3. Len(o) = N /\ NL \notin o[1] /\ o[1] = Tails /\ o[2] = {"will"}
    BY <1>2, <2>2
  <2> HIDE DEF o, at, N
  <2>4. /\ \A k \in 1 .. N : t[at[k]] \in o[k]
        /\ LastWord(t, m.from, t[at[N]])
        /\ N >= 2 => LastTwo(t, m.from, t[at[N - 1]], t[at[N]])
    BY <1>1, <2>3, FoundWords DEF o, at
  <2> QED
    BY <2>3, <2>4 DEF N
<1>7. ASSUME NEW m \in ToSet(Found(t, Owes))
      PROVE  \/ LastTwo(t, m.from, "owes", "me")
             \/ \E w \in Names : /\ LastTwo(t, m.from, "owe", w)
                                 /\ Commitment(t, Owes, m, 0, 0).counterpart = w
  <2> DEFINE o == Owes.ways[m.way].opens
             at == PlacesOf(t, m.start, o)
             N == 3
  <2>1. m.way \in {1, 2}
    BY <1>1, FoundWay, Ways
  <2>2. \/ /\ o = <<{"I"}, {"owe"}, Names>>
           /\ Owes.ways[m.way].owner = "user" /\ Owes.ways[m.way].name = 3
        \/ o = <<Tails, {"owes"}, {"me"}>>
    BY <2>1, Ways
  <2>3. /\ Len(o) = N /\ NL \notin o[1]
        /\ \/ /\ o[2] = {"owe"} /\ o[3] = Names
              /\ Owes.ways[m.way].owner = "user" /\ Owes.ways[m.way].name = 3
           \/ o[2] = {"owes"} /\ o[3] = {"me"}
    <3>1. CASE o = <<Tails, {"owes"}, {"me"}>>
      BY <1>2, <3>1
    <3>2. CASE /\ o = <<{"I"}, {"owe"}, Names>>
               /\ Owes.ways[m.way].owner = "user" /\ Owes.ways[m.way].name = 3
      BY <1>2, <3>2
    <3> QED
      BY <2>2, <3>1, <3>2
  <2>4. Owes.ways[m.way].owner = "user" /\ Owes.ways[m.way].name = 3
            => Commitment(t, Owes, m, 0, 0).counterpart = t[at[3]]
    <3>1. 3 # Absent
      BY WordsAssumption
    <3> QED
      BY <3>1 DEF Commitment
  <2> HIDE DEF o, at, N
  <2>5. /\ \A k \in 1 .. N : t[at[k]] \in o[k]
        /\ N >= 2 => LastTwo(t, m.from, t[at[N - 1]], t[at[N]])
    BY <1>1, <2>3, FoundWords DEF o, at
  <2>6. t[at[2]] \in o[2] /\ t[at[3]] \in o[3] /\ LastTwo(t, m.from, t[at[2]], t[at[3]])
    BY <2>5 DEF N
  <2> QED
    BY <2>3, <2>4, <2>6
<1> QED
  BY <1>3, <1>4, <1>5, <1>6, <1>7

(* The last word before the body of a match of each opinion.                 *)
LEMMA OpinionWords ==
    ASSUME NEW W, NEW t \in Seq(W)
    PROVE  /\ \A m \in ToSet(Found(t, IThink)) : LastWord(t, m.from, "think")
           /\ \A m \in ToSet(Found(t, IBelieve)) :
                  LastWord(t, m.from, "believe") \/ LastWord(t, m.from, "convinced")
           /\ \A m \in ToSet(Found(t, NotSure)) :
                  LastWord(t, m.from, "about") \/ LastWord(t, m.from, "sure")
           /\ \A m \in ToSet(Found(t, Revision)) :
                  LastWord(t, m.from, "actually:") \/ LastWord(t, m.from, "thought:")
<1>1. IsPattern(IThink) /\ IsPattern(IBelieve) /\ IsPattern(NotSure) /\ IsPattern(Revision)
  BY PatternsListed, PatternsAre
<1>2. NL # "I" /\ NL # "I'm" /\ NL # "actually:" /\ NL # "on"
  BY WordsAssumption
<1>3. ASSUME NEW m \in ToSet(Found(t, IThink)) PROVE LastWord(t, m.from, "think")
  <2> DEFINE o == IThink.ways[m.way].opens
             at == PlacesOf(t, m.start, o)
             N == 2
  <2>1. m.way \in DOMAIN IThink.ways
    BY <1>1, FoundWay
  <2>2. o = <<{"I"}, {"think"}>>
    BY <2>1, Ways
  <2>3. Len(o) = N /\ NL \notin o[1] /\ o[2] = {"think"}
    BY <1>2, <2>2
  <2> HIDE DEF o, at, N
  <2>4. /\ \A k \in 1 .. N : t[at[k]] \in o[k]
        /\ LastWord(t, m.from, t[at[N]])
        /\ N >= 2 => LastTwo(t, m.from, t[at[N - 1]], t[at[N]])
    BY <1>1, <2>3, FoundWords DEF o, at
  <2> QED
    BY <2>3, <2>4 DEF N
<1>4. ASSUME NEW m \in ToSet(Found(t, IBelieve))
      PROVE  LastWord(t, m.from, "believe") \/ LastWord(t, m.from, "convinced")
  <2> DEFINE o == IBelieve.ways[m.way].opens
             at == PlacesOf(t, m.start, o)
             N == 2
  <2>1. m.way \in DOMAIN IBelieve.ways
    BY <1>1, FoundWay
  <2>2. o = <<{"I"}, {"believe"}>> \/ o = <<{"I'm"}, {"convinced"}>>
    BY <2>1, Ways
  <2>3. Len(o) = N /\ NL \notin o[1] /\ (o[2] = {"believe"} \/ o[2] = {"convinced"})
    <3>1. CASE o = <<{"I"}, {"believe"}>>
      BY <1>2, <3>1
    <3>2. CASE o = <<{"I'm"}, {"convinced"}>>
      BY <1>2, <3>2
    <3> QED
      BY <2>2, <3>1, <3>2
  <2> HIDE DEF o, at, N
  <2>4. /\ \A k \in 1 .. N : t[at[k]] \in o[k]
        /\ LastWord(t, m.from, t[at[N]])
        /\ N >= 2 => LastTwo(t, m.from, t[at[N - 1]], t[at[N]])
    BY <1>1, <2>3, FoundWords DEF o, at
  <2> QED
    BY <2>3, <2>4 DEF N
<1>5. ASSUME NEW m \in ToSet(Found(t, NotSure))
      PROVE  LastWord(t, m.from, "about") \/ LastWord(t, m.from, "sure")
  <2> DEFINE o == NotSure.ways[m.way].opens
             at == PlacesOf(t, m.start, o)
             N == Len(o)
  <2>1. m.way \in DOMAIN NotSure.ways
    BY <1>1, FoundWay
  <2>2. \/ o = <<{"I'm"}, {"not"}, {"sure"}, {"about"}>>
        \/ o = <<{"I'm"}, {"not"}, {"sure"}>>
    BY <2>1, Ways
  <2>3. Len(o) = N /\ NL \notin o[1] /\ ((N = 4 /\ o[4] = {"about"}) \/ (N = 3 /\ o[3] = {"sure"}))
    <3>1. CASE o = <<{"I'm"}, {"not"}, {"sure"}, {"about"}>>
      BY <1>2, <3>1
    <3>2. CASE o = <<{"I'm"}, {"not"}, {"sure"}>>
      BY <1>2, <3>2
    <3> QED
      BY <2>2, <3>1, <3>2
  <2> HIDE DEF o, at, N
  <2>4. /\ \A k \in 1 .. N : t[at[k]] \in o[k]
        /\ LastWord(t, m.from, t[at[N]])
        /\ N >= 2 => LastTwo(t, m.from, t[at[N - 1]], t[at[N]])
    BY <1>1, <2>3, FoundWords DEF o, at
  <2> QED
    BY <2>3, <2>4
<1>6. ASSUME NEW m \in ToSet(Found(t, Revision))
      PROVE  LastWord(t, m.from, "actually:") \/ LastWord(t, m.from, "thought:")
  <2> DEFINE o == Revision.ways[m.way].opens
             at == PlacesOf(t, m.start, o)
             N == Len(o)
  <2>1. m.way \in DOMAIN Revision.ways
    BY <1>1, FoundWay
  <2>2. \/ o = <<{"actually:"}>>
        \/ o = <<{"on"}, {"second"}, {"thought:"}>>
    BY <2>1, Ways
  <2>3. /\ Len(o) = N /\ NL \notin o[1]
        /\ (N = 1 /\ o[1] = {"actually:"}) \/ (N = 3 /\ o[3] = {"thought:"})
    <3>1. CASE o = <<{"actually:"}>>
      BY <1>2, <3>1
    <3>2. CASE o = <<{"on"}, {"second"}, {"thought:"}>>
      BY <1>2, <3>2
    <3> QED
      BY <2>2, <3>1, <3>2
  <2> HIDE DEF o, at, N
  <2>4. /\ \A k \in 1 .. N : t[at[k]] \in o[k]
        /\ LastWord(t, m.from, t[at[N]])
        /\ N >= 2 => LastTwo(t, m.from, t[at[N - 1]], t[at[N]])
    BY <1>1, <2>3, FoundWords DEF o, at
  <2> QED
    BY <2>3, <2>4
<1> QED
  BY <1>3, <1>4, <1>5, <1>6

(* A "by" pattern and a "stop" pattern end a body together at a line's end   *)
(* only.                                                                     *)
LEMMA BothClose ==
    ASSUME NEW W, NEW t \in Seq(W), NEW e \in 1 .. Len(t),
           CloseEnd(t, e, "by") # Absent, CloseEnd(t, e, "stop") # Absent
    PROVE  t[e] = NL
<1>1. t[e] \in {".", NL} /\ t[Skip(t, e)] = "by"
  BY CloseIs DEF Closes
<1>2. ASSUME t[e] # NL PROVE Skip(t, e) = e
  <2>1. e \in Nat \ {0} /\ e <= Len(t) + 1
    OBVIOUS
  <2>2. e <= Skip(t, e) /\ \A j \in e .. Skip(t, e) - 1 : t[j] = NL
    BY <2>1, Skips
  <2>3. Skip(t, e) \in Nat
    BY <2>1, Skips
  <2> QED
    BY <1>2, <2>2, <2>3
<1> QED
  BY <1>1, <1>2

(* No two promises, and no two opinions, have the same body, but for a debt  *)
(* to Will or Promised.                                                      *)
LEMMA SaidTwice == ASSUME TextTypeOK PROVE SaidOnce
<1>1. PICK W : text \in Seq(W)
  BY DEF TextTypeOK
<1>2. \A p \in ToSet(Promises \o Opinions) : IsPattern(p)
  BY PatternsAre
<1>3. "I'll" \notin Names /\ "I" \notin Tails
  BY WordsAssumption
<1> DEFINE Once(p, q) ==
        \A m \in ToSet(Found(text, p)), n \in ToSet(Found(text, q)) :
            m.from = n.from /\ m.to = n.to =>
                /\ q = Owes /\ text[m.to] = NL
                /\ Commitment(text, Owes, n, 0, 0).counterpart \in {"will", "promised"}
<1>4. ASSUME NEW p \in ToSet(Promises \o Opinions), NEW m \in ToSet(Found(text, p))
      PROVE  /\ m.from \in Nat /\ m.to \in 1 .. Len(text)
             /\ CloseEnd(text, m.to, p.close) # Absent
  <2>1. /\ m \in Match /\ m.start \in 1 .. Len(text) /\ IsMatch(text, m.start, p, m)
    BY <1>1, <1>2, FoundIsMatch
  <2>2. m.from \in Nat /\ m.from > 0 /\ m.to \in Ends(text, m.from, p.close)
    BY <2>1 DEF Match, IsMatch
  <2>3. p.close \in Closes
    BY <1>2 DEF IsPattern
  <2>4. /\ m.to \in m.from + 1 .. Len(text) /\ CloseEnd(text, m.to, p.close) # Absent
    <3> DEFINE f == m.from
               e == m.to
               c == p.close
    <3>1. f \in Nat \ {0} /\ c \in Closes /\ e \in Ends(text, f, c)
      BY <2>2, <2>3
    <3> HIDE DEF f, e, c
    <3>2. /\ e \in f + 1 .. Len(text) /\ CloseEnd(text, e, c) # Absent
      BY <1>1, <3>1, EndsAre
    <3> QED
      BY <3>2 DEF f, e, c
  <2> QED
    BY <2>2, <2>4
<1>5. /\ \A m \in ToSet(Found(text, IllBy)) : LastWord(text, m.from, "I'll")
      /\ \A m \in ToSet(Found(text, IWillBy)) : LastTwo(text, m.from, "I", "will")
      /\ \A m \in ToSet(Found(text, PromisedBy)) :
             \E v \in Tails : LastTwo(text, m.from, v, "promised")
      /\ \A m \in ToSet(Found(text, NameWillBy)) :
             \E v \in Tails : LastTwo(text, m.from, v, "will")
      /\ \A m \in ToSet(Found(text, Owes)) :
             \/ LastTwo(text, m.from, "owes", "me")
             \/ \E w \in Names : /\ LastTwo(text, m.from, "owe", w)
                                 /\ Commitment(text, Owes, m, 0, 0).counterpart = w
  BY <1>1, PromiseWords
<1>6. /\ \A m \in ToSet(Found(text, IThink)) : LastWord(text, m.from, "think")
      /\ \A m \in ToSet(Found(text, IBelieve)) :
             LastWord(text, m.from, "believe") \/ LastWord(text, m.from, "convinced")
      /\ \A m \in ToSet(Found(text, NotSure)) :
             LastWord(text, m.from, "about") \/ LastWord(text, m.from, "sure")
      /\ \A m \in ToSet(Found(text, Revision)) :
             LastWord(text, m.from, "actually:") \/ LastWord(text, m.from, "thought:")
  BY <1>1, OpinionWords
<1>7. /\ {IllBy, IWillBy, PromisedBy, NameWillBy, Owes} \subseteq ToSet(Promises \o Opinions)
      /\ {IThink, IBelieve, NotSure, Revision} \subseteq ToSet(Promises \o Opinions)
  BY PatternsListed
<1>8. /\ Once(IThink, IBelieve) /\ Once(IThink, NotSure) /\ Once(IThink, Revision)
      /\ Once(IBelieve, NotSure) /\ Once(IBelieve, Revision) /\ Once(NotSure, Revision)
  <2> DEFINE Says(p, A) == \A m \in ToSet(Found(text, p)) : \E w \in A : LastWord(text, m.from, w)
  <2>1. ASSUME NEW p \in ToSet(Promises \o Opinions), NEW q \in ToSet(Promises \o Opinions),
               NEW A, NEW B, A \cap B = {}, Says(p, A), Says(q, B)
        PROVE  Once(p, q)
    <3>1. SUFFICES ASSUME NEW m \in ToSet(Found(text, p)), NEW n \in ToSet(Found(text, q)),
                          m.from = n.from
                   PROVE  FALSE
      OBVIOUS
    <3> DEFINE f == m.from
    <3>2. f \in Nat
      BY <1>4
    <3>3. PICK v \in A : LastWord(text, f, v)
      BY <2>1
    <3>4. PICK w \in B : LastWord(text, f, w)
      BY <2>1, <3>1
    <3> HIDE DEF f
    <3>5. v = w
      BY <3>2, <3>3, <3>4, LastOnce
    <3> QED
      BY <2>1, <3>5
  <2>2. /\ Says(IThink, {"think"}) /\ Says(IBelieve, {"believe", "convinced"})
        /\ Says(NotSure, {"about", "sure"}) /\ Says(Revision, {"actually:", "thought:"})
    BY <1>6
  <2> HIDE DEF Says, Once
  <2> DEFINE A == {"think"}
             B == {"believe", "convinced"}
             C == {"about", "sure"}
             D == {"actually:", "thought:"}
  <2>3. /\ A \cap B = {} /\ A \cap C = {} /\ A \cap D = {}
        /\ B \cap C = {} /\ B \cap D = {} /\ C \cap D = {}
    OBVIOUS
  <2>4. Says(IThink, A) /\ Says(IBelieve, B) /\ Says(NotSure, C) /\ Says(Revision, D)
    BY <2>2
  <2> HIDE DEF A, B, C, D
  <2> QED
    BY <1>7, <2>1, <2>3, <2>4
<1>9. Once(IllBy, IWillBy) /\ Once(IllBy, PromisedBy) /\ Once(IllBy, NameWillBy)
  BY <1>4, <1>5, <1>7, LastOnce
<1>10. Once(IWillBy, PromisedBy) /\ Once(IWillBy, NameWillBy) /\ Once(PromisedBy, NameWillBy)
  BY <1>3, <1>4, <1>5, <1>7, LastOnce
<1>11. Once(IllBy, Owes) /\ Once(IWillBy, Owes)
  <2>1. ASSUME NEW p \in {IllBy, IWillBy}, NEW m \in ToSet(Found(text, p)),
               NEW n \in ToSet(Found(text, Owes)), m.from = n.from
        PROVE  FALSE
    <3> DEFINE f == m.from
    <3>1. LastWord(text, f, "I'll") \/ LastTwo(text, f, "I", "will")
      BY <1>5
    <3>2. LastTwo(text, f, "owes", "me") \/ \E w \in Names : LastTwo(text, f, "owe", w)
      BY <1>5, <2>1
    <3>3. f \in Nat
      BY <1>4, <1>7
    <3> HIDE DEF f
    <3>4. CASE LastWord(text, f, "I'll")
      BY <1>3, <3>2, <3>3, <3>4, LastOnce
    <3>5. CASE LastTwo(text, f, "I", "will")
      BY <3>2, <3>3, <3>5, LastOnce
    <3> QED
      BY <3>1, <3>4, <3>5
  <2> QED
    BY <2>1
<1>12. ASSUME NEW p \in {PromisedBy, NameWillBy} PROVE Once(p, Owes)
  <2>1. p.close = "by" /\ Owes.close = "stop"
    BY Ways
  <2>2. SUFFICES ASSUME NEW m \in ToSet(Found(text, p)), NEW n \in ToSet(Found(text, Owes)),
                        m.from = n.from, m.to = n.to
                 PROVE  /\ text[m.to] = NL
                        /\ Commitment(text, Owes, n, 0, 0).counterpart \in {"will", "promised"}
    OBVIOUS
  <2>3. m.from \in Nat /\ m.to \in 1 .. Len(text)
    BY <1>4, <1>7
  <2>4. CloseEnd(text, m.to, "by") # Absent /\ CloseEnd(text, m.to, "stop") # Absent
    BY <1>4, <1>7, <2>1, <2>2
  <2>5. text[m.to] = NL
    BY <1>1, <2>3, <2>4, BothClose
  <2>6. \E v \in Tails : LastTwo(text, m.from, v, "promised") \/ LastTwo(text, m.from, v, "will")
    BY <1>5
  <2>7. \/ LastTwo(text, m.from, "owes", "me")
        \/ \E w \in Names : /\ LastTwo(text, m.from, "owe", w)
                            /\ Commitment(text, Owes, n, 0, 0).counterpart = w
    BY <1>5, <2>2
  <2> QED
    BY <2>3, <2>5, <2>6, <2>7, LastOnce
<1>13. ASSUME NEW ps \in {Promises, Opinions}, NEW l \in DOMAIN ps, NEW k \in 1 .. l - 1
       PROVE  k \in DOMAIN ps /\ Once(ps[k], ps[l])
  <2>1. CASE ps = Promises
    <3>1. /\ ps[1] = IllBy /\ ps[2] = IWillBy /\ ps[3] = PromisedBy /\ ps[4] = NameWillBy
          /\ ps[5] = Owes /\ DOMAIN ps = 1 .. 5
      BY <2>1 DEF Promises
    <3>2. <<k, l>> \in {<<1, 2>>, <<1, 3>>, <<1, 4>>, <<1, 5>>, <<2, 3>>, <<2, 4>>, <<2, 5>>,
                        <<3, 4>>, <<3, 5>>, <<4, 5>>}
      BY <3>1
    <3> HIDE DEF Once
    <3> QED
      BY <1>9, <1>10, <1>11, <1>12, <3>1, <3>2
  <2>2. CASE ps = Opinions
    <3>1. /\ ps[1] = IThink /\ ps[2] = IBelieve /\ ps[3] = NotSure /\ ps[4] = Revision
          /\ DOMAIN ps = 1 .. 4
      BY <2>2 DEF Opinions
    <3>2. <<k, l>> \in {<<1, 2>>, <<1, 3>>, <<1, 4>>, <<2, 3>>, <<2, 4>>, <<3, 4>>}
      BY <3>1
    <3> HIDE DEF Once
    <3> QED
      BY <1>8, <3>1, <3>2
  <2> QED
    BY <2>1, <2>2
<1> QED
  BY <1>13 DEF SaidOnce

(* A topic is the first words of its position, two at least if it has them.  *)
LEMMA TopicIs ==
    ASSUME NEW V, NEW x \in Seq(V)
    PROVE  /\ TopicOf(x) \in Seq(V)
           /\ \A k \in 1 .. Len(TopicOf(x)) : k \in 1 .. Len(x) /\ TopicOf(x)[k] = x[k]
           /\ Len(x) >= 2 => Len(TopicOf(x)) >= 2
<1> DEFINE n == Min({TopicWords, Len(x)})
<1>1. n \in {TopicWords, Len(x)} /\ n <= Len(x)
  <2>1. {TopicWords, Len(x)} \in SUBSET Nat /\ {TopicWords, Len(x)} # {}
    BY TextsAssumption
  <2> QED
    BY <2>1, Least
<1>2. TopicOf(x) = SubSeq(x, 1, n)
  BY DEF TopicOf
<1>3. n \in Nat /\ (Len(x) >= 2 => n >= 2)
  BY <1>1, TextsAssumption
<1> HIDE DEF n
<1> QED
  BY <1>1, <1>2, <1>3

(* A doubt keeps its own topic.                                              *)
LEMMA OwnTopics == ASSUME TextTypeOK PROVE DoubtsStandApart
<1>1. PICK W : text \in Seq(W)
  BY DEF TextTypeOK
<1> DEFINE V == W \cup {"not", "sure:"}
<1>2. ASSUME NEW p \in ToSet(Opinions), NEW m \in ToSet(Found(text, p))
      PROVE  /\ Body(text, m) \in Seq(W)
             /\ \A k \in 1 .. Len(Body(text, m)) : Body(text, m)[k] \in ToSet(text)
  <2>1. IsPattern(p)
    BY PatternsListed, PatternsAre
  <2>2. m.from \in Nat /\ m.from > 0 /\ m.to \in Nat /\ m.from < m.to /\ m.to <= Len(text)
    BY <1>1, <2>1, FoundIsMatch DEF IsMatch, Match
  <2> DEFINE f == m.from
             e == m.to - 1
  <2>3. f \in Nat \ {0} /\ e \in Nat /\ e <= Len(text)
    BY <1>1, <2>2
  <2>4. Body(text, m) = SubSeq(text, f, e)
    BY DEF Body
  <2> HIDE DEF f, e
  <2>5. /\ SubSeq(text, f, e) \in Seq(W)
        /\ \A k \in 1 .. Len(SubSeq(text, f, e)) :
               f + k - 1 \in 1 .. Len(text) /\ SubSeq(text, f, e)[k] = text[f + k - 1]
    BY <1>1, <2>3
  <2>6. \A j \in 1 .. Len(text) : text[j] \in ToSet(text)
    BY <1>1 DEF ToSet
  <2> QED
    BY <2>4, <2>5, <2>6
<1>3. ASSUME NEW n \in ToSet(Found(text, NotSure))
      PROVE  /\ Len(Belief(text, NotSure, n).topic) >= 2
             /\ Belief(text, NotSure, n).topic[2] = "sure:"
  <2> DEFINE b == Body(text, n)
             x == Position(text, NotSure, n)
  <2>1. b \in Seq(V)
    <3>1. b \in Seq(W)
      BY <1>2, PatternsListed
    <3> QED
      BY <3>1
  <2>2. x = <<"not", "sure:">> \o b
    BY DEF Position
  <2>3. Belief(text, NotSure, n).topic = TopicOf(x)
    BY DEF Belief
  <2> HIDE DEF b, x
  <2>4. x \in Seq(V) /\ Len(x) >= 2 /\ x[2] = "sure:"
    BY <2>1, <2>2
  <2> HIDE DEF V
  <2>5. /\ Len(TopicOf(x)) \in Nat /\ Len(TopicOf(x)) >= 2
        /\ \A k \in 1 .. Len(TopicOf(x)) : TopicOf(x)[k] = x[k]
    BY <2>4, TopicIs
  <2> QED
    BY <2>3, <2>4, <2>5
<1>4. ASSUME NEW p \in ToSet(Opinions) \ {NotSure}, NEW m \in ToSet(Found(text, p)),
             "sure:" \notin ToSet(text)
      PROVE  ~ (/\ Len(Belief(text, p, m).topic) >= 2
                /\ Belief(text, p, m).topic[2] = "sure:")
  <2> DEFINE x == Body(text, m)
  <2>1. /\ x \in Seq(W)
        /\ \A k \in 1 .. Len(x) : x[k] \in ToSet(text)
    BY <1>2
  <2>2. Position(text, p, m) = x
    <3>1. Position(text, p, m) = <<>> \o x
      BY DEF Position
    <3> HIDE DEF x
    <3> QED
      BY <2>1, <3>1
  <2>3. Belief(text, p, m).topic = TopicOf(x)
    BY <2>2 DEF Belief
  <2> HIDE DEF x
  <2>4. /\ Len(TopicOf(x)) \in Nat
        /\ \A k \in 1 .. Len(TopicOf(x)) : k \in 1 .. Len(x) /\ TopicOf(x)[k] = x[k]
    BY <2>1, TopicIs
  <2> QED
    BY <1>4, <2>1, <2>3, <2>4
<1> QED
  BY <1>3, <1>4 DEF DoubtsStandApart

-----------------------------------------------------------------------------
(* The days.                                                                 *)

(* The first such day from today on.                                         *)
LEMMA NextWeekday ==
    ASSUME NEW local \in Int, NEW day \in 0 .. 6
    PROVE  /\ DaysUntil(local, day) \in 0 .. 6
           /\ Weekday(local + DaysUntil(local, day)) = day
           /\ \A e \in local .. local + DaysUntil(local, day) - 1 : Weekday(e) # day
  BY DEF DaysUntil, Weekday

(* The noons of the days are numbers in the order of the days.               *)
LEMMA Noons ==
    ASSUME NEW x \in Int, NEW n \in Nat
    PROVE  Noon(x) \in Int /\ Noon(x + n) >= Noon(x)
<1>1. DayLength \in Nat /\ DayLength \div 2 \in Int
  BY DaysAssumption
<1>2. ASSUME NEW d \in Nat, NEW h \in Int
      PROVE  x * d + h \in Int /\ (x + n) * d + h >= x * d + h
  <2>1. (x + n) * d = x * d + n * d
    OBVIOUS
  <2>2. n * d >= 0 /\ n * d \in Int /\ x * d \in Int
    OBVIOUS
  <2> QED
    BY <2>1, <2>2
<1> QED
  BY <1>1, <1>2 DEF Noon

(* The day is the one that was named.                                        *)
LEMMA DatesMeant == ASSUME TextTypeOK PROVE DatesAreRight
<1>1. PICK W : text \in Seq(W)
  BY DEF TextTypeOK
<1>2. SUFFICES ASSUME NEW k \in DOMAIN Promises, Found(text, Promises[k]) # <<>>,
                      Last(Found(text, Promises[k])).last = Len(text),
                      Last(text) \in DOMAIN Day,
                      NEW at \in Moments, NEW zone \in Zones
               PROVE  LET named == Day[Last(text)]
                          local == (at + zone) \div DayLength
                          due   == Commitment(text, Promises[k], Last(Found(text, Promises[k])),
                                              at, zone).due
                      IN /\ named.kind = "unknown" <=> due = Absent
                         /\ named.kind = "weekday" => \E date \in local .. local + 6 :
                                /\ due = Noon(date) /\ Weekday(date) = named.day
                                /\ \A e \in local .. date - 1 : Weekday(e) # named.day
                         /\ named.kind = "offset" => due >= Noon(local)
  BY DEF DatesAreRight
<1> DEFINE p == Promises[k]
           s == Found(text, p)
           m == Last(s)
           w == Last(text)
           named == Day[w]
           local == (at + zone) \div DayLength
           due == Commitment(text, p, m, at, zone).due
<1>3. p \in ToSet(Promises) /\ p \in ToSet(Promises \o Opinions)
  <2>1. p \in ToSet(Promises)
    BY DEF ToSet
  <2> QED
    BY <2>1, PatternsListed
<1>4. IsPattern(p)
  BY <1>3, PatternsAre
<1>5. m \in ToSet(s)
  <2>1. s \in Seq(Match) /\ s # <<>>
    BY <1>1, <1>2, <1>4, FoundAll
  <2> HIDE DEF s
  <2> QED
    BY <2>1 DEF Last, ToSet
<1>6. m \in Match /\ m.start \in 1 .. Len(text) /\ IsMatch(text, m.start, p, m)
  BY <1>1, <1>4, <1>5, FoundIsMatch
<1>7. m.last = Len(text) /\ w \in DOMAIN Day
  BY <1>2
<1>8. w = text[m.last]
  BY <1>1, <1>7 DEF Last
<1>9. p.close = "by"
  <2>1. p.close \in Closes
    BY <1>4 DEF IsPattern
  <2>2. /\ m.from \in Nat \ {0} /\ m.to \in Ends(text, m.from, p.close)
        /\ m.last = CloseEnd(text, m.to, p.close)
    BY <1>6 DEF IsMatch, Match
  <2> DEFINE f == m.from
             e == m.to
             c == p.close
  <2>3. f \in Nat \ {0} /\ c \in Closes /\ e \in Ends(text, f, c) /\ m.last = CloseEnd(text, e, c)
    BY <2>1, <2>2
  <2> HIDE DEF f, e, c
  <2>4. /\ e \in f + 1 .. Len(text) /\ CloseEnd(text, e, c) # Absent
    BY <1>1, <2>3, EndsAre
  <2>5. e \in 1 .. Len(text)
    BY <2>3, <2>4
  <2>6. ASSUME c = "stop" PROVE FALSE
    <3>1. CloseEnd(text, e, c) = e /\ text[e] \in {".", NL}
      BY <1>1, <2>3, <2>4, <2>5, <2>6, CloseIs
    <3>2. text[m.last] \in {".", NL}
      BY <2>3, <3>1
    <3> QED
      BY <1>7, <1>8, <3>2, DaysAssumption
  <2> QED
    BY <2>3, <2>6 DEF c, Closes
<1>10. due = ResolveDate(w, at, zone)
  BY <1>8, <1>9 DEF Commitment
<1>11. local \in Int
  <2>1. at + zone \in Int /\ DayLength \in Nat \ {0}
    BY DaysAssumption
  <2> QED
    BY <2>1
<1>12. Absent \notin Int
  BY WordsAssumption
<1> DEFINE Goal == /\ named.kind = "unknown" <=> due = Absent
                   /\ named.kind = "weekday" => \E date \in local .. local + 6 :
                          /\ due = Noon(date) /\ Weekday(date) = named.day
                          /\ \A e \in local .. date - 1 : Weekday(e) # named.day
                   /\ named.kind = "offset" => due >= Noon(local)
<1>13. due = CASE named.kind = "date"     -> Noon(named.day)
               [] named.kind = "offset"   -> Noon(local + named.day)
               [] named.kind = "weekday"  -> Noon(local + DaysUntil(local, named.day))
               [] named.kind = "unknown"  -> Absent
  BY <1>10 DEF ResolveDate
<1>14. \/ named.kind = "unknown"
       \/ named.kind = "weekday" /\ named.day \in 0 .. 6
       \/ named.kind \in {"date", "offset"} /\ named.day \in Nat
  BY <1>7, DaysAssumption
<1> SUFFICES Goal
  OBVIOUS
<1> HIDE DEF named, local, due
<1>15. CASE named.kind = "unknown"
  BY <1>13, <1>15
<1>16. CASE named.kind = "weekday" /\ named.day \in 0 .. 6
  <2> DEFINE date == local + DaysUntil(local, named.day)
  <2>1. due = Noon(date)
    BY <1>13, <1>16
  <2>2. /\ date \in local .. local + 6 /\ Weekday(date) = named.day
        /\ \A e \in local .. date - 1 : Weekday(e) # named.day
    <3>1. /\ DaysUntil(local, named.day) \in 0 .. 6
          /\ Weekday(local + DaysUntil(local, named.day)) = named.day
          /\ \A e \in local .. local + DaysUntil(local, named.day) - 1 : Weekday(e) # named.day
      BY <1>11, <1>16, NextWeekday
    <3> QED
      BY <1>11, <3>1
  <2> HIDE DEF date
  <2>3. date \in Int
    BY <1>11, <2>2
  <2>4. Noon(date) \in Int
    BY <2>3, Noons
  <2> QED
    BY <1>12, <1>16, <2>1, <2>2, <2>4
<1>17. CASE named.kind = "date" /\ named.day \in Nat
  <2>1. due = Noon(named.day)
    BY <1>13, <1>17
  <2>2. Noon(named.day) \in Int
    BY <1>17, Noons
  <2> QED
    BY <1>12, <1>17, <2>1, <2>2
<1>18. CASE named.kind = "offset" /\ named.day \in Nat
  <2>1. due = Noon(local + named.day)
    BY <1>13, <1>18
  <2>2. local + named.day \in Int
    BY <1>11, <1>18
  <2>3. Noon(local + named.day) \in Int /\ Noon(local + named.day) >= Noon(local)
    BY <1>11, <1>18, <2>2, Noons
  <2> QED
    BY <1>12, <1>18, <2>1, <2>3
<1> QED
  BY <1>14, <1>15, <1>16, <1>17, <1>18

-----------------------------------------------------------------------------
(* The object of a reply.                                                    *)

State == [depth : Int, inside : BOOLEAN, escaped : BOOLEAN]

(* What one byte does to the state of the scan.                              *)
LEMMA ScannedIs ==
    ASSUME NEW s \in State, NEW b
    PROVE  /\ Scanned(s, b) \in State
           /\ s.inside => Scanned(s, b).depth = s.depth
           /\ s.inside /\ s.escaped => Scanned(s, b).inside /\ ~Scanned(s, b).escaped
           /\ s.inside /\ ~s.escaped => /\ Scanned(s, b).inside <=> b # Quote
                                        /\ Scanned(s, b).escaped <=> b = Escape
           /\ ~s.inside => /\ Scanned(s, b).inside <=> b = Quote
                           /\ Scanned(s, b).escaped <=> s.escaped
                           /\ b = Open => Scanned(s, b).depth = s.depth + 1
                           /\ b = Shut => Scanned(s, b).depth = s.depth - 1
                           /\ b \notin {Open, Shut} => Scanned(s, b).depth = s.depth
<1>1. /\ Open # Shut /\ Open # Quote /\ Open # Escape /\ Shut # Quote /\ Shut # Escape
      /\ Quote # Escape
  BY TextsAssumption
<1>2. s.depth \in Int /\ s.inside \in BOOLEAN /\ s.escaped \in BOOLEAN
      /\ s = [depth |-> s.depth, inside |-> s.inside, escaped |-> s.escaped]
  BY DEF State
<1>3. CASE s.inside /\ s.escaped
  <2>1. Scanned(s, b) = [s EXCEPT !.escaped = FALSE]
    BY <1>3 DEF Scanned
  <2> QED
    BY <1>3, <2>1 DEF State
<1>4. CASE s.inside /\ ~s.escaped /\ b = Quote
  <2>1. Scanned(s, b) = [s EXCEPT !.inside = FALSE]
    BY <1>1, <1>4 DEF Scanned
  <2> QED
    BY <1>1, <1>4, <2>1 DEF State
<1>5. CASE s.inside /\ ~s.escaped /\ b = Escape
  <2>1. Scanned(s, b) = [s EXCEPT !.escaped = TRUE]
    BY <1>1, <1>5 DEF Scanned
  <2> QED
    BY <1>1, <1>5, <2>1 DEF State
<1>6. CASE s.inside /\ ~s.escaped /\ b # Quote /\ b # Escape
  <2>1. Scanned(s, b) = s
    BY <1>6 DEF Scanned
  <2> QED
    BY <1>6, <2>1
<1>7. CASE ~s.inside /\ b = Quote
  <2>1. Scanned(s, b) = [s EXCEPT !.inside = TRUE]
    BY <1>1, <1>7 DEF Scanned
  <2> QED
    BY <1>1, <1>7, <2>1 DEF State
<1>8. CASE ~s.inside /\ b = Open
  <2>1. Scanned(s, b) = [s EXCEPT !.depth = @ + 1]
    BY <1>1, <1>8 DEF Scanned
  <2> QED
    BY <1>1, <1>2, <1>8, <2>1 DEF State
<1>9. CASE ~s.inside /\ b = Shut
  <2>1. Scanned(s, b) = [s EXCEPT !.depth = @ - 1]
    BY <1>1, <1>9 DEF Scanned
  <2> QED
    BY <1>1, <1>2, <1>9, <2>1 DEF State
<1>10. CASE ~s.inside /\ b # Quote /\ b # Open /\ b # Shut
  <2>1. Scanned(s, b) = s
    BY <1>10 DEF Scanned
  <2> QED
    BY <1>10, <2>1
<1> QED
  BY <1>2, <1>3, <1>4, <1>5, <1>6, <1>7, <1>8, <1>9, <1>10

(* A scan of t from behind a on.                                             *)
IsScan(t, a, g) ==
    /\ g \in [a .. Len(t) -> State]
    /\ \A i \in a + 1 .. Len(t) : g[i] = Scanned(g[i - 1], t[i])

(* The places where a scan is through.                                       *)
ShutsOf(t, start, g) == {i \in start .. Len(t) : t[i] = Shut /\ g[i].depth = 0 /\ ~g[i].inside}

(* The first brace.                                                          *)
LEMMA FirstIs ==
    ASSUME NEW W, NEW t \in Seq(W)
    PROVE  /\ FirstOpen(t) \in 1 .. Len(t) + 1
           /\ FirstOpen(t) <= Len(t) => t[FirstOpen(t)] = Open
<1> DEFINE S == {i \in DOMAIN t : t[i] = Open} \cup {Len(t) + 1}
<1>1. S \in SUBSET Nat /\ S # {}
  OBVIOUS
<1>2. FirstOpen(t) = Min(S)
  BY DEF FirstOpen
<1>3. Min(S) \in S
  BY <1>1, Least
<1> QED
  BY <1>2, <1>3

(* The recursion of FirstObject is a scan from the first brace.              *)
LEMMA ObjectIs ==
    ASSUME NEW W, NEW t \in Seq(W), NEW start, start = FirstOpen(t)
    PROVE  \E g : /\ IsScan(t, start - 1, g)
                  /\ g[start - 1] = [depth |-> 0, inside |-> FALSE, escaped |-> FALSE]
                  /\ FirstObject(t) = IF ShutsOf(t, start, g) = {} THEN Absent
                                      ELSE SubSeq(t, start, Min(ShutsOf(t, start, g)))
<1> DEFINE L == Len(t)
           D == start - 1 .. L
           s0 == [depth |-> 0, inside |-> FALSE, escaped |-> FALSE]
           N == L + 1 - start
           r == [i \in D |-> i - (start - 1)]
           Scans(i, f) == IF i = start - 1 THEN s0 ELSE Scanned(f[i - 1], t[i])
           step == [i \in D |-> [f \in [D -> State] |-> Scans(i, f)]]
           Eq(f) == f = [i \in D |-> Scans(i, f)]
           g == CHOOSE f : Eq(f)
<1>0. L \in Nat /\ start \in 1 .. L + 1
  BY FirstIs
<1>1. FirstObject(t) = IF ShutsOf(t, start, g) = {} THEN Absent
                       ELSE SubSeq(t, start, Min(ShutsOf(t, start, g)))
  BY DEF FirstObject, ShutsOf
<1>2. s0 \in State
  BY DEF State
<1>3. ASSUME NEW i \in D, NEW f, i # start - 1 => f[i - 1] \in State PROVE Scans(i, f) \in State
  BY <1>2, <1>3, ScannedIs
<1>4. ASSUME NEW i \in D, NEW f \in [D -> State] PROVE i # start - 1 => i - 1 \in D /\ r[i - 1] < r[i]
  BY <1>0
<1> HIDE DEF s0
<1>5. LooksDown(step, D, State, r, N)
  <2>1. N \in Nat /\ r \in [D -> 0 .. N]
    BY <1>0
  <2>2. \A i \in D, f \in [D -> State] : Scans(i, f) \in State
    BY <1>3, <1>4
  <2>3. ASSUME NEW i \in D, NEW f \in [D -> State], NEW h \in [D -> State],
               \A e \in D : r[e] < r[i] => f[e] = h[e]
        PROVE  Scans(i, f) = Scans(i, h)
    BY <1>4, <2>3
  <2> HIDE DEF Scans
  <2>4. State # {} /\ step \in [D -> [[D -> State] -> State]]
    <3> HIDE DEF D
    <3> QED
      BY <1>2, <2>2
  <2>5. \A i \in D : \A f, h \in [D -> State] :
            (\A e \in D : r[e] < r[i] => f[e] = h[e]) => step[i][f] = step[i][h]
    <3>1. \A i \in D, f \in [D -> State] : step[i][f] = Scans(i, f)
      OBVIOUS
    <3> HIDE DEF step, D, r
    <3> QED
      BY <2>3, <3>1
  <2> HIDE DEF step, D, r, N
  <2> QED
    BY <2>1, <2>4, <2>5 DEF LooksDown
<1> HIDE DEF Scans
<1>6. \E f \in [D -> State] : \A i \in D : f[i] = step[i][f]
  <2> DEFINE X == State
  <2>1. LooksDown(step, D, X, r, N)
    BY <1>5
  <2> HIDE DEF step, D, r, N, X
  <2>2. \E f \in [D -> X] : \A i \in D : f[i] = step[i][f]
    BY ONLY <2>1, RecursionByRank
  <2> QED
    BY <2>2 DEF X
<1>7. PICK f \in [D -> State] : \A i \in D : f[i] = step[i][f]
  BY <1>6
<1>8. Eq(f)
  BY <1>7
<1>9. g = [i \in D |-> Scans(i, g)]
  <2>1. Eq(g)
    BY <1>8
  <2> QED
    BY <2>1
<1> HIDE DEF g
<1>10. \A i \in D : g[i] \in State
  <2> DEFINE S == {n \in 0 .. N : g[start - 1 + n] \in State}
  <2>1. 0 \in S
    <3>1. start - 1 \in D /\ start - 1 + 0 = start - 1 /\ 0 \in 0 .. N
      BY <1>0
    <3>2. g[start - 1] = s0
      BY <1>9, <3>1 DEF Scans
    <3> QED
      BY <1>2, <3>1, <3>2
  <2>2. ASSUME NEW n \in 0 .. N - 1, n \in S PROVE n + 1 \in S
    <3> DEFINE i == start - 1 + (n + 1)
    <3>0. n \in Nat /\ n + 1 <= L + 1 - start
      BY <1>0
    <3>1. i \in D /\ i # start - 1 /\ i - 1 = start - 1 + n /\ n + 1 \in 0 .. N
      BY ONLY <1>0, <3>0
    <3>2. g[i - 1] \in State
      BY <2>2, <3>1
    <3> HIDE DEF i
    <3>3. g[i] \in State
      BY <1>3, <1>9, <3>1, <3>2
    <3> QED
      BY <3>1, <3>3 DEF i
  <2>3. \A n \in 0 .. N - 1 : n \in S => n + 1 \in S
    BY <2>2
  <2>4. N \in Nat
    BY <1>0
  <2> HIDE DEF S, N
  <2>5. \A n \in 0 .. N : n \in S
    BY <2>1, <2>3, <2>4, CountUp
  <2>6. ASSUME NEW i \in D PROVE g[i] \in State
    <3>0. i \in start - 1 .. L
      OBVIOUS
    <3>1. i - (start - 1) \in 0 .. N /\ start - 1 + (i - (start - 1)) = i
      BY ONLY <1>0, <3>0 DEF N
    <3> QED
      BY <2>5, <3>1 DEF S
  <2> QED
    BY <2>6
<1>11. IsScan(t, start - 1, g)
  <2>1. g \in [D -> State]
    BY <1>9, <1>10
  <2>2. ASSUME NEW i \in start .. L PROVE g[i] = Scanned(g[i - 1], t[i])
    <3>1. i \in D /\ i # start - 1
      BY <1>0
    <3> QED
      BY <1>9, <3>1 DEF Scans
  <2>3. start - 1 + 1 = start
    BY <1>0
  <2> QED
    BY <2>1, <2>2, <2>3 DEF IsScan
<1>12. g[start - 1] = s0
  <2>1. start - 1 \in D
    BY <1>0
  <2> QED
    BY <1>9, <2>1 DEF Scans
<1> QED
  BY <1>1, <1>11, <1>12 DEF s0

(* The grammar's two definitions hold of what they define.                   *)
LEMMA QuotableIs ==
    ASSUME NEW W, NEW t \in Seq(W)
    PROVE  \A i \in 1 .. Len(t) + 2, j \in 0 .. Len(t) :
               Quotable(t)[<<i, j>>] <=>
                   \/ i = j + 1
                   \/ i < j /\ t[i] = Escape /\ Quotable(t)[<<i + 2, j>>]
                   \/ i <= j /\ t[i] \notin {Escape, Quote} /\ Quotable(t)[<<i + 1, j>>]
<1> DEFINE L == Len(t)
           D == Stretches(t)
           r == [s \in D |-> IF s[1] > s[2] + 1 THEN 0 ELSE s[2] + 1 - s[1]]
           Grammar(s, f) ==
               \/ s[1] = s[2] + 1
               \/ s[1] < s[2] /\ t[s[1]] = Escape /\ f[<<s[1] + 2, s[2]>>]
               \/ s[1] <= s[2] /\ t[s[1]] \notin {Escape, Quote} /\ f[<<s[1] + 1, s[2]>>]
           step == [s \in D |-> [f \in [D -> BOOLEAN] |-> Grammar(s, f)]]
           Eq(f) == f = [s \in D |-> Grammar(s, f)]
           g == CHOOSE f : Eq(f)
<1>0. L \in Nat /\ D = (1 .. L + 2) \X (0 .. L)
  BY DEF Stretches
<1>1. Quotable(t) = g
  BY DEF Quotable
<1>2. ASSUME NEW s \in D
      PROVE  /\ s[1] \in 1 .. L + 2 /\ s[2] \in 0 .. L /\ s = <<s[1], s[2]>>
             /\ s[1] < s[2] => <<s[1] + 2, s[2]>> \in D /\ r[<<s[1] + 2, s[2]>>] < r[s]
             /\ s[1] <= s[2] => <<s[1] + 1, s[2]>> \in D /\ r[<<s[1] + 1, s[2]>>] < r[s]
  BY <1>0, SMTT(20)
<1>3. ASSUME NEW s \in D, NEW f \in [D -> BOOLEAN], NEW h \in [D -> BOOLEAN],
             \A e \in D : r[e] < r[s] => f[e] = h[e]
      PROVE  Grammar(s, f) = Grammar(s, h)
  <2>1. s[1] < s[2] => f[<<s[1] + 2, s[2]>>] = h[<<s[1] + 2, s[2]>>]
    BY <1>2, <1>3
  <2>2. s[1] <= s[2] => f[<<s[1] + 1, s[2]>>] = h[<<s[1] + 1, s[2]>>]
    BY <1>2, <1>3
  <2> QED
    BY <2>1, <2>2
<1>4. \A s \in D : \A f : Grammar(s, f) \in BOOLEAN
  OBVIOUS
<1>5. L + 1 \in Nat /\ r \in [D -> 0 .. L + 1]
  BY <1>0, <1>2
<1> HIDE DEF Grammar
<1>6. LooksDown(step, D, BOOLEAN, r, L + 1)
  <2>1. step \in [D -> [[D -> BOOLEAN] -> BOOLEAN]]
    <3> HIDE DEF D
    <3> QED
      BY <1>4
  <2>2. \A s \in D : \A f, h \in [D -> BOOLEAN] :
            (\A e \in D : r[e] < r[s] => f[e] = h[e]) => step[s][f] = step[s][h]
    <3>1. \A s \in D, f \in [D -> BOOLEAN] : step[s][f] = Grammar(s, f)
      OBVIOUS
    <3> HIDE DEF step, D, r
    <3> QED
      BY <1>3, <3>1
  <2> HIDE DEF step, D, r, L
  <2> QED
    BY <1>5, <2>1, <2>2 DEF LooksDown
<1>7. \E f \in [D -> BOOLEAN] : \A s \in D : f[s] = step[s][f]
  <2> HIDE DEF step, D, r, L
  <2> QED
    BY ONLY <1>6, RecursionByRank
<1>8. PICK f \in [D -> BOOLEAN] : \A s \in D : f[s] = step[s][f]
  BY <1>7
<1>9. Eq(f)
  BY <1>8
<1>10. g = [s \in D |-> Grammar(s, g)]
  <2>1. Eq(g)
    BY <1>9
  <2> QED
    BY <2>1
<1> HIDE DEF g
<1>11. ASSUME NEW i \in 1 .. L + 2, NEW j \in 0 .. L PROVE g[<<i, j>>] <=> Grammar(<<i, j>>, g)
  <2>1. <<i, j>> \in D
    BY <1>0
  <2> HIDE DEF D
  <2> QED
    BY <1>10, <2>1
<1> QED
  BY <1>1, <1>11 DEF Grammar

(* A string stands from place i to place k.                                  *)
IsString(t, i, k) == t[i] = Quote /\ t[k] = Quote /\ Quotable(t)[<<i + 1, k - 1>>]

LEMMA BalancedIs ==
    ASSUME NEW W, NEW t \in Seq(W)
    PROVE  \A i \in 1 .. Len(t) + 2, j \in 0 .. Len(t) :
               Balanced(t)[<<i, j>>] <=>
                   \/ i = j + 1
                   \/ i <= j /\ t[i] \notin {Open, Shut, Quote} /\ Balanced(t)[<<i + 1, j>>]
                   \/ \E k \in i + 1 .. j :
                         /\ \/ IsString(t, i, k)
                            \/ t[i] = Open /\ t[k] = Shut /\ Balanced(t)[<<i + 1, k - 1>>]
                         /\ Balanced(t)[<<k + 1, j>>]
<1> DEFINE L == Len(t)
           D == Stretches(t)
           r == [s \in D |-> IF s[1] > s[2] + 1 THEN 0 ELSE s[2] + 1 - s[1]]
           Grammar(s, f) ==
               \/ s[1] = s[2] + 1
               \/ s[1] <= s[2] /\ t[s[1]] \notin {Open, Shut, Quote} /\ f[<<s[1] + 1, s[2]>>]
               \/ \E k \in s[1] + 1 .. s[2] :
                     /\ \/ IsString(t, s[1], k)
                        \/ t[s[1]] = Open /\ t[k] = Shut /\ f[<<s[1] + 1, k - 1>>]
                     /\ f[<<k + 1, s[2]>>]
           step == [s \in D |-> [f \in [D -> BOOLEAN] |-> Grammar(s, f)]]
           Eq(f) == f = [s \in D |-> Grammar(s, f)]
           g == CHOOSE f : Eq(f)
<1>0. L \in Nat /\ D = (1 .. L + 2) \X (0 .. L)
  BY DEF Stretches
<1>1. Balanced(t) = g
  BY DEF Balanced, IsString
<1>2. ASSUME NEW s \in D
      PROVE  /\ s[1] \in 1 .. L + 2 /\ s[2] \in 0 .. L /\ s = <<s[1], s[2]>>
             /\ s[1] <= s[2] => <<s[1] + 1, s[2]>> \in D /\ r[<<s[1] + 1, s[2]>>] < r[s]
             /\ \A k \in s[1] + 1 .. s[2] :
                    /\ <<s[1] + 1, k - 1>> \in D /\ r[<<s[1] + 1, k - 1>>] < r[s]
                    /\ <<k + 1, s[2]>> \in D /\ r[<<k + 1, s[2]>>] < r[s]
  <2>1. s[1] \in 1 .. L + 2 /\ s[2] \in 0 .. L /\ s = <<s[1], s[2]>>
    BY <1>0
  <2>2. s[1] <= s[2] => <<s[1] + 1, s[2]>> \in D /\ r[<<s[1] + 1, s[2]>>] < r[s]
    BY <1>0, <2>1
  <2>3. ASSUME NEW k \in s[1] + 1 .. s[2]
        PROVE  /\ <<s[1] + 1, k - 1>> \in D /\ r[<<s[1] + 1, k - 1>>] < r[s]
               /\ <<k + 1, s[2]>> \in D /\ r[<<k + 1, s[2]>>] < r[s]
    BY <1>0, <2>1
  <2> QED
    BY <2>1, <2>2, <2>3
<1>3. ASSUME NEW s \in D, NEW f \in [D -> BOOLEAN], NEW h \in [D -> BOOLEAN],
             \A e \in D : r[e] < r[s] => f[e] = h[e]
      PROVE  Grammar(s, f) = Grammar(s, h)
  <2>1. s[1] <= s[2] => f[<<s[1] + 1, s[2]>>] = h[<<s[1] + 1, s[2]>>]
    BY <1>2, <1>3
  <2>2. \A k \in s[1] + 1 .. s[2] : /\ f[<<s[1] + 1, k - 1>>] = h[<<s[1] + 1, k - 1>>]
                                    /\ f[<<k + 1, s[2]>>] = h[<<k + 1, s[2]>>]
    BY <1>2, <1>3
  <2> QED
    BY <2>1, <2>2
<1>4. \A s \in D : \A f : Grammar(s, f) \in BOOLEAN
  OBVIOUS
<1>5. L + 1 \in Nat /\ r \in [D -> 0 .. L + 1]
  BY <1>0, <1>2
<1> HIDE DEF Grammar
<1>6. LooksDown(step, D, BOOLEAN, r, L + 1)
  <2>1. step \in [D -> [[D -> BOOLEAN] -> BOOLEAN]]
    <3> HIDE DEF D
    <3> QED
      BY <1>4
  <2>2. \A s \in D : \A f, h \in [D -> BOOLEAN] :
            (\A e \in D : r[e] < r[s] => f[e] = h[e]) => step[s][f] = step[s][h]
    <3>1. \A s \in D, f \in [D -> BOOLEAN] : step[s][f] = Grammar(s, f)
      OBVIOUS
    <3> HIDE DEF step, D, r
    <3> QED
      BY <1>3, <3>1
  <2> HIDE DEF step, D, r, L
  <2> QED
    BY <1>5, <2>1, <2>2 DEF LooksDown
<1>7. \E f \in [D -> BOOLEAN] : \A s \in D : f[s] = step[s][f]
  <2> HIDE DEF step, D, r, L
  <2> QED
    BY ONLY <1>6, RecursionByRank
<1>8. PICK f \in [D -> BOOLEAN] : \A s \in D : f[s] = step[s][f]
  BY <1>7
<1>9. Eq(f)
  BY <1>8
<1>10. g = [s \in D |-> Grammar(s, g)]
  <2>1. Eq(g)
    BY <1>9
  <2> QED
    BY <2>1
<1> HIDE DEF g
<1>11. ASSUME NEW i \in 1 .. L + 2, NEW j \in 0 .. L PROVE g[<<i, j>>] <=> Grammar(<<i, j>>, g)
  <2>1. <<i, j>> \in D
    BY <1>0
  <2> HIDE DEF D
  <2> QED
    BY <1>10, <2>1
<1> QED
  BY <1>1, <1>11 DEF Grammar

Clean(s, d) == ~s.inside /\ ~s.escaped /\ s.depth = d

Within(s, d) == s.inside /\ ~s.escaped /\ s.depth = d

(* One step of a scan outside of strings, and inside.                        *)
LEMMA ScanSteps ==
    ASSUME NEW W, NEW t \in Seq(W), NEW a \in Nat, NEW g, IsScan(t, a, g),
           NEW i \in a + 1 .. Len(t), NEW d \in Int
    PROVE  /\ g[i - 1] \in State /\ g[i] \in State
           /\ Clean(g[i - 1], d) =>
                  /\ t[i] \notin {Open, Shut, Quote} => Clean(g[i], d)
                  /\ t[i] = Quote => Within(g[i], d)
                  /\ t[i] = Open => Clean(g[i], d + 1)
                  /\ t[i] = Shut => Clean(g[i], d - 1)
           /\ Within(g[i - 1], d) =>
                  /\ t[i] = Quote => Clean(g[i], d)
                  /\ t[i] \notin {Quote, Escape} => Within(g[i], d)
                  /\ t[i] = Escape => g[i].inside /\ g[i].escaped /\ g[i].depth = d
           /\ g[i - 1].inside /\ g[i - 1].escaped =>
                  g[i].inside /\ ~g[i].escaped /\ g[i].depth = g[i - 1].depth
<1> DEFINE s == g[i - 1]
           b == t[i]
<1>1. s \in State /\ g[i] = Scanned(s, b) /\ g[i] \in State
  BY DEF IsScan
<1>2. /\ Open # Shut /\ Open # Quote /\ Open # Escape /\ Shut # Quote /\ Shut # Escape
      /\ Quote # Escape
  BY TextsAssumption
<1>3. s.depth \in Int
  BY <1>1 DEF State
<1> HIDE DEF s, b
<1>4. /\ s.inside => Scanned(s, b).depth = s.depth
      /\ s.inside /\ s.escaped => Scanned(s, b).inside /\ ~Scanned(s, b).escaped
      /\ s.inside /\ ~s.escaped => /\ Scanned(s, b).inside <=> b # Quote
                                   /\ Scanned(s, b).escaped <=> b = Escape
      /\ ~s.inside => /\ Scanned(s, b).inside <=> b = Quote
                      /\ Scanned(s, b).escaped <=> s.escaped
                      /\ b = Open => Scanned(s, b).depth = s.depth + 1
                      /\ b = Shut => Scanned(s, b).depth = s.depth - 1
                      /\ b \notin {Open, Shut} => Scanned(s, b).depth = s.depth
  BY <1>1, ScannedIs
<1>5. Clean(s, d) =>
          /\ b \notin {Open, Shut, Quote} => Clean(g[i], d)
          /\ b = Quote => Within(g[i], d)
          /\ b = Open => Clean(g[i], d + 1)
          /\ b = Shut => Clean(g[i], d - 1)
  BY <1>1, <1>2, <1>4 DEF Clean, Within
<1>6. Within(s, d) =>
          /\ b = Quote => Clean(g[i], d)
          /\ b \notin {Quote, Escape} => Within(g[i], d)
          /\ b = Escape => g[i].inside /\ g[i].escaped /\ g[i].depth = d
  BY <1>1, <1>2, <1>4 DEF Clean, Within
<1>7. s.inside /\ s.escaped => g[i].inside /\ ~g[i].escaped /\ g[i].depth = s.depth
  BY <1>1, <1>4
<1> QED
  BY <1>1, <1>5, <1>6, <1>7 DEF s, b

(* What leaves a string, and what goes down a level.                         *)
LEMMA ScanLeaves ==
    ASSUME NEW W, NEW t \in Seq(W), NEW a \in Nat, NEW g, IsScan(t, a, g),
           NEW i \in a + 1 .. Len(t)
    PROVE  /\ g[i - 1].inside /\ ~g[i].inside => t[i] = Quote /\ ~g[i - 1].escaped
           /\ g[i].depth < g[i - 1].depth => /\ t[i] = Shut /\ ~g[i - 1].inside /\ ~g[i].inside
                                             /\ g[i].depth = g[i - 1].depth - 1
           /\ t[i] = Shut /\ ~g[i].inside => ~g[i - 1].inside /\ g[i].depth = g[i - 1].depth - 1
<1> DEFINE s == g[i - 1]
           b == t[i]
<1>1. s \in State /\ g[i] = Scanned(s, b) /\ g[i] \in State
  BY DEF IsScan
<1>2. /\ Open # Shut /\ Open # Quote /\ Open # Escape /\ Shut # Quote /\ Shut # Escape
      /\ Quote # Escape
  BY TextsAssumption
<1>3. s.depth \in Int /\ g[i].depth \in Int
  BY <1>1 DEF State
<1> HIDE DEF s, b
<1>4. /\ s.inside => Scanned(s, b).depth = s.depth
      /\ s.inside /\ s.escaped => Scanned(s, b).inside /\ ~Scanned(s, b).escaped
      /\ s.inside /\ ~s.escaped => /\ Scanned(s, b).inside <=> b # Quote
                                   /\ Scanned(s, b).escaped <=> b = Escape
      /\ ~s.inside => /\ Scanned(s, b).inside <=> b = Quote
                      /\ Scanned(s, b).escaped <=> s.escaped
                      /\ b = Open => Scanned(s, b).depth = s.depth + 1
                      /\ b = Shut => Scanned(s, b).depth = s.depth - 1
                      /\ b \notin {Open, Shut} => Scanned(s, b).depth = s.depth
  BY <1>1, ScannedIs
<1>5. s.inside /\ ~g[i].inside => b = Quote /\ ~s.escaped
  BY <1>1, <1>4
<1>6. g[i].depth < s.depth => b = Shut /\ ~s.inside /\ ~g[i].inside /\ g[i].depth = s.depth - 1
  BY <1>1, <1>2, <1>3, <1>4
<1>7. b = Shut /\ ~g[i].inside => ~s.inside /\ g[i].depth = s.depth - 1
  BY <1>1, <1>2, <1>4
<1> QED
  BY <1>5, <1>6, <1>7 DEF s, b

(* An escape stands in a string.                                             *)
LEMMA ScanOutside ==
    ASSUME NEW W, NEW t \in Seq(W), NEW a \in 0 .. Len(t), NEW g, IsScan(t, a, g), Clean(g[a], 0)
    PROVE  \A i \in a .. Len(t) : ~g[i].inside => ~g[i].escaped
<1> DEFINE N == Len(t) - a
           S == {n \in 0 .. N : ~g[a + n].inside => ~g[a + n].escaped}
<1>1. N \in Nat
  OBVIOUS
<1>2. 0 \in S
  BY <1>1 DEF Clean
<1>3. ASSUME NEW n \in 0 .. N - 1, n \in S PROVE n + 1 \in S
  <2> DEFINE i == a + (n + 1)
             s == g[i - 1]
             b == t[i]
  <2>1. i \in a + 1 .. Len(t) /\ i - 1 = a + n /\ n + 1 \in 0 .. N /\ a \in Nat
    BY <1>1
  <2>2. s \in State /\ g[i] = Scanned(s, b)
    BY <2>1 DEF IsScan
  <2>3. ~s.inside => ~s.escaped
    BY <1>3, <2>1
  <2> HIDE DEF i, s, b
  <2>4. ~g[i].inside => ~g[i].escaped
    <3>1. Quote # Escape
      BY TextsAssumption
    <3> QED
      BY <2>2, <2>3, <3>1, ScannedIs
  <2> QED
    BY <2>1, <2>4 DEF i
<1>4. \A n \in 0 .. N - 1 : n \in S => n + 1 \in S
  BY <1>3
<1> HIDE DEF N, S
<1>5. \A n \in 0 .. N : n \in S
  BY <1>1, <1>2, <1>4, CountUp
<1>6. ASSUME NEW i \in a .. Len(t) PROVE ~g[i].inside => ~g[i].escaped
  <2>1. i - a \in 0 .. N /\ a + (i - a) = i
    BY DEF N
  <2> QED
    BY <1>5, <2>1 DEF S
<1> QED
  BY <1>6

(* What holds of a span if it holds of all shorter ones, holds of all.       *)
LEMMA BySpans ==
    ASSUME NEW a \in Nat, NEW L \in Nat, NEW S,
           \A i \in a + 1 .. L + 1, j \in 0 .. L :
               /\ i <= j + 1
               /\ \A x \in a + 1 .. L + 1, y \in 0 .. L : x <= y + 1 /\ y - x < j - i => <<x, y>> \in S
               => <<i, j>> \in S
    PROVE  \A i \in a + 1 .. L + 1, j \in 0 .. L : i <= j + 1 => <<i, j>> \in S
<1> DEFINE T == {n \in 0 .. L : \A i \in a + 1 .. L + 1, j \in 0 .. L :
                                    i <= j + 1 /\ j + 1 - i <= n => <<i, j>> \in S}
<1>1. 0 \in T
  <2>1. ASSUME NEW i \in a + 1 .. L + 1, NEW j \in 0 .. L, i <= j + 1, j + 1 - i <= 0
        PROVE  <<i, j>> \in S
    <3>1. \A x \in a + 1 .. L + 1, y \in 0 .. L : ~ (x <= y + 1 /\ y - x < j - i)
      BY <2>1
    <3> QED
      BY <2>1, <3>1
  <2> QED
    BY <2>1
<1>2. ASSUME NEW n \in 0 .. L - 1, n \in T PROVE n + 1 \in T
  <2>1. ASSUME NEW i \in a + 1 .. L + 1, NEW j \in 0 .. L, i <= j + 1, j + 1 - i <= n + 1
        PROVE  <<i, j>> \in S
    <3>1. \A x \in a + 1 .. L + 1, y \in 0 .. L :
              x <= y + 1 /\ y - x < j - i => y + 1 - x <= n
      BY <2>1
    <3>2. \A x \in a + 1 .. L + 1, y \in 0 .. L : x <= y + 1 /\ y + 1 - x <= n => <<x, y>> \in S
      BY <1>2
    <3> QED
      BY <2>1, <3>1, <3>2
  <2>2. n + 1 \in 0 .. L
    OBVIOUS
  <2> QED
    BY <2>1, <2>2
<1>3. \A n \in 0 .. L - 1 : n \in T => n + 1 \in T
  BY <1>2
<1> HIDE DEF T
<1>4. \A n \in 0 .. L : n \in T
  BY <1>1, <1>3, CountUp
<1>5. L \in T /\ \A i \in a + 1 .. L + 1, j \in 0 .. L : j + 1 - i <= L
  BY <1>4
<1> QED
  BY <1>5 DEF T

(* A scan stays in a string while what it reads may stand in one.            *)
LEMMA QuotedScan ==
    ASSUME NEW W, NEW t \in Seq(W), NEW a \in Nat, NEW g, IsScan(t, a, g), NEW d \in Int
    PROVE  \A i \in a + 1 .. Len(t) + 1, j \in 0 .. Len(t) :
               i <= j + 1 /\ Quotable(t)[<<i, j>>] /\ Within(g[i - 1], d) =>
                   Within(g[j], d) /\ \A k \in i .. j : g[k].depth = d
<1> DEFINE L == Len(t)
           q == Quotable(t)
           P(i, j) == q[<<i, j>>] /\ Within(g[i - 1], d) =>
                          Within(g[j], d) /\ \A k \in i .. j : g[k].depth = d
           S == {s \in (a + 1 .. L + 1) \X (0 .. L) : P(s[1], s[2])}
<1>0. L \in Nat
  OBVIOUS
<1>1. ASSUME NEW i \in a + 1 .. L + 1, NEW j \in 0 .. L, i <= j + 1,
             \A x \in a + 1 .. L + 1, y \in 0 .. L :
                 x <= y + 1 /\ y - x < j - i => <<x, y>> \in S
      PROVE  <<i, j>> \in S
  <2>1. SUFFICES ASSUME q[<<i, j>>], Within(g[i - 1], d)
                 PROVE  Within(g[j], d) /\ \A k \in i .. j : g[k].depth = d
    OBVIOUS
  <2>2. \/ i = j + 1
        \/ i < j /\ t[i] = Escape /\ q[<<i + 2, j>>]
        \/ i <= j /\ t[i] \notin {Escape, Quote} /\ q[<<i + 1, j>>]
    <3>1. i \in 1 .. L + 2
      OBVIOUS
    <3> QED
      BY <2>1, <3>1, QuotableIs
  <2> HIDE DEF q
  <2>3. CASE i = j + 1
    <3>1. i - 1 = j /\ \A k \in i .. j : FALSE
      BY <2>3
    <3> QED
      BY <2>1, <3>1
  <2>4. CASE i < j /\ t[i] = Escape /\ q[<<i + 2, j>>]
    <3> DEFINE x == i + 2
    <3>1. /\ i \in a + 1 .. L /\ i + 1 \in a + 1 .. L /\ i + 1 - 1 = i
          /\ x \in a + 1 .. L + 1 /\ x <= j + 1 /\ j - x < j - i /\ x - 1 = i + 1
      BY <2>4
    <3>2. g[i].inside /\ g[i].escaped /\ g[i].depth = d
      BY <2>1, <2>4, <3>1, ScanSteps
    <3>3. Within(g[i + 1], d)
      BY <3>1, <3>2, ScanSteps DEF Within
    <3> HIDE DEF x
    <3>4. <<x, j>> \in S
      BY <1>1, <3>1
    <3>5. P(x, j)
      BY <3>4
    <3>6. Within(g[j], d) /\ \A k \in x .. j : g[k].depth = d
      BY <2>4, <3>1, <3>3, <3>5 DEF x
    <3>7. \A k \in i .. j : k = i \/ k = i + 1 \/ k \in x .. j
      BY DEF x
    <3> QED
      BY <3>2, <3>3, <3>6, <3>7 DEF Within
  <2>5. CASE i <= j /\ t[i] \notin {Escape, Quote} /\ q[<<i + 1, j>>]
    <3> DEFINE x == i + 1
    <3>1. /\ i \in a + 1 .. L
          /\ x \in a + 1 .. L + 1 /\ x <= j + 1 /\ j - x < j - i /\ x - 1 = i
      BY <2>5
    <3>2. Within(g[i], d)
      BY ONLY <2>1, <2>5, <3>1, <1>0, t \in Seq(W), a \in Nat, IsScan(t, a, g), d \in Int, ScanSteps
    <3> HIDE DEF x
    <3>4. <<x, j>> \in S
      BY <1>1, <3>1
    <3>5. P(x, j)
      BY <3>4
    <3>6. Within(g[j], d) /\ \A k \in x .. j : g[k].depth = d
      BY <2>5, <3>1, <3>2, <3>5 DEF x
    <3>7. \A k \in i .. j : k = i \/ k \in x .. j
      BY DEF x
    <3> QED
      BY <3>2, <3>6, <3>7 DEF Within
  <2> QED
    BY <2>2, <2>3, <2>4, <2>5
<1> HIDE DEF S
<1>2. \A i \in a + 1 .. L + 1, j \in 0 .. L :
          /\ i <= j + 1
          /\ \A x \in a + 1 .. L + 1, y \in 0 .. L : x <= y + 1 /\ y - x < j - i => <<x, y>> \in S
          => <<i, j>> \in S
  BY <1>1
<1> HIDE DEF L
<1>3. \A i \in a + 1 .. L + 1, j \in 0 .. L : i <= j + 1 => <<i, j>> \in S
  BY <1>0, <1>2, BySpans
<1>4. \A i \in a + 1 .. L + 1, j \in 0 .. L : i <= j + 1 => P(i, j)
  BY <1>3 DEF S
<1> QED
  BY <1>4 DEF L

(* What a scan reads in a string may stand in one.                           *)
LEMMA ScanQuoted ==
    ASSUME NEW W, NEW t \in Seq(W), NEW a \in Nat, NEW g, IsScan(t, a, g)
    PROVE  \A i \in a + 1 .. Len(t) + 1, j \in 0 .. Len(t) :
               /\ i <= j + 1 /\ g[i - 1].inside /\ ~g[i - 1].escaped
               /\ ~g[j].escaped /\ \A k \in i .. j : g[k].inside
               => Quotable(t)[<<i, j>>]
<1> DEFINE L == Len(t)
           q == Quotable(t)
           P(i, j) == /\ g[i - 1].inside /\ ~g[i - 1].escaped
                      /\ ~g[j].escaped /\ \A k \in i .. j : g[k].inside
                      => q[<<i, j>>]
           S == {s \in (a + 1 .. L + 1) \X (0 .. L) : P(s[1], s[2])}
<1>0. L \in Nat
  OBVIOUS
<1>1. ASSUME NEW i \in a + 1 .. L + 1, NEW j \in 0 .. L, i <= j + 1,
             \A x \in a + 1 .. L + 1, y \in 0 .. L :
                 x <= y + 1 /\ y - x < j - i => <<x, y>> \in S
      PROVE  <<i, j>> \in S
  <2>1. SUFFICES ASSUME g[i - 1].inside, ~g[i - 1].escaped, ~g[j].escaped,
                        \A k \in i .. j : g[k].inside
                 PROVE  q[<<i, j>>]
    OBVIOUS
  <2>2. SUFFICES \/ i = j + 1
                 \/ i < j /\ t[i] = Escape /\ q[<<i + 2, j>>]
                 \/ i <= j /\ t[i] \notin {Escape, Quote} /\ q[<<i + 1, j>>]
    <3>1. i \in 1 .. L + 2
      OBVIOUS
    <3> QED
      BY <3>1, QuotableIs
  <2> HIDE DEF q
  <2>3. SUFFICES ASSUME i # j + 1
                 PROVE  \/ i < j /\ t[i] = Escape /\ q[<<i + 2, j>>]
                        \/ i <= j /\ t[i] \notin {Escape, Quote} /\ q[<<i + 1, j>>]
    OBVIOUS
  <2>4. i <= j /\ i \in a + 1 .. L /\ i \in i .. j
    BY <1>1, <2>3
  <2>5. g[i - 1] \in State /\ g[i - 1].depth \in Int
    <3>1. g[i - 1] \in State
      BY <2>4, ScanSteps
    <3> QED
      BY <3>1 DEF State
  <2> DEFINE d == g[i - 1].depth
  <2>6. d \in Int /\ Within(g[i - 1], d) /\ g[i].inside
    BY <2>1, <2>4, <2>5 DEF Within
  <2> HIDE DEF d
  <2>7. /\ t[i] = Quote => Clean(g[i], d)
        /\ t[i] \notin {Quote, Escape} => Within(g[i], d)
        /\ t[i] = Escape => g[i].inside /\ g[i].escaped /\ g[i].depth = d
    <3>1. i \in a + 1 .. Len(t) /\ Within(g[i - 1], d)
      BY <2>4, <2>6
    <3>2. t[i] = Quote => Clean(g[i], d)
      BY <2>6, <3>1, ScanSteps
    <3>3. t[i] \notin {Quote, Escape} => Within(g[i], d)
      BY <2>6, <3>1, ScanSteps
    <3>4. t[i] = Escape => g[i].inside /\ g[i].escaped /\ g[i].depth = d
      BY <2>6, <3>1, ScanSteps
    <3> QED
      BY <3>2, <3>3, <3>4
  <2>8. t[i] # Quote
    BY <2>6, <2>7 DEF Clean
  <2>9. CASE t[i] = Escape
    <3> DEFINE x == i + 2
    <3>1. i # j
      BY <2>1, <2>7, <2>9
    <3>2. /\ i + 1 \in a + 1 .. L /\ i + 1 - 1 = i /\ i < j
          /\ x \in a + 1 .. L + 1 /\ x <= j + 1 /\ j - x < j - i /\ x - 1 = i + 1
      BY <2>4, <3>1
    <3>3. g[i + 1].inside /\ ~g[i + 1].escaped
      BY <2>7, <2>9, <3>2, ScanSteps
    <3>4. \A k \in x .. j : g[k].inside
      BY <2>1
    <3> HIDE DEF x
    <3>5. <<x, j>> \in S
      BY <1>1, <3>2
    <3>6. P(x, j)
      BY <3>5
    <3>7. q[<<x, j>>]
      BY <2>1, <3>2, <3>3, <3>4, <3>6
    <3> QED
      BY <2>9, <3>2, <3>7 DEF x
  <2>10. CASE t[i] # Escape
    <3> DEFINE x == i + 1
    <3>1. x \in a + 1 .. L + 1 /\ x <= j + 1 /\ j - x < j - i /\ x - 1 = i
      BY <2>4
    <3>2. Within(g[i], d)
      BY <2>7, <2>8, <2>10
    <3>3. \A k \in x .. j : g[k].inside
      BY <2>1
    <3> HIDE DEF x
    <3>4. <<x, j>> \in S
      BY <1>1, <3>1
    <3>5. P(x, j)
      BY <3>4
    <3>6. q[<<x, j>>]
      BY <2>1, <3>1, <3>2, <3>3, <3>5 DEF Within
    <3> QED
      BY <2>4, <2>8, <2>10, <3>6 DEF x
  <2> QED
    BY <2>9, <2>10
<1> HIDE DEF S
<1>2. \A i \in a + 1 .. L + 1, j \in 0 .. L :
          /\ i <= j + 1
          /\ \A x \in a + 1 .. L + 1, y \in 0 .. L : x <= y + 1 /\ y - x < j - i => <<x, y>> \in S
          => <<i, j>> \in S
  BY <1>1
<1> HIDE DEF L
<1>3. \A i \in a + 1 .. L + 1, j \in 0 .. L : i <= j + 1 => <<i, j>> \in S
  BY <1>0, <1>2, BySpans
<1>4. \A i \in a + 1 .. L + 1, j \in 0 .. L : i <= j + 1 => P(i, j)
  BY <1>3 DEF S
<1> QED
  BY <1>4 DEF L

(* A scan comes back from what may stand between braces as it went, and is   *)
(* never above.                                                              *)
LEMMA BalancedScan ==
    ASSUME NEW W, NEW t \in Seq(W), NEW a \in Nat, NEW g, IsScan(t, a, g)
    PROVE  \A i \in a + 1 .. Len(t) + 1, j \in 0 .. Len(t) : \A d \in Int :
               i <= j + 1 /\ Balanced(t)[<<i, j>>] /\ Clean(g[i - 1], d) =>
                   Clean(g[j], d) /\ \A k \in i .. j : g[k].depth >= d
<1> DEFINE L == Len(t)
           b == Balanced(t)
           P(i, j) == \A d \in Int : b[<<i, j>>] /\ Clean(g[i - 1], d) =>
                          Clean(g[j], d) /\ \A k \in i .. j : g[k].depth >= d
           S == {s \in (a + 1 .. L + 1) \X (0 .. L) : P(s[1], s[2])}
<1>0. L \in Nat
  OBVIOUS
<1>1. ASSUME NEW i \in a + 1 .. L + 1, NEW j \in 0 .. L, i <= j + 1,
             \A x \in a + 1 .. L + 1, y \in 0 .. L :
                 x <= y + 1 /\ y - x < j - i => <<x, y>> \in S
      PROVE  <<i, j>> \in S
  <2>1. SUFFICES ASSUME NEW d \in Int, b[<<i, j>>], Clean(g[i - 1], d)
                 PROVE  Clean(g[j], d) /\ \A k \in i .. j : g[k].depth >= d
    OBVIOUS
  <2>2. \/ i = j + 1
        \/ i <= j /\ t[i] \notin {Open, Shut, Quote} /\ b[<<i + 1, j>>]
        \/ \E k \in i + 1 .. j :
              /\ IsString(t, i, k) \/ (t[i] = Open /\ t[k] = Shut /\ b[<<i + 1, k - 1>>])
              /\ b[<<k + 1, j>>]
    <3>1. i \in 1 .. L + 2
      OBVIOUS
    <3> QED
      BY <2>1, <3>1, BalancedIs
  <2> HIDE DEF b
  <2>3. CASE i = j + 1
    <3>1. i - 1 = j /\ \A k \in i .. j : FALSE
      BY <2>3
    <3> QED
      BY <2>1, <3>1
  <2>4. CASE i <= j /\ t[i] \notin {Open, Shut, Quote} /\ b[<<i + 1, j>>]
    <3> DEFINE x == i + 1
    <3>1. /\ i \in a + 1 .. L
          /\ x \in a + 1 .. L + 1 /\ x <= j + 1 /\ j - x < j - i /\ x - 1 = i
      BY <2>4
    <3>2. Clean(g[i], d)
      BY <2>1, <2>4, <3>1, ScanSteps
    <3> HIDE DEF x
    <3>4. <<x, j>> \in S
      BY <1>1, <3>1
    <3>5. P(x, j)
      BY <3>4
    <3>6. Clean(g[j], d) /\ \A k \in x .. j : g[k].depth >= d
      BY <2>4, <3>1, <3>2, <3>5 DEF x
    <3>7. \A k \in i .. j : k = i \/ k \in x .. j
      BY DEF x
    <3> QED
      BY <3>2, <3>6, <3>7 DEF Clean
  <2>5. ASSUME NEW k \in i + 1 .. j, b[<<k + 1, j>>],
               Clean(g[k], d), \A e \in i .. k : g[e].depth >= d
        PROVE  Clean(g[j], d) /\ \A e \in i .. j : g[e].depth >= d
    <3> DEFINE x == k + 1
    <3>1. x \in a + 1 .. L + 1 /\ x <= j + 1 /\ j - x < j - i /\ x - 1 = k
      OBVIOUS
    <3> HIDE DEF x
    <3>4. <<x, j>> \in S
      BY <1>1, <3>1
    <3>5. P(x, j)
      BY <3>4
    <3>6. Clean(g[j], d) /\ \A e \in x .. j : g[e].depth >= d
      BY <2>5, <3>1, <3>5 DEF x
    <3>7. \A e \in i .. j : e \in i .. k \/ e \in x .. j
      BY DEF x
    <3> QED
      BY <2>5, <3>6, <3>7
  <2>6. ASSUME NEW k \in i + 1 .. j, IsString(t, i, k)
        PROVE  Clean(g[k], d) /\ \A e \in i .. k : g[e].depth >= d
    <3> DEFINE x == i + 1
               y == k - 1
    <3>1. /\ i \in a + 1 .. L /\ k \in a + 1 .. L /\ x \in a + 1 .. L + 1 /\ y \in 0 .. L
          /\ x <= y + 1 /\ x - 1 = i /\ k - 1 = y
      OBVIOUS
    <3>2. Within(g[i], d)
      BY <2>1, <2>6, <3>1, ScanSteps DEF IsString
    <3>3. Quotable(t)[<<x, y>>] /\ t[k] = Quote
      BY <2>6 DEF IsString
    <3> HIDE DEF x, y
    <3>4. Within(g[y], d) /\ \A e \in x .. y : g[e].depth = d
      BY <3>1, <3>2, <3>3, QuotedScan
    <3>5. Clean(g[k], d)
      BY <3>1, <3>3, <3>4, ScanSteps
    <3>6. \A e \in i .. k : e = i \/ e = k \/ e \in x .. y
      BY DEF x, y
    <3> QED
      BY <3>2, <3>4, <3>5, <3>6 DEF Within, Clean
  <2>7. ASSUME NEW k \in i + 1 .. j, t[i] = Open, t[k] = Shut, b[<<i + 1, k - 1>>]
        PROVE  Clean(g[k], d) /\ \A e \in i .. k : g[e].depth >= d
    <3> DEFINE x == i + 1
               y == k - 1
               c == d + 1
    <3>1. /\ i \in a + 1 .. L /\ k \in a + 1 .. L /\ x \in a + 1 .. L + 1 /\ y \in 0 .. L
          /\ x <= y + 1 /\ x - 1 = i /\ k - 1 = y /\ y - x < j - i /\ c \in Int /\ c - 1 = d
      OBVIOUS
    <3>2. Clean(g[i], c)
      BY <2>1, <2>7, <3>1, ScanSteps
    <3>3. b[<<x, y>>]
      BY <2>7
    <3> HIDE DEF x, y, c
    <3>4. <<x, y>> \in S
      BY <1>1, <3>1
    <3>5. P(x, y)
      BY <3>4
    <3>6. Clean(g[y], c) /\ \A e \in x .. y : g[e].depth >= c
      BY <3>1, <3>2, <3>3, <3>5
    <3>7. Clean(g[k], d)
      BY <2>7, <3>1, <3>6, ScanSteps
    <3>8. \A e \in i .. k : e = i \/ e = k \/ e \in x .. y
      BY DEF x, y
    <3>9. \A e \in x .. y : g[e].depth >= d
      <4>1. \A e \in x .. y : g[e].depth \in Int
        <5>1. \A e \in x .. y : e \in a .. L
          BY <3>1
        <5> QED
          BY <5>1 DEF IsScan, State
      <4> QED
        BY <3>1, <3>6, <4>1
    <3>10. g[i].depth >= d /\ g[k].depth >= d
      BY <3>1, <3>2, <3>7 DEF Clean
    <3> QED
      BY <3>7, <3>8, <3>9, <3>10
  <2> QED
    BY <2>2, <2>3, <2>4, <2>5, <2>6, <2>7
<1> HIDE DEF S
<1>2. \A i \in a + 1 .. L + 1, j \in 0 .. L :
          /\ i <= j + 1
          /\ \A x \in a + 1 .. L + 1, y \in 0 .. L : x <= y + 1 /\ y - x < j - i => <<x, y>> \in S
          => <<i, j>> \in S
  BY <1>1
<1> HIDE DEF L
<1>3. \A i \in a + 1 .. L + 1, j \in 0 .. L : i <= j + 1 => <<i, j>> \in S
  BY <1>0, <1>2, BySpans
<1>4. \A i \in a + 1 .. L + 1, j \in 0 .. L : i <= j + 1 => P(i, j)
  BY <1>3 DEF S
<1> QED
  BY <1>4 DEF L

(* What a scan comes back from, without being above, may stand between       *)
(* braces.                                                                   *)
LEMMA ScanBalanced ==
    ASSUME NEW W, NEW t \in Seq(W), NEW a \in 0 .. Len(t), NEW g, IsScan(t, a, g), Clean(g[a], 0)
    PROVE  \A i \in a + 1 .. Len(t) + 1, j \in 0 .. Len(t) : \A d \in Int :
               /\ i <= j + 1 /\ Clean(g[i - 1], d) /\ Clean(g[j], d)
               /\ \A k \in i .. j : g[k].depth >= d
               => Balanced(t)[<<i, j>>]
<1> DEFINE L == Len(t)
           b == Balanced(t)
           P(i, j) == \A d \in Int :
                          /\ Clean(g[i - 1], d) /\ Clean(g[j], d)
                          /\ \A k \in i .. j : g[k].depth >= d
                          => b[<<i, j>>]
           S == {s \in (a + 1 .. L + 1) \X (0 .. L) : P(s[1], s[2])}
<1>0. L \in Nat /\ a \in Nat
  OBVIOUS
<1>00. \A i \in a .. L : g[i].depth \in Int /\ (~g[i].inside => ~g[i].escaped)
  <2>1. \A i \in a .. L : g[i].depth \in Int
    BY DEF IsScan, State
  <2>2. \A i \in a .. L : ~g[i].inside => ~g[i].escaped
    BY ScanOutside
  <2> QED
    BY <2>1, <2>2
<1>1. ASSUME NEW i \in a + 1 .. L + 1, NEW j \in 0 .. L, i <= j + 1,
             \A x \in a + 1 .. L + 1, y \in 0 .. L :
                 x <= y + 1 /\ y - x < j - i => <<x, y>> \in S
      PROVE  <<i, j>> \in S
  <2>1. SUFFICES ASSUME NEW d \in Int, Clean(g[i - 1], d), Clean(g[j], d),
                        \A k \in i .. j : g[k].depth >= d
                 PROVE  b[<<i, j>>]
    OBVIOUS
  <2>2. SUFFICES \/ i = j + 1
                 \/ i <= j /\ t[i] \notin {Open, Shut, Quote} /\ b[<<i + 1, j>>]
                 \/ \E k \in i + 1 .. j :
                       /\ IsString(t, i, k) \/ (t[i] = Open /\ t[k] = Shut /\ b[<<i + 1, k - 1>>])
                       /\ b[<<k + 1, j>>]
    <3>1. i \in 1 .. L + 2
      OBVIOUS
    <3> QED
      BY <3>1, BalancedIs
  <2> HIDE DEF b
  <2>3. SUFFICES ASSUME i # j + 1
                 PROVE  \/ i <= j /\ t[i] \notin {Open, Shut, Quote} /\ b[<<i + 1, j>>]
                        \/ \E k \in i + 1 .. j :
                              /\ \/ IsString(t, i, k)
                                 \/ t[i] = Open /\ t[k] = Shut /\ b[<<i + 1, k - 1>>]
                              /\ b[<<k + 1, j>>]
    OBVIOUS
  <2>4. i <= j /\ i \in a + 1 .. L /\ i \in i .. j /\ j \in a .. L
    BY <1>1, <2>3
  <2>5. /\ t[i] \notin {Open, Shut, Quote} => Clean(g[i], d)
        /\ t[i] = Quote => Within(g[i], d)
        /\ t[i] = Open => Clean(g[i], d + 1)
        /\ t[i] = Shut => Clean(g[i], d - 1)
    <3>1. t[i] \notin {Open, Shut, Quote} => Clean(g[i], d)
      BY <1>0, <2>1, <2>4, ScanSteps
    <3>2. t[i] = Quote => Within(g[i], d)
      BY <1>0, <2>1, <2>4, ScanSteps
    <3>3. t[i] = Open => Clean(g[i], d + 1)
      BY <1>0, <2>1, <2>4, ScanSteps
    <3>4. t[i] = Shut => Clean(g[i], d - 1)
      BY <1>0, <2>1, <2>4, ScanSteps
    <3> QED
      BY <3>1, <3>2, <3>3, <3>4
  <2>6. t[i] # Shut
    BY <2>1, <2>4, <2>5 DEF Clean
  <2>7. ASSUME NEW k \in i .. j, Clean(g[k], d) PROVE b[<<k + 1, j>>]
    <3> DEFINE x == k + 1
    <3>1. x \in a + 1 .. L + 1 /\ x <= j + 1 /\ j - x < j - i /\ x - 1 = k
      BY <1>0
    <3>2. \A e \in x .. j : g[e].depth >= d
      BY <2>1
    <3> HIDE DEF x
    <3>3. <<x, j>> \in S
      BY <1>1, <3>1
    <3>4. P(x, j)
      BY <3>3
    <3>5. b[<<x, j>>]
      BY <2>1, <2>7, <3>1, <3>2, <3>4
    <3> QED
      BY <3>5 DEF x
  <2>8. CASE t[i] \notin {Open, Shut, Quote}
    BY <2>4, <2>5, <2>7, <2>8
  <2>9. CASE t[i] = Quote
    <3> DEFINE K == {k \in i + 1 .. j : ~g[k].inside}
               k == Min(K)
    <3>1. i # j
      BY <2>1, <2>5, <2>9 DEF Clean, Within
    <3>2. K \in SUBSET Nat /\ j \in K
      BY <2>1, <2>4, <3>1 DEF Clean
    <3>3. k \in K /\ \A e \in K : k <= e
      BY <3>2, Least
    <3>4. k \in i + 1 .. j /\ ~g[k].inside
      BY <3>3
    <3>5. \A e \in i + 1 .. k - 1 : g[e].inside
      <4>1. \A e \in i + 1 .. k - 1 : e \in i + 1 .. j /\ ~ (k <= e)
        BY <3>4
      <4> QED
        BY <3>3, <4>1
    <3> HIDE DEF k, K
    <3> DEFINE x == i + 1
               y == k - 1
    <3>6. /\ k \in a + 1 .. L /\ x \in a + 1 .. L + 1 /\ y \in 0 .. L /\ y \in i .. j
          /\ x <= y + 1 /\ x - 1 = i /\ k - 1 = y /\ k \in i .. j
      BY <1>0, <2>4, <3>4
    <3>7. g[y].inside
      <4>1. y = i \/ y \in i + 1 .. k - 1
        BY <3>6
      <4> QED
        BY <2>5, <2>9, <3>5, <4>1 DEF Within
    <3>8. \A e \in x .. y : g[e].inside
      BY <3>5
    <3>9. g[i].inside /\ ~g[i].escaped
      BY <2>5, <2>9 DEF Within
    <3> HIDE DEF x, y
    <3>10. t[k] = Quote /\ ~g[y].escaped
      BY <1>0, <3>4, <3>6, <3>7, ScanLeaves
    <3>11. Quotable(t)[<<x, y>>]
      BY <1>0, <3>6, <3>8, <3>9, <3>10, ScanQuoted
    <3>12. Within(g[y], d)
      BY <1>0, <2>5, <2>9, <3>6, <3>11, QuotedScan
    <3>13. Clean(g[k], d)
      BY <1>0, <3>6, <3>10, <3>12, ScanSteps
    <3>14. b[<<k + 1, j>>]
      BY <2>7, <3>6, <3>13
    <3>15. IsString(t, i, k)
      BY <2>9, <3>10, <3>11 DEF IsString, x, y
    <3> QED
      BY <3>4, <3>14, <3>15
  <2>10. CASE t[i] = Open
    <3> DEFINE K == {k \in i + 1 .. j : g[k].depth <= d}
               k == Min(K)
    <3>0. g[i].depth = d + 1 /\ g[j].depth = d
      BY <2>1, <2>5, <2>10 DEF Clean
    <3>1. i # j
      BY <3>0
    <3>2. K \in SUBSET Nat /\ j \in K
      BY <2>4, <3>0, <3>1
    <3>3. k \in K /\ \A e \in K : k <= e
      BY <3>2, Least
    <3>4. k \in i + 1 .. j /\ g[k].depth <= d
      BY <3>3
    <3>5. \A e \in i + 1 .. k - 1 : g[e].depth >= d + 1
      <4>1. \A e \in i + 1 .. k - 1 : e \in i + 1 .. j /\ ~ (k <= e) /\ e \in a .. L
        BY <1>0, <3>4
      <4>2. \A e \in i + 1 .. k - 1 : ~ (g[e].depth <= d)
        BY <3>3, <4>1
      <4>3. \A e \in i + 1 .. k - 1 : g[e].depth \in Int
        BY <1>00, <4>1
      <4> QED
        BY <4>2, <4>3
    <3> HIDE DEF k, K
    <3> DEFINE x == i + 1
               y == k - 1
               c == d + 1
    <3>6. /\ k \in a + 1 .. L /\ x \in a + 1 .. L + 1 /\ y \in 0 .. L /\ y \in i .. j /\ y \in a .. L
          /\ x <= y + 1 /\ x - 1 = i /\ k - 1 = y /\ k \in i .. j /\ k \in a .. L /\ y - x < j - i
          /\ c \in Int /\ c > d
      BY <1>0, <2>4, <3>4
    <3>7. g[y].depth >= c
      <4>1. y = i \/ y \in i + 1 .. k - 1
        BY <3>6
      <4> QED
        BY <3>0, <3>5, <3>6, <4>1
    <3>8. \A e \in x .. y : g[e].depth >= c
      BY <3>5
    <3>9. Clean(g[i], c)
      BY <2>5, <2>10
    <3> HIDE DEF x, y
    <3>10. g[k].depth < g[y].depth /\ g[k].depth \in Int /\ g[y].depth \in Int
      BY <1>00, <3>4, <3>6, <3>7
    <3>11. /\ t[k] = Shut /\ ~g[y].inside /\ ~g[k].inside /\ g[k].depth = g[y].depth - 1
      BY <1>0, <3>6, <3>10, ScanLeaves
    <3>12. g[k].depth = d /\ g[y].depth = c
      BY <3>4, <3>7, <3>10, <3>11
    <3>13. Clean(g[y], c) /\ Clean(g[k], d)
      BY <1>00, <3>6, <3>11, <3>12 DEF Clean
    <3> HIDE DEF c
    <3>14. <<x, y>> \in S
      BY <1>1, <3>6
    <3>15. P(x, y)
      BY <3>14
    <3>16. b[<<x, y>>]
      BY <3>6, <3>8, <3>9, <3>13, <3>15
    <3>17. b[<<k + 1, j>>]
      BY <2>7, <3>6, <3>13
    <3> QED
      BY <2>10, <3>4, <3>11, <3>16, <3>17 DEF x, y
  <2> QED
    BY <2>6, <2>8, <2>9, <2>10
<1> HIDE DEF S
<1>2. \A i \in a + 1 .. L + 1, j \in 0 .. L :
          /\ i <= j + 1
          /\ \A x \in a + 1 .. L + 1, y \in 0 .. L : x <= y + 1 /\ y - x < j - i => <<x, y>> \in S
          => <<i, j>> \in S
  BY <1>1
<1> HIDE DEF L
<1>3. \A i \in a + 1 .. L + 1, j \in 0 .. L : i <= j + 1 => <<i, j>> \in S
  BY <1>0, <1>2, BySpans
<1>4. \A i \in a + 1 .. L + 1, j \in 0 .. L : i <= j + 1 => P(i, j)
  BY <1>3 DEF S
<1> QED
  BY <1>4 DEF L

(* The scan ends at the first object of the grammar, and only there.         *)
LEMMA FirstObjects == ASSUME TextTypeOK PROVE ObjectIsFirst
<1>1. PICK W : text \in Seq(W)
  BY DEF TextTypeOK
<1> DEFINE t == text
           L == Len(t)
           start == FirstOpen(t)
           a == start - 1
           b == Balanced(t)
           whole == {j \in start + 1 .. L : t[j] = Shut /\ b[<<start + 1, j - 1>>]}
<1>2. SUFFICES /\ whole = {} => FirstObject(t) = Absent
               /\ whole # {} => \E j \in whole : FirstObject(t) = SubSeq(t, start, j)
  BY DEF ObjectIsFirst
<1>3. start \in 1 .. L + 1 /\ (start <= L => t[start] = Open)
  BY <1>1, FirstIs
<1>4. PICK g : /\ IsScan(t, a, g)
               /\ g[a] = [depth |-> 0, inside |-> FALSE, escaped |-> FALSE]
               /\ FirstObject(t) = IF ShutsOf(t, start, g) = {} THEN Absent
                                   ELSE SubSeq(t, start, Min(ShutsOf(t, start, g)))
  BY <1>1, ObjectIs
<1> DEFINE shuts == ShutsOf(t, start, g)
<1>5. Clean(g[a], 0)
  BY <1>4 DEF Clean
<1>6. L \in Nat /\ a \in Nat /\ a \in 0 .. L /\ a + 1 = start /\ t \in Seq(W)
  BY <1>1, <1>3
<1> HIDE DEF t, start, a, b
<1>7. Open # Shut
  BY TextsAssumption
<1>8. CASE start = L + 1
  <2>1. whole = {} /\ shuts = {}
    BY <1>6, <1>8 DEF ShutsOf
  <2> QED
    BY <1>4, <2>1
<1>9. CASE start # L + 1
  <2>1. start \in 1 .. L /\ start \in a + 1 .. L /\ t[start] = Open /\ start - 1 = a
    BY <1>3, <1>6, <1>9
  <2>2. Clean(g[start], 1)
    <3>1. Clean(g[start - 1], 0)
      BY <1>5, <2>1
    <3>2. Clean(g[start], 0 + 1)
      BY <1>4, <1>6, <2>1, <3>1, ScanSteps
    <3> QED
      BY <3>2
  <2>3. \A k \in a .. L : g[k].depth \in Int /\ (~g[k].inside => ~g[k].escaped)
    <3>1. \A k \in a .. L : g[k].depth \in Int
      BY <1>4 DEF IsScan, State
    <3>2. \A k \in a .. L : ~g[k].inside => ~g[k].escaped
      BY <1>4, <1>5, <1>6, ScanOutside
    <3> QED
      BY <3>1, <3>2
  <2>4. shuts \in SUBSET Nat /\ \A k \in shuts : k \in start .. L
    BY <2>1 DEF ShutsOf
  <2>5. ASSUME shuts # {} PROVE Min(shuts) \in whole
    <3> DEFINE j == Min(shuts)
    <3>1. j \in shuts /\ \A k \in shuts : j <= k
      BY <2>4, <2>5, Least
    <3>2. j \in start .. L /\ t[j] = Shut /\ g[j].depth = 0 /\ ~g[j].inside
      BY <3>1 DEF ShutsOf
    <3> HIDE DEF j, shuts
    <3>3. j # start
      BY <1>7, <2>1, <3>2
    <3> DEFINE x == start + 1
               y == j - 1
    <3>4. /\ j \in a + 1 .. L /\ y \in a .. L /\ y \in start .. L /\ x \in a + 1 .. L + 1 /\ y \in 0 .. L
          /\ x <= y + 1 /\ x - 1 = start /\ j - 1 = y /\ j \in start + 1 .. L
      BY <1>6, <2>1, <3>2, <3>3
    <3> HIDE DEF x, y
    <3>5. ~g[y].inside /\ g[j].depth = g[y].depth - 1
      <4>1. IsScan(t, a, g)
        BY <1>4
      <4>0. j \in a + 1 .. Len(t) /\ t[j] = Shut /\ ~g[j].inside
        BY <3>2, <3>4 DEF L
      <4>2. ~g[j - 1].inside /\ g[j].depth = g[j - 1].depth - 1
        <5> HIDE DEF L, whole
        <5>1. t \in Seq(W) /\ a \in Nat
          BY <1>6
        <5> QED
          BY ONLY <4>0, <4>1, <5>1, ScanLeaves
      <4> QED
        BY <3>4, <4>2
    <3>6. Clean(g[y], 1)
      BY <2>3, <3>2, <3>4, <3>5 DEF Clean
    <3>7. \A k \in start .. y : g[k].depth >= 1
      <4> DEFINE K == {k \in start .. y : ~ (g[k].depth >= 1)}
      <4>1. SUFFICES ASSUME K # {} PROVE FALSE
        OBVIOUS
      <4> DEFINE k == Min(K)
      <4>2. K \in SUBSET Nat
        BY <1>6, <2>1
      <4>3. k \in K /\ \A e \in K : k <= e
        BY <4>1, <4>2, Least
      <4>4. k \in start .. y /\ ~ (g[k].depth >= 1)
        BY <4>3
      <4>5. k # start
        BY <2>2, <4>4 DEF Clean
      <4>6. k - 1 \in start .. y /\ ~ (k <= k - 1)
        BY <1>6, <2>1, <3>4, <4>4, <4>5
      <4>7. g[k - 1].depth >= 1
        BY <4>3, <4>6
      <4> HIDE DEF k, K
      <4>8. k \in a + 1 .. L /\ k - 1 \in a .. L /\ k \in a .. L /\ k \in start .. L /\ ~ (j <= k)
        BY <1>6, <2>1, <3>4, <4>4, <4>5
      <4>9. g[k].depth < g[k - 1].depth /\ g[k].depth \in Int /\ g[k - 1].depth \in Int
        BY <2>3, <4>4, <4>7, <4>8
      <4>10. t[k] = Shut /\ ~g[k].inside /\ g[k].depth = g[k - 1].depth - 1
        BY <1>4, <1>6, <4>8, <4>9, ScanLeaves
      <4>11. g[k].depth = 0
        BY <4>4, <4>7, <4>9, <4>10
      <4>12. k \in shuts
        BY <4>8, <4>10, <4>11 DEF shuts, ShutsOf
      <4> QED
        BY <3>1, <4>8, <4>12
    <3>8. \A k \in x .. y : g[k].depth >= 1
      <4>1. \A k \in x .. y : k \in start .. y
        BY <2>1, <3>4
      <4> QED
        BY <3>7, <4>1
    <3>9. Clean(g[x - 1], 1)
      BY <2>2, <3>4
    <3>10. b[<<x, y>>]
      <4>1. IsScan(t, a, g)
        BY <1>4
      <4>2. Balanced(t)[<<x, y>>]
        <5> HIDE DEF whole, L, shuts
        <5> QED
          BY ONLY <1>5, <1>6, <3>4, <3>6, <3>8, <3>9, <4>1, 1 \in Int, ScanBalanced DEF L
      <4> QED
        BY <4>2 DEF b
    <3> QED
      BY <3>2, <3>4, <3>10 DEF x, y, j
  <2>6. ASSUME NEW j \in whole PROVE shuts # {} /\ Min(shuts) = j
    <3> DEFINE x == start + 1
               y == j - 1
    <3>1. j \in start + 1 .. L /\ t[j] = Shut /\ b[<<x, y>>]
      OBVIOUS
    <3>2. /\ j \in a + 1 .. L /\ x \in a + 1 .. L + 1 /\ y \in 0 .. L
          /\ x <= y + 1 /\ x - 1 = start /\ j - 1 = y /\ j \in start .. L
      BY <1>6, <2>1, <3>1
    <3> HIDE DEF x, y, shuts, whole
    <3>3. Clean(g[x - 1], 1)
      BY <2>2, <3>2
    <3>4. Clean(g[y], 1) /\ \A k \in x .. y : g[k].depth >= 1
      BY <1>4, <1>6, <3>1, <3>2, <3>3, BalancedScan DEF b
    <3>5. Clean(g[j], 0)
      <4>1. Clean(g[j - 1], 1)
        BY <3>2, <3>4
      <4>2. Clean(g[j], 1 - 1)
        BY <1>4, <1>6, <3>1, <3>2, <4>1, ScanSteps, SMTT(20)
      <4> QED
        BY <4>2
    <3>6. j \in shuts
      BY <3>1, <3>2, <3>5 DEF Clean, shuts, ShutsOf
    <3> DEFINE m == Min(shuts)
    <3>7. m \in shuts /\ m <= j
      BY <2>4, <3>6, Least
    <3>8. m \in start .. L /\ g[m].depth = 0
      BY <3>7 DEF shuts, ShutsOf
    <3> HIDE DEF m
    <3>9. ASSUME m # j PROVE FALSE
      <4>1. m = start \/ m \in x .. y
        BY <2>1, <3>2, <3>7, <3>8, <3>9 DEF x
      <4> QED
        BY <2>2, <3>4, <3>8, <4>1 DEF Clean
    <3> QED
      BY <3>6, <3>9 DEF m
  <2> HIDE DEF shuts, whole
  <2>7. FirstObject(t) = IF shuts = {} THEN Absent ELSE SubSeq(t, start, Min(shuts))
    BY <1>4 DEF shuts
  <2>8. ASSUME whole = {} PROVE FirstObject(t) = Absent
    BY <2>5, <2>7, <2>8
  <2>9. ASSUME whole # {} PROVE \E j \in whole : FirstObject(t) = SubSeq(t, start, j)
    BY <2>6, <2>7, <2>9
  <2> QED
    BY <2>8, <2>9 DEF whole
<1> QED
  BY <1>8, <1>9

-----------------------------------------------------------------------------
(* Extraction is exact for every text that grows: what it finds depends on   *)
(* the text alone, so that each part holds of every text of its type         *)
(* (RegexExtractor::extract, extract_beliefs, resolve_date,                  *)
(* first_json_object).                                                       *)
THEOREM ExtractionExact == TextSpec => []ExtractionIsExact
<1>1. TextInit => TextTypeOK
  <2>1. SUFFICES ASSUME TextInit PROVE TextTypeOK
    OBVIOUS
  <2>2. vocabulary \in Vocabularies /\ text = <<>>
    BY <2>1 DEF TextInit
  <2>3. MaxLen[vocabulary] \in Nat
    BY <2>2, TextsAssumption
  <2> QED
    BY <2>2, <2>3 DEF TextTypeOK
<1>2. TextTypeOK /\ [TextNext]_written => TextTypeOK'
  <2>1. SUFFICES ASSUME TextTypeOK, [TextNext]_written PROVE TextTypeOK'
    OBVIOUS
  <2>2. ASSUME NEW word \in vocabulary, Write(word) PROVE TextTypeOK'
    <3>1. /\ Len(text) < MaxLen[vocabulary] /\ text' = Append(text, word)
          /\ vocabulary' = vocabulary
      BY <2>2 DEF Write
    <3>2. vocabulary \in Vocabularies /\ text \in Seq(vocabulary) /\ MaxLen[vocabulary] \in Nat
      BY <2>1, TextsAssumption DEF TextTypeOK
    <3>3. text' \in Seq(vocabulary) /\ Len(text') = Len(text) + 1
      BY <3>1, <3>2
    <3> QED
      BY <3>1, <3>2, <3>3 DEF TextTypeOK
  <2>3. CASE UNCHANGED written
    BY <2>1, <2>3 DEF TextTypeOK, written
  <2> QED
    BY <2>1, <2>2, <2>3 DEF TextNext
<1>3. TextTypeOK => ExtractionIsExact
  BY ExactMatches, SaidTwice, StandingMatches, DatesMeant, OwnTopics, FirstObjects
     DEF ExtractionIsExact
<1> QED
  BY <1>1, <1>2, <1>3, PTL DEF TextSpec

=============================================================================
