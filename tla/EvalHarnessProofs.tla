------------------------- MODULE EvalHarnessProofs -------------------------
(***************************************************************************)
(* Proofs about EvalHarness: that the brain holds all that a replay read,  *)
(* in the minute it was captured in, that the report adds up, and that     *)
(* the score the gate goes by is sound, for any inputs, texts of any       *)
(* length, any questions and any brain.                                    *)
(*                                                                         *)
(* What chunk_rows makes of rows of any number is followed row by row:     *)
(* Opens and Covers hold of the chunks of the first n rows (ChunksCover),  *)
(* and of the chunks of the first n sources (ItemsCover).  The invariant   *)
(* (Inv) ties the brain to them: what has been observed since the run      *)
(* began are those chunks, in order, but for the ones still to observe     *)
(* (Stored).                                                               *)
(*                                                                         *)
(* A score is a partition of the questions by kind (ThreeKinds), and the   *)
(* hits grow with the list (HitsGrow).                                     *)
(***************************************************************************)
EXTENDS EvalHarness, ListingProofs

Text == Seq(Characters)

-----------------------------------------------------------------------------
(* Texts.                                                                    *)

(* A set of positions of a text has a first and a last one.                  *)
LEMMA Bounds ==
    ASSUME NEW n \in Nat, NEW S \in SUBSET (1 .. n), S # {}
    PROVE  /\ Min(S) \in S /\ \A k \in S : Min(S) <= k
           /\ Max(S) \in S /\ \A k \in S : k <= Max(S)
<1>1. PICK m \in S : \A k \in S : m <= k
  BY LeastNatural
<1>2. Min(S) \in S /\ \A k \in S : Min(S) <= k
  BY <1>1 DEF Min
<1> DEFINE T == {n - k : k \in S}
<1>3. T \in SUBSET Nat /\ T # {}
  OBVIOUS
<1>4. PICK t \in T : \A k \in T : t <= k
  BY <1>3, LeastNatural
<1>5. PICK l \in S : t = n - l
  BY <1>4
<1>6. \A k \in S : k <= l
  <2> SUFFICES ASSUME NEW k \in S PROVE k <= l
    OBVIOUS
  <2>1. n - k \in T
    OBVIOUS
  <2>2. n - l <= n - k
    BY <1>4, <1>5, <2>1
  <2> QED
    BY <2>2
<1>7. Max(S) \in S /\ \A k \in S : k <= Max(S)
  BY <1>6 DEF Max
<1> QED
  BY <1>2, <1>7

(* part stands in s behind its first o characters.                           *)
StandsAt(s, part, o) ==
    /\ o \in 0 .. Len(s) - Len(part)
    /\ \A k \in 1 .. Len(part) : part[k] = s[o + k]

(* A text contains another when that stands somewhere in it.                 *)
LEMMA Containing ==
    ASSUME NEW s \in Text, NEW part \in Text
    PROVE  ContainsText(s, part) <=> \E o \in Nat : StandsAt(s, part, o)
<1> DEFINE n == Len(s)
           m == Len(part)
           Cut(i) == SubSeq(s, i, i + m - 1)
<1>1. n \in Nat /\ m \in Nat
  BY DEF Text
<1>2. ASSUME NEW i \in 1 .. n - m + 1
      PROVE  /\ Cut(i) \in Text /\ Len(Cut(i)) = m
             /\ \A k \in 1 .. m : Cut(i)[k] = s[i - 1 + k]
  <2>1. i \in 1 .. n + 1 /\ i + m - 1 \in i - 1 .. n
    BY <1>1
  <2>2. \A k \in i .. i + m - 1 : s[k] \in Characters
    BY <1>1, <2>1 DEF Text
  <2>3. Cut(i) \in Text
    BY <1>1, <2>1, <2>2 DEF Text
  <2>4. Len(Cut(i)) = m
    BY <1>1, <2>1, <2>2 DEF Text
  <2>5. \A k \in 1 .. m : Cut(i)[k] = s[i - 1 + k]
    BY <1>1, <2>1, <2>2 DEF Text
  <2> QED
    BY <2>3, <2>4, <2>5
<1> HIDE DEF Cut
<1>3. ASSUME NEW i \in 1 .. n - m + 1, Cut(i) = part PROVE StandsAt(s, part, i - 1) /\ i - 1 \in Nat
  BY <1>1, <1>2, <1>3 DEF StandsAt
<1>4. ASSUME NEW o \in Nat, StandsAt(s, part, o) PROVE o + 1 \in 1 .. n - m + 1 /\ Cut(o + 1) = part
  <2>1. o + 1 \in 1 .. n - m + 1 /\ (o + 1) - 1 = o
    BY <1>1, <1>4 DEF StandsAt
  <2>2. Cut(o + 1) \in Text /\ Len(Cut(o + 1)) = m /\ \A k \in 1 .. m : Cut(o + 1)[k] = part[k]
    BY <1>2, <1>4, <2>1 DEF StandsAt
  <2> QED
    BY <2>1, <2>2, <1>1 DEF Text
<1>5. ContainsText(s, part) <=> \E i \in 1 .. n - m + 1 : Cut(i) = part
  BY DEF ContainsText, Cut
<1> QED
  BY <1>3, <1>4, <1>5

(* What a text contains it contains when more follows, and what follows is   *)
(* contained as well.                                                        *)
LEMMA ContainingMore ==
    ASSUME NEW s \in Text, NEW t \in Text, NEW part \in Text, Newline \in Characters
    PROVE  LET more == s \o <<Newline>> \o t IN
           /\ more \in Text /\ Len(more) = Len(s) + 1 + Len(t)
           /\ \A i \in 1 .. Len(s) : more[i] = s[i]
           /\ ContainsText(s, part) => ContainsText(more, part)
           /\ ContainsText(more, t)
<1> DEFINE more == s \o <<Newline>> \o t
<1>1. /\ more \in Text /\ Len(more) = Len(s) + 1 + Len(t)
      /\ \A i \in 1 .. Len(s) : more[i] = s[i]
      /\ \A i \in 1 .. Len(t) : more[Len(s) + 1 + i] = t[i]
  BY DEF Text
<1>2. Len(s) \in Nat /\ Len(t) \in Nat /\ Len(part) \in Nat
  BY DEF Text
<1> HIDE DEF more
<1>3. ASSUME ContainsText(s, part) PROVE ContainsText(more, part)
  <2>1. PICK o \in Nat : StandsAt(s, part, o)
    BY <1>3, Containing
  <2>2. StandsAt(more, part, o)
    <3>1. o \in 0 .. Len(more) - Len(part)
      BY <1>1, <1>2, <2>1 DEF StandsAt
    <3>2. ASSUME NEW k \in 1 .. Len(part) PROVE part[k] = more[o + k]
      <4>1. o + k \in 1 .. Len(s) /\ part[k] = s[o + k]
        BY <1>2, <2>1 DEF StandsAt
      <4> QED
        BY <1>1, <4>1
    <3> QED
      BY <3>1, <3>2 DEF StandsAt
  <2> QED
    BY <1>1, <2>2, Containing
<1>4. ContainsText(more, t)
  <2>1. StandsAt(more, t, Len(s) + 1)
    BY <1>1, <1>2 DEF StandsAt
  <2> QED
    BY <1>1, <1>2, <2>1, Containing
<1> QED
  BY <1>1, <1>3, <1>4 DEF more

(* A text contains itself.                                                   *)
LEMMA ContainsItself == ASSUME NEW s \in Text PROVE ContainsText(s, s)
<1>1. StandsAt(s, s, 0)
  BY DEF StandsAt, Text
<1> QED
  BY <1>1, Containing

(* And what it ends in (the last text of a chunk, IsSuffix).                 *)
LEMMA ContainsSuffix ==
    ASSUME NEW s \in Text, NEW t \in Text, IsSuffix(t, s)
    PROVE  ContainsText(s, t)
<1> DEFINE n == Len(s)
           m == Len(t)
           rs == Reverse(s)
           rt == Reverse(t)
<1>1. n \in Nat /\ m \in Nat
  BY DEF Text
<1>2. rs \in Text /\ Len(rs) = n /\ \A i \in 1 .. n : rs[i] = s[(n - i) + 1]
  BY DEF Reverse, Text
<1>3. rt \in Text /\ Len(rt) = m /\ \A i \in 1 .. m : rt[i] = t[(m - i) + 1]
  BY DEF Reverse, Text
<1>4. m <= n /\ SubSeq(rt, 1, m) = SubSeq(rs, 1, m)
  BY <1>2, <1>3 DEF IsSuffix, IsPrefix
<1> HIDE DEF rs, rt
<1>5. \A i \in 1 .. m : SubSeq(rt, 1, m)[i] = rt[i] /\ SubSeq(rs, 1, m)[i] = rs[i]
  BY <1>1, <1>2, <1>3, <1>4 DEF Text
<1>6. ASSUME NEW k \in 1 .. m PROVE t[k] = s[(n - m) + k]
  <2>1. m - k + 1 \in 1 .. m /\ m - k + 1 \in 1 .. n
    BY <1>1, <1>4
  <2>2. rt[m - k + 1] = rs[m - k + 1]
    BY <1>4, <1>5, <2>1
  <2>3. (m - (m - k + 1)) + 1 = k /\ (n - (m - k + 1)) + 1 = (n - m) + k
    BY <1>1
  <2>4. rt[m - k + 1] = t[k] /\ rs[m - k + 1] = s[(n - m) + k]
    BY <1>2, <1>3, <2>1, <2>3
  <2> QED
    BY <2>2, <2>4
<1>7. StandsAt(s, t, n - m) /\ n - m \in Nat
  BY <1>1, <1>4, <1>6 DEF StandsAt
<1> QED
  BY <1>7, Containing

(* And its lines (text_already_present).                                     *)
LEMMA ContainsLine ==
    ASSUME NEW s \in Text, NEW line \in LinesOf(s)
    PROVE  line \in Text /\ ContainsText(s, line)
<1> DEFINE n == Len(s)
           ends == {0, n + 1} \cup {i \in DOMAIN s : s[i] = Newline}
<1>1. n \in Nat /\ DOMAIN s = 1 .. n
  BY DEF Text
<1>2. PICK b \in ends \X ends : b[1] < b[2] /\ line = SubSeq(s, b[1] + 1, b[2] - 1)
  BY DEF LinesOf
<1> DEFINE x == b[1]
           y == b[2]
<1>3. x \in 0 .. n + 1 /\ y \in 0 .. n + 1 /\ x < y /\ line = SubSeq(s, x + 1, y - 1)
  BY <1>1, <1>2
<1> HIDE DEF ends, x, y
<1> DEFINE i == x + 1
           m == y - x - 1
<1>4. i \in 1 .. n + 1 /\ m \in Nat /\ i \in 1 .. n - m + 1 /\ y - 1 = i + m - 1
  BY <1>1, <1>3
<1>5. line = SubSeq(s, i, i + m - 1)
  BY <1>3, <1>4
<1> HIDE DEF i, m
<1>6. \A k \in i .. i + m - 1 : s[k] \in Characters
  BY <1>1, <1>4 DEF Text
<1>7. line \in Text /\ Len(line) = m
  BY <1>1, <1>4, <1>5, <1>6 DEF Text
<1> QED
  BY <1>4, <1>5, <1>7 DEF ContainsText

-----------------------------------------------------------------------------
(* Trim.                                                                     *)

(* A text that begins with a solid character.                                *)
Solid(s) == s \in Text /\ Len(s) >= 1 /\ s[1] \notin {Newline, Blank}

(* Trim leaves nothing, or a text that begins with a solid character; and it *)
(* leaves something of a text that begins with one.                          *)
LEMMA Trimmed ==
    ASSUME NEW s \in Text
    PROVE  /\ Trim(s) \in Text
           /\ Trim(s) = <<>> \/ Solid(Trim(s))
           /\ Solid(s) => Trim(s) # <<>>
<1> DEFINE solid == {i \in DOMAIN s : s[i] \notin {Newline, Blank}}
           a == Min(solid)
           b == Max(solid)
<1>1. Len(s) \in Nat /\ DOMAIN s = 1 .. Len(s) /\ \A i \in 1 .. Len(s) : s[i] \in Characters
  BY DEF Text
<1>2. CASE solid = {}
  <2>1. Trim(s) = <<>>
    BY <1>2 DEF Trim
  <2>2. ~ Solid(s)
    <3>1. Len(s) >= 1 => 1 \in DOMAIN s
      BY <1>1
    <3> QED
      BY <1>2, <3>1 DEF Solid
  <2> QED
    BY <2>1, <2>2 DEF Text
<1>3. CASE solid # {}
  <2>1. Trim(s) = SubSeq(s, a, b)
    BY <1>3 DEF Trim
  <2>2. a \in solid /\ b \in solid /\ a <= b
    BY <1>1, <1>3, Bounds
  <2>3. a \in 1 .. Len(s) /\ b \in 1 .. Len(s) /\ s[a] \notin {Newline, Blank}
    BY <1>1, <2>2
  <2> HIDE DEF a, b, solid
  <2>4. \A k \in a .. b : s[k] \in Characters
    BY <1>1, <2>3
  <2>5. SubSeq(s, a, b) \in Text /\ Len(SubSeq(s, a, b)) = b - a + 1
    BY <1>1, <2>2, <2>3, <2>4 DEF Text
  <2>6. SubSeq(s, a, b)[1] = s[a]
    BY <1>1, <2>2, <2>3, <2>4 DEF Text
  <2>7. Len(SubSeq(s, a, b)) >= 1 /\ SubSeq(s, a, b) # <<>>
    BY <2>2, <2>3, <2>5
  <2> QED
    BY <2>1, <2>3, <2>5, <2>6, <2>7 DEF Solid
<1> QED
  BY <1>2, <1>3

-----------------------------------------------------------------------------
(* chunk_rows.                                                               *)

Labels == ToSet(Sources)
Apps   == {c.app : c \in Inputs} \cup {"dictation"}
Chunk  == [app : Apps, minute : Nat \cup {OddMinute}, text : Text, ts : Stamps]
Row    == {r \in Chunk : r.minute = MinuteKey(r.ts)}

AllSolid(chunks) == \A k \in 1 .. Len(chunks) : Solid(chunks[k].text)

(* A row without words changes nothing; any other is found in a chunk of its *)
(* app and minute: its last one when that is, else a new one.  A chunk keeps *)
(* its app, its minute and what it contained.                                *)
LEMMA FoldedType ==
    ASSUME NEW chunks \in Seq(Chunk), NEW row \in Chunk, Newline \in Characters
    PROVE  Folded(chunks, row) \in Seq(Chunk)
<1> DEFINE t == Trim(row.text)
           n == Len(chunks)
           last == chunks[n]
           more == last.text \o <<Newline>> \o t
<1>1. row.text \in Text /\ t \in Text
  <2>1. row.text \in Text
    BY DEF Chunk
  <2> QED
    BY <2>1, Trimmed
<1> HIDE DEF t
<1>2. [row EXCEPT !.text = t] \in Chunk
  BY <1>1 DEF Chunk
<1>3. Append(chunks, [row EXCEPT !.text = t]) \in Seq(Chunk)
  BY <1>2
<1>4. ASSUME chunks # <<>>
      PROVE  Append(Front(chunks), [last EXCEPT !.text = more]) \in Seq(Chunk)
  <2>1. n \in Nat \ {0} /\ last \in Chunk
    BY <1>4
  <2>2. last.text \in Text
    BY <2>1 DEF Chunk
  <2>3. more \in Text
    BY <1>1, <2>2, ContainingMore
  <2> HIDE DEF last, more
  <2>4. [last EXCEPT !.text = more] \in Chunk
    BY <2>1, <2>3 DEF Chunk
  <2>5. Front(chunks) \in Seq(Chunk)
    BY <2>1 DEF Front
  <2> QED
    BY <2>4, <2>5
<1>5. Folded(chunks, row) =
        IF t = <<>> THEN chunks
        ELSE IF chunks # <<>> /\ SameRun(last, row)
        THEN IF IsSuffix(t, last.text) \/ AlreadyPresent(last.text, t) THEN chunks
             ELSE Append(Front(chunks), [last EXCEPT !.text = more])
        ELSE Append(chunks, [row EXCEPT !.text = t])
  BY DEF Folded, t, Last
<1> QED
  BY <1>3, <1>4, <1>5

(* What one row does to the chunks.                                          *)
Folds(new, chunks, row) ==
    /\ AllSolid(new)
    /\ Len(new) \in {Len(chunks), Len(chunks) + 1}
    /\ \A k \in 1 .. Len(chunks) :
          /\ new[k].app = chunks[k].app /\ new[k].minute = chunks[k].minute
          /\ \A part \in Text :
                ContainsText(chunks[k].text, part) => ContainsText(new[k].text, part)
    /\ Trim(row.text) # <<>> =>
          \E k \in 1 .. Len(new) :
              SameRun(new[k], row) /\ ContainsText(new[k].text, Trim(row.text))
    /\ Len(new) = Len(chunks) + 1 => Trim(row.text) # <<>> /\ SameRun(new[Len(new)], row)

(* Folding does no other.                                                    *)
LEMMA FoldedFolds ==
    ASSUME NEW chunks \in Seq(Chunk), NEW row \in Chunk, Newline \in Characters, AllSolid(chunks)
    PROVE  Folds(Folded(chunks, row), chunks, row)
<1> DEFINE t == Trim(row.text)
           n == Len(chunks)
           last == chunks[n]
           more == last.text \o <<Newline>> \o t
           fresh == [row EXCEPT !.text = t]
           longer == [last EXCEPT !.text = more]
           new == Folded(chunks, row)
<1>1. t \in Text /\ (t = <<>> \/ Solid(t))
  <2>1. row.text \in Text
    BY DEF Chunk
  <2> QED
    BY <2>1, Trimmed
<1>2. n \in Nat /\ \A k \in 1 .. n : chunks[k] \in Chunk /\ chunks[k].text \in Text
  <2>1. \A c \in Chunk : c.text \in Text
    BY DEF Chunk
  <2> QED
    BY <2>1
<1>3. new = IF t = <<>> THEN chunks
            ELSE IF chunks # <<>> /\ SameRun(last, row)
            THEN IF IsSuffix(t, last.text) \/ AlreadyPresent(last.text, t) THEN chunks
                 ELSE Append(Front(chunks), longer)
            ELSE Append(chunks, fresh)
  BY DEF Folded, Last
<1> SUFFICES Folds(new, chunks, row)
  OBVIOUS
<1> HIDE DEF new
<1>5. CASE t = <<>>
  BY <1>2, <1>3, <1>5 DEF Folds
<1>6. CASE t # <<>> /\ chunks # <<>> /\ SameRun(last, row)
  <2>1. n \in 1 .. n /\ last \in Chunk /\ last.text \in Text /\ Solid(last.text)
    BY <1>2, <1>6 DEF AllSolid
  <2>2. CASE IsSuffix(t, last.text) \/ AlreadyPresent(last.text, t)
    <3>1. new = chunks
      BY <1>3, <1>6, <2>2
    <3>2. ContainsText(last.text, t)
      BY <1>1, <2>1, <2>2, ContainsSuffix, ContainsLine DEF AlreadyPresent
    <3> QED
      BY <1>2, <1>6, <2>1, <3>1, <3>2 DEF Folds
  <2>3. CASE ~ (IsSuffix(t, last.text) \/ AlreadyPresent(last.text, t))
    <3>1. new = Append(Front(chunks), longer)
      BY <1>3, <1>6, <2>3
    <3>2. /\ more \in Text /\ Len(more) = Len(last.text) + 1 + Len(t)
          /\ \A i \in 1 .. Len(last.text) : more[i] = last.text[i]
          /\ \A part \in Text : ContainsText(last.text, part) => ContainsText(more, part)
          /\ ContainsText(more, t)
      BY <1>1, <2>1, ContainingMore
    <3> HIDE DEF more
    <3>3. longer.text = more /\ longer.app = last.app /\ longer.minute = last.minute /\ longer \in Chunk
      BY <2>1, <3>2 DEF Chunk
    <3>4. Solid(more)
      <4>1. Len(last.text) \in Nat /\ Len(last.text) >= 1 /\ Len(t) \in Nat
        BY <1>1, <2>1 DEF Solid, Text
      <4> DEFINE a == Len(last.text)
                 b == Len(t)
      <4>2. Len(more) = a + 1 + b /\ a \in Nat /\ b \in Nat /\ a >= 1
        BY <3>2, <4>1
      <4> HIDE DEF a, b
      <4>3. Len(more) >= 1 /\ 1 \in 1 .. a
        BY <4>2
      <4>4. more[1] = last.text[1]
        BY <3>2, <4>3 DEF a
      <4> QED
        BY <2>1, <3>2, <4>3, <4>4 DEF Solid
    <3> HIDE DEF longer
    <3>5. Front(chunks) \in Seq(Chunk) /\ Len(Front(chunks)) = n - 1
          /\ \A k \in 1 .. n - 1 : Front(chunks)[k] = chunks[k]
      <4>1. n - 1 \in 0 .. n /\ Front(chunks) = SubSeq(chunks, 1, n - 1)
        BY <2>1 DEF Front
      <4>2. \A k \in 1 .. n - 1 : chunks[k] \in Chunk
        BY <1>2
      <4>3. SubSeq(chunks, 1, n - 1) \in Seq(Chunk) /\ Len(SubSeq(chunks, 1, n - 1)) = n - 1
        BY <4>1, Beginnings
      <4>5. \A k \in 1 .. n - 1 : SubSeq(chunks, 1, n - 1)[k] = chunks[k]
        BY <1>2, <4>1, <4>2
      <4> QED
        BY <4>1, <4>3, <4>5
    <3>6. Len(new) = n /\ new[n] = longer /\ \A k \in 1 .. n - 1 : new[k] = chunks[k]
      BY <1>2, <3>1, <3>3, <3>5
    <3>7. \A k \in 1 .. n : k = n \/ k \in 1 .. n - 1
      BY <1>2
    <3>8. AllSolid(new)
      BY <3>3, <3>4, <3>6, <3>7 DEF AllSolid
    <3>9. SameRun(new[n], row) /\ ContainsText(new[n].text, t)
      BY <1>6, <3>2, <3>3, <3>6 DEF SameRun
    <3>10. \A k \in 1 .. n :
              /\ new[k].app = chunks[k].app /\ new[k].minute = chunks[k].minute
              /\ \A part \in Text :
                    ContainsText(chunks[k].text, part) => ContainsText(new[k].text, part)
      BY <3>2, <3>3, <3>6, <3>7
    <3> QED
      BY <1>2, <2>1, <3>6, <3>8, <3>9, <3>10 DEF Folds
  <2> QED
    BY <2>2, <2>3
<1>7. CASE t # <<>> /\ ~ (chunks # <<>> /\ SameRun(last, row))
  <2>1. new = Append(chunks, fresh)
    BY <1>3, <1>7
  <2>2. fresh.text = t /\ fresh.app = row.app /\ fresh.minute = row.minute /\ fresh \in Chunk
    BY <1>1 DEF Chunk
  <2> HIDE DEF fresh
  <2>3. Len(new) = n + 1 /\ new[n + 1] = fresh /\ \A k \in 1 .. n : new[k] = chunks[k]
    BY <1>2, <2>1, <2>2
  <2>4. \A k \in 1 .. n + 1 : k = n + 1 \/ k \in 1 .. n
    BY <1>2
  <2>5. AllSolid(new)
    BY <1>1, <1>7, <2>2, <2>3, <2>4 DEF AllSolid
  <2>6. SameRun(new[n + 1], row) /\ ContainsText(new[n + 1].text, t)
    BY <1>1, <2>2, <2>3, ContainsItself DEF SameRun
  <2> QED
    BY <1>2, <1>7, <2>3, <2>5, <2>6 DEF Folds
<1> QED
  BY <1>5, <1>6, <1>7

(* The recursion of ChunkRows is one.                                        *)
Chunking(u, rows) == u[0] = <<>> /\ \A n \in 1 .. Len(rows) : u[n] = Folded(u[n - 1], rows[n])

(* The chunks of the first n rows, one row after the other.                  *)
LEMMA ChunkRowsFolds ==
    ASSUME NEW rows \in Seq(Chunk), Newline \in Characters
    PROVE  \E u \in [0 .. Len(rows) -> Seq(Chunk)] :
              Chunking(u, rows) /\ ChunkRows(rows) = u[Len(rows)]
<1> DEFINE N == Len(rows)
           X == Seq(Chunk)
           step == [n \in 1 .. N |-> [y \in X |-> Folded(y, rows[n])]]
           Eq(f) == f = [n \in 0 .. N |-> IF n = 0 THEN <<>> ELSE Folded(f[n - 1], rows[n])]
           u == CHOOSE f : Eq(f)
<1>0. ChunkRows(rows) = u[N]
  BY DEF ChunkRows
<1>1. N \in Nat /\ \A n \in 1 .. N : rows[n] \in Chunk
  OBVIOUS
<1>2. \A n \in 1 .. N : \A y \in X : Folded(y, rows[n]) \in X
  BY <1>1, FoldedType
<1> DEFINE base == <<>>
<1>3. base \in X
  OBVIOUS
<1> HIDE DEF N, X
<1>4. \A n \in 1 .. N : \A y \in X : step[n][y] = Folded(y, rows[n])
  OBVIOUS
<1>5. step \in [1 .. N -> [X -> X]]
  BY <1>2
<1> HIDE DEF step, base, Eq, u
<1>6. \E f \in [0 .. N -> X] : Iterates(f, N, base, step)
  BY ONLY <1>1, <1>3, <1>5, Recursion
<1>7. PICK f \in [0 .. N -> X] : f[0] = base /\ \A n \in 1 .. N : f[n] = step[n][f[n - 1]]
  BY <1>6 DEF Iterates
<1>8. ASSUME NEW n \in 1 .. N PROVE f[n] = Folded(f[n - 1], rows[n])
  <2>1. n - 1 \in 0 .. N
    BY <1>1
  <2>2. step[n][f[n - 1]] = Folded(f[n - 1], rows[n])
    BY <1>4, <1>7, <2>1
  <2> QED
    BY <1>7, <2>2
<1>9. Eq(f)
  <2>1. f = [n \in 0 .. N |-> f[n]]
    BY <1>7
  <2>2. \A n \in 0 .. N : f[n] = IF n = 0 THEN <<>> ELSE Folded(f[n - 1], rows[n])
    <3>1. \A n \in 0 .. N : n = 0 \/ n \in 1 .. N
      BY <1>1
    <3> QED
      BY <1>7, <1>8, <3>1 DEF base
  <2> QED
    BY <2>1, <2>2 DEF Eq
<1>10. Eq(u)
  BY <1>9 DEF u
<1>11. u[0] = <<>> /\ \A n \in 1 .. N : u[n] = Folded(u[n - 1], rows[n])
  BY <1>1, <1>10 DEF Eq
<1>12. \A n \in 0 .. N : u[n] \in X
  <2> DEFINE S == {n \in 0 .. N : u[n] \in X}
  <2>1. 0 \in S
    BY <1>1, <1>3, <1>11 DEF base
  <2>2. \A n \in 0 .. N - 1 : n \in S => n + 1 \in S
    <3> SUFFICES ASSUME NEW n \in 0 .. N - 1, u[n] \in X
                 PROVE  n + 1 \in 0 .. N /\ u[n + 1] \in X
      OBVIOUS
    <3>1. n + 1 \in 1 .. N /\ n + 1 \in 0 .. N /\ (n + 1) - 1 = n
      BY <1>1
    <3>2. u[n + 1] = Folded(u[n], rows[n + 1])
      BY <1>11, <3>1
    <3> QED
      BY <1>2, <3>1, <3>2
  <2> HIDE DEF S
  <2>3. \A n \in 0 .. N : n \in S
    BY <1>1, <2>1, <2>2, CountUp
  <2> QED
    BY <2>3 DEF S
<1>13. u = [n \in 0 .. N |-> u[n]]
  <2> DEFINE more(n) == IF n = 0 THEN <<>> ELSE Folded(u[n - 1], rows[n])
  <2>1. u = [n \in 0 .. N |-> more(n)]
    BY <1>10 DEF Eq
  <2> HIDE DEF more
  <2> QED
    BY <2>1
<1>14. u \in [0 .. N -> X]
  BY <1>12, <1>13
<1>15. Chunking(u, rows)
  BY <1>11 DEF Chunking, N
<1> QED
  BY <1>0, <1>14, <1>15 DEF N, X

(* Chunks of the first n rows: each is of the app and the minute of a row    *)
(* that opened it, and each row with words is in a chunk of its own.         *)
Opens(g, chunks, rows, n) ==
    /\ g \in [1 .. Len(chunks) -> 1 .. n]
    /\ \A k, l \in 1 .. Len(chunks) : g[k] = g[l] => k = l
    /\ \A k \in 1 .. Len(chunks) :
          Trim(rows[g[k]].text) # <<>> /\ SameRun(chunks[k], rows[g[k]])

(* Every row with words is in a chunk of its app and minute.                 *)
Covers(chunks, rows, n) ==
    \A j \in 1 .. n : Trim(rows[j].text) # <<>> =>
        \E k \in 1 .. Len(chunks) :
            SameRun(chunks[k], rows[j]) /\ ContainsText(chunks[k].text, Trim(rows[j].text))

(* Both for one row more.                                                    *)
LEMMA OneMoreRow ==
    ASSUME NEW rows \in Seq(Chunk), NEW n \in Nat, n + 1 <= Len(rows),
           NEW chunks \in Seq(Chunk), NEW new \in Seq(Chunk),
           Folds(new, chunks, rows[n + 1]),
           NEW g, Opens(g, chunks, rows, n), Covers(chunks, rows, n)
    PROVE  Covers(new, rows, n + 1) /\ \E h : Opens(h, new, rows, n + 1)
<1> DEFINE L == Len(chunks)
           row == rows[n + 1]
<1>1. L \in Nat /\ Len(new) \in {L, L + 1} /\ n + 1 \in 1 .. Len(rows) /\ Len(rows) \in Nat
  BY DEF Folds
<1>2. \A j \in 1 .. n + 1 : j \in 1 .. n \/ j = n + 1
  OBVIOUS
<1>3. ASSUME NEW j \in 1 .. n + 1, Trim(rows[j].text) # <<>>
      PROVE  \E k \in 1 .. Len(new) :
                SameRun(new[k], rows[j]) /\ ContainsText(new[k].text, Trim(rows[j].text))
  <2>1. CASE j = n + 1
    BY <1>3, <2>1 DEF Folds
  <2>2. CASE j \in 1 .. n
    <3>1. PICK k \in 1 .. L :
             SameRun(chunks[k], rows[j]) /\ ContainsText(chunks[k].text, Trim(rows[j].text))
      BY <1>3, <2>2 DEF Covers
    <3>2. k \in 1 .. Len(new)
      BY <1>1
    <3>3. j \in 1 .. Len(rows)
      BY <1>1, <2>2
    <3>4. rows[j].text \in Text
      <4>1. rows[j] \in Chunk
        BY <3>3
      <4> QED
        BY <4>1 DEF Chunk
    <3>5. Trim(rows[j].text) \in Text
      BY <3>4, Trimmed
    <3>6. ContainsText(new[k].text, Trim(rows[j].text))
      BY <3>1, <3>5 DEF Folds
    <3>7. SameRun(new[k], rows[j])
      BY <3>1 DEF Folds, SameRun
    <3> QED
      BY <3>2, <3>6, <3>7
  <2> QED
    BY <1>2, <2>1, <2>2
<1>4. Covers(new, rows, n + 1)
  BY <1>3 DEF Covers
<1>5. ASSUME NEW k \in 1 .. L PROVE SameRun(new[k], rows[g[k]])
  BY DEF Folds, Opens, SameRun
<1>6. CASE Len(new) = L
  <2>1. g \in [1 .. L -> 1 .. n + 1]
    BY DEF Opens
  <2>2. Opens(g, new, rows, n + 1)
    BY <1>5, <1>6, <2>1 DEF Opens
  <2> QED
    BY <1>4, <2>2
<1>7. CASE Len(new) = L + 1
  <2> DEFINE h == [k \in 1 .. L + 1 |-> IF k = L + 1 THEN n + 1 ELSE g[k]]
  <2>1. \A k \in 1 .. L + 1 : k = L + 1 \/ k \in 1 .. L
    BY <1>1
  <2>2. h[L + 1] = n + 1 /\ \A k \in 1 .. L : h[k] = g[k] /\ g[k] \in 1 .. n
    BY <1>1 DEF Opens
  <2>3. h \in [1 .. L + 1 -> 1 .. n + 1]
    <3>1. n + 1 \in 1 .. n + 1 /\ 1 .. n \subseteq 1 .. n + 1
      OBVIOUS
    <3>2. \A k \in 1 .. L : g[k] \in 1 .. n + 1
      BY <2>2, <3>1
    <3> QED
      BY <2>1, <3>1, <3>2
  <2> HIDE DEF h
  <2>4. ASSUME NEW k \in 1 .. L + 1, NEW l \in 1 .. L + 1, h[k] = h[l] PROVE k = l
    <3>1. n + 1 \notin 1 .. n
      OBVIOUS
    <3>2. \A i, j \in 1 .. L : g[i] = g[j] => i = j
      BY DEF Opens
    <3> QED
      BY <2>1, <2>2, <2>4, <3>1, <3>2
  <2>5. Trim(row.text) # <<>> /\ SameRun(new[L + 1], row)
    BY <1>7 DEF Folds
  <2>6. ASSUME NEW k \in 1 .. L + 1
        PROVE  Trim(rows[h[k]].text) # <<>> /\ SameRun(new[k], rows[h[k]])
    <3>1. \A i \in 1 .. L : Trim(rows[g[i]].text) # <<>>
      BY DEF Opens
    <3> QED
      BY <1>5, <2>1, <2>2, <2>5, <3>1
  <2>7. Opens(h, new, rows, n + 1)
    BY <1>7, <2>3, <2>4, <2>6 DEF Opens
  <2> QED
    BY <1>4, <2>7
<1> QED
  BY <1>1, <1>6, <1>7

(* What chunk_rows makes of any rows.                                        *)
LEMMA ChunksCover ==
    ASSUME NEW rows \in Seq(Chunk), Newline \in Characters
    PROVE  /\ ChunkRows(rows) \in Seq(Chunk) /\ AllSolid(ChunkRows(rows))
           /\ Covers(ChunkRows(rows), rows, Len(rows))
           /\ \E g : Opens(g, ChunkRows(rows), rows, Len(rows))
<1> DEFINE N == Len(rows)
<1>1. PICK u \in [0 .. Len(rows) -> Seq(Chunk)] :
         Chunking(u, rows) /\ ChunkRows(rows) = u[Len(rows)]
  BY ChunkRowsFolds
<1> DEFINE Good(n) == AllSolid(u[n]) /\ Covers(u[n], rows, n) /\ \E g : Opens(g, u[n], rows, n)
           S == {n \in 0 .. N : Good(n)}
<1>2. N \in Nat /\ \A n \in 1 .. N : rows[n] \in Chunk
  OBVIOUS
<1>3. Good(0)
  <2>1. u[0] = <<>>
    BY <1>1 DEF Chunking
  <2>2. AllSolid(<<>>) /\ Covers(<<>>, rows, 0)
    BY DEF AllSolid, Covers
  <2>3. Opens(<<>>, <<>>, rows, 0)
    BY DEF Opens
  <2> QED
    BY <2>1, <2>2, <2>3
<1>4. ASSUME NEW n \in 0 .. N - 1, Good(n) PROVE Good(n + 1)
  <2>1. n \in Nat /\ n + 1 \in 1 .. N /\ (n + 1) - 1 = n /\ n + 1 <= Len(rows) /\ n \in 0 .. Len(rows)
        /\ n + 1 \in 0 .. Len(rows)
    BY <1>2
  <2>2. u[n + 1] = Folded(u[n], rows[n + 1])
    BY <1>1, <2>1 DEF Chunking
  <2>3. u[n] \in Seq(Chunk) /\ u[n + 1] \in Seq(Chunk) /\ rows[n + 1] \in Chunk
    BY <1>1, <1>2, <2>1
  <2>4. Folds(u[n + 1], u[n], rows[n + 1])
    BY <1>4, <2>2, <2>3, FoldedFolds
  <2>5. PICK g : Opens(g, u[n], rows, n)
    BY <1>4
  <2>6. Covers(u[n + 1], rows, n + 1) /\ \E h : Opens(h, u[n + 1], rows, n + 1)
    BY ONLY <1>4, <2>1, <2>3, <2>4, <2>5, OneMoreRow
  <2> QED
    BY <2>4, <2>6 DEF Folds
<1> HIDE DEF Good
<1>5. 0 \in S
  BY <1>2, <1>3
<1>6. \A n \in 0 .. N - 1 : n \in S => n + 1 \in S
  <2> SUFFICES ASSUME NEW n \in 0 .. N - 1, n \in S PROVE n + 1 \in S
    OBVIOUS
  <2>1. n + 1 \in 0 .. N
    BY <1>2
  <2> QED
    BY <1>4, <2>1
<1> HIDE DEF S
<1>7. \A n \in 0 .. N : n \in S
  BY <1>2, <1>5, <1>6, CountUp
<1>8. Good(N)
  BY <1>2, <1>7 DEF S
<1>9. ChunkRows(rows) \in Seq(Chunk)
  BY <1>1
<1> QED
  BY <1>1, <1>8, <1>9 DEF Good

-----------------------------------------------------------------------------
(* The chunks of all the sources.                                            *)

(* What a run reads, and what it is to observe.                              *)
Part == [label : Labels, rows : Seq(Row)]
Item == [label : Labels, chunk : {c \in Chunk : Solid(c.text)}]

(* A place among the rows of the first n sources that says something.        *)
RowAt(parts, p) == parts[p[1]].rows[p[2]]

Spoken(parts, n) ==
    {p \in UNION {{i} \X DOMAIN parts[i].rows : i \in 1 .. n} : Trim(RowAt(parts, p).text) # <<>>}

(* A row has all that a chunk has.                                           *)
LEMMA RowsAreChunks == ASSUME NEW part \in Part PROVE part.rows \in Seq(Chunk) /\ part.label \in Labels
<1>1. part.rows \in Seq(Row) /\ part.label \in Labels
  BY DEF Part
<1>2. \A i \in 1 .. Len(part.rows) : part.rows[i] \in Chunk
  BY <1>1 DEF Row
<1> QED
  BY <1>1, <1>2

(* The chunks of a source carry its label.                                   *)
LEMMA PartItems ==
    ASSUME NEW part \in Part, Newline \in Characters
    PROVE  LET chunks == ChunkRows(part.rows)
               items == Items(part)
           IN /\ items \in Seq(Item) /\ Len(items) = Len(chunks) /\ chunks \in Seq(Chunk)
              /\ \A j \in 1 .. Len(chunks) : items[j].label = part.label /\ items[j].chunk = chunks[j]
<1> DEFINE chunks == ChunkRows(part.rows)
           items == Items(part)
<1>1. chunks \in Seq(Chunk) /\ AllSolid(chunks)
  BY RowsAreChunks, ChunksCover
<1>2. items = [j \in DOMAIN chunks |-> [label |-> part.label, chunk |-> chunks[j]]]
  BY DEF Items
<1> HIDE DEF chunks, items
<1>3. DOMAIN chunks = 1 .. Len(chunks) /\ Len(chunks) \in Nat
  BY <1>1
<1>4. ASSUME NEW j \in 1 .. Len(chunks)
      PROVE  /\ [label |-> part.label, chunk |-> chunks[j]] \in Item
  BY <1>1, RowsAreChunks DEF Item, AllSolid
<1>5. items = [j \in 1 .. Len(chunks) |-> [label |-> part.label, chunk |-> chunks[j]]]
  BY <1>2, <1>3
<1>6. items \in Seq(Item) /\ Len(items) = Len(chunks)
  BY <1>3, <1>4, <1>5
<1> QED
  BY <1>1, <1>5, <1>6 DEF chunks, items

(* The recursion of ItemsOf is one.                                          *)
Joining(v, parts) == v[0] = <<>> /\ \A n \in 1 .. Len(parts) : v[n] = v[n - 1] \o Items(parts[n])

(* The chunks of the first n sources, one source after the other.            *)
LEMMA ItemsOfJoins ==
    ASSUME NEW parts \in Seq(Part), Newline \in Characters
    PROVE  \E v \in [0 .. Len(parts) -> Seq(Item)] : Joining(v, parts) /\ ItemsOf(parts) = v[Len(parts)]
<1> DEFINE N == Len(parts)
           X == Seq(Item)
           step == [n \in 1 .. N |-> [y \in X |-> y \o Items(parts[n])]]
           Eq(f) == f = [n \in 0 .. N |-> IF n = 0 THEN <<>> ELSE f[n - 1] \o Items(parts[n])]
           v == CHOOSE f : Eq(f)
<1>0. ItemsOf(parts) = v[N]
  BY DEF ItemsOf
<1>1. N \in Nat /\ \A n \in 1 .. N : parts[n] \in Part
  OBVIOUS
<1>2. \A n \in 1 .. N : \A y \in X : y \o Items(parts[n]) \in X
  <2>1. \A n \in 1 .. N : Items(parts[n]) \in X
    BY <1>1, PartItems
  <2> QED
    BY <2>1
<1> DEFINE base == <<>>
<1>3. base \in X
  OBVIOUS
<1> HIDE DEF N, X
<1>4. \A n \in 1 .. N : \A y \in X : step[n][y] = y \o Items(parts[n])
  OBVIOUS
<1>5. step \in [1 .. N -> [X -> X]]
  BY <1>2
<1> HIDE DEF step, base, Eq, v
<1>6. \E f \in [0 .. N -> X] : Iterates(f, N, base, step)
  BY ONLY <1>1, <1>3, <1>5, Recursion
<1>7. PICK f \in [0 .. N -> X] : f[0] = base /\ \A n \in 1 .. N : f[n] = step[n][f[n - 1]]
  BY <1>6 DEF Iterates
<1>8. ASSUME NEW n \in 1 .. N PROVE f[n] = f[n - 1] \o Items(parts[n])
  <2>1. n - 1 \in 0 .. N
    BY <1>1
  <2>2. step[n][f[n - 1]] = f[n - 1] \o Items(parts[n])
    BY <1>4, <1>7, <2>1
  <2> QED
    BY <1>7, <2>2
<1>9. Eq(f)
  <2>1. f = [n \in 0 .. N |-> f[n]]
    BY <1>7
  <2>2. \A n \in 0 .. N : f[n] = IF n = 0 THEN <<>> ELSE f[n - 1] \o Items(parts[n])
    <3>1. \A n \in 0 .. N : n = 0 \/ n \in 1 .. N
      BY <1>1
    <3> QED
      BY <1>7, <1>8, <3>1 DEF base
  <2> QED
    BY <2>1, <2>2 DEF Eq
<1>10. Eq(v)
  BY <1>9 DEF v
<1>11. v[0] = <<>> /\ \A n \in 1 .. N : v[n] = v[n - 1] \o Items(parts[n])
  BY SMTT(20), <1>1, <1>10 DEF Eq
<1>12. \A n \in 0 .. N : v[n] \in X
  <2> DEFINE S == {n \in 0 .. N : v[n] \in X}
  <2>1. 0 \in S
    BY <1>1, <1>3, <1>11 DEF base
  <2>2. \A n \in 0 .. N - 1 : n \in S => n + 1 \in S
    <3> SUFFICES ASSUME NEW n \in 0 .. N - 1, v[n] \in X
                 PROVE  n + 1 \in 0 .. N /\ v[n + 1] \in X
      OBVIOUS
    <3>1. n + 1 \in 1 .. N /\ n + 1 \in 0 .. N /\ (n + 1) - 1 = n
      BY <1>1
    <3>2. v[n + 1] = v[n] \o Items(parts[n + 1])
      BY <1>11, <3>1
    <3> QED
      BY <1>2, <3>1, <3>2
  <2> HIDE DEF S
  <2>3. \A n \in 0 .. N : n \in S
    BY <1>1, <2>1, <2>2, CountUp
  <2> QED
    BY <2>3 DEF S
<1>13. v = [n \in 0 .. N |-> v[n]]
  <2> DEFINE more(n) == IF n = 0 THEN <<>> ELSE v[n - 1] \o Items(parts[n])
  <2>1. v = [n \in 0 .. N |-> more(n)]
    BY <1>10 DEF Eq
  <2> HIDE DEF more
  <2> QED
    BY <2>1
<1>14. v \in [0 .. N -> X]
  BY <1>12, <1>13
<1>15. Joining(v, parts)
  BY <1>11 DEF Joining, N
<1> QED
  BY <1>0, <1>14, <1>15 DEF N, X

(* h says of each chunk which row opened it.                                 *)
ComeFrom(h, items, parts, n) ==
    /\ h \in [1 .. Len(items) -> Spoken(parts, n)]
    /\ \A k, l \in 1 .. Len(items) : h[k] = h[l] => k = l
    /\ \A k \in 1 .. Len(items) :
          /\ items[k].label = parts[h[k][1]].label
          /\ SameRun(items[k].chunk, RowAt(parts, h[k]))

(* Every row with words is in a chunk of its source, its app and its minute. *)
AllFound(h, items, parts, n) ==
    \A p \in Spoken(parts, n) : \E k \in 1 .. Len(items) :
        /\ h[k][1] = p[1]
        /\ SameRun(items[k].chunk, RowAt(parts, p))
        /\ ContainsText(items[k].chunk.text, Trim(RowAt(parts, p).text))

(* Where something is said.                                                  *)
LEMMA SpokenPlaces ==
    ASSUME NEW parts \in Seq(Part), NEW n \in 0 .. Len(parts)
    PROVE  \A p : p \in Spoken(parts, n) <=>
              \E i \in 1 .. n : \E j \in 1 .. Len(parts[i].rows) :
                  p = <<i, j>> /\ Trim(parts[i].rows[j].text) # <<>>
<1>1. \A i \in 1 .. n : DOMAIN parts[i].rows = 1 .. Len(parts[i].rows)
  <2> SUFFICES ASSUME NEW i \in 1 .. n PROVE DOMAIN parts[i].rows = 1 .. Len(parts[i].rows)
    OBVIOUS
  <2>1. parts[i] \in Part
    OBVIOUS
  <2>2. parts[i].rows \in Seq(Row)
    BY <2>1 DEF Part
  <2> QED
    BY <2>2
<1>2. \A p : p \in UNION {{i} \X DOMAIN parts[i].rows : i \in 1 .. n} <=>
         \E i \in 1 .. n : \E j \in DOMAIN parts[i].rows : p = <<i, j>>
  OBVIOUS
<1>3. \A i, j : RowAt(parts, <<i, j>>) = parts[i].rows[j]
  BY DEF RowAt
<1> SUFFICES ASSUME NEW p
             PROVE  p \in Spoken(parts, n) <=>
                       \E i \in 1 .. n : \E j \in 1 .. Len(parts[i].rows) :
                           p = <<i, j>> /\ Trim(parts[i].rows[j].text) # <<>>
  OBVIOUS
<1>4. p \in Spoken(parts, n) <=>
         /\ \E i \in 1 .. n : \E j \in DOMAIN parts[i].rows : p = <<i, j>>
         /\ Trim(RowAt(parts, p).text) # <<>>
  BY <1>2 DEF Spoken
<1>5. ASSUME NEW i \in 1 .. n, NEW j
      PROVE  j \in DOMAIN parts[i].rows <=> j \in 1 .. Len(parts[i].rows)
  BY <1>1
<1>6. ASSUME NEW i, NEW j, p = <<i, j>> PROVE RowAt(parts, p).text = parts[i].rows[j].text
  BY <1>3, <1>6
<1> QED
  BY <1>4, <1>5, <1>6

(* One source more.                                                          *)
LEMMA OneMorePart ==
    ASSUME NEW parts \in Seq(Part), NEW n \in Nat, n + 1 <= Len(parts), Newline \in Characters,
           NEW items \in Seq(Item), NEW h,
           ComeFrom(h, items, parts, n), AllFound(h, items, parts, n)
    PROVE  LET more == items \o Items(parts[n + 1])
           IN \E f : ComeFrom(f, more, parts, n + 1) /\ AllFound(f, more, parts, n + 1)
<1> DEFINE part == parts[n + 1]
           rows == part.rows
           chunks == ChunkRows(rows)
           new == Items(part)
           more == items \o new
           a == Len(items)
           b == Len(chunks)
<1>1. part \in Part /\ n \in 0 .. Len(parts) /\ n + 1 \in 0 .. Len(parts) /\ Len(parts) \in Nat
  OBVIOUS
<1>2. /\ new \in Seq(Item) /\ Len(new) = b /\ chunks \in Seq(Chunk)
      /\ \A j \in 1 .. b : new[j].label = part.label /\ new[j].chunk = chunks[j]
  BY <1>1, PartItems
<1>3. rows \in Seq(Chunk)
  BY <1>1, RowsAreChunks
<1>4. Covers(chunks, rows, Len(rows)) /\ \E g : Opens(g, chunks, rows, Len(rows))
  BY <1>3, ChunksCover
<1>5. PICK g : Opens(g, chunks, rows, Len(rows))
  BY <1>4
<1> HIDE DEF chunks, new
<1>6. a \in Nat /\ b \in Nat /\ Len(more) = a + b
      /\ (\A k \in 1 .. a : more[k] = items[k]) /\ (\A k \in 1 .. b : more[a + k] = new[k])
  <2>1. a \in Nat /\ Len(new) \in Nat /\ Len(new) = b /\ items \in Seq(Item) /\ new \in Seq(Item)
    BY <1>2
  <2>2. /\ Len(more) = a + Len(new)
        /\ \A k \in 1 .. a : more[k] = items[k]
        /\ \A k \in 1 .. Len(new) : more[a + k] = new[k]
    <3>1. /\ Len(items \o new) = Len(items) + Len(new)
          /\ \A k \in 1 .. Len(items) : (items \o new)[k] = items[k]
          /\ \A k \in 1 .. Len(new) : (items \o new)[Len(items) + k] = new[k]
      <4>1. items \in Seq(Item) /\ new \in Seq(Item)
        BY <2>1
      <4>2. Len(items \o new) = Len(items) + Len(new)
        BY ONLY <4>1
      <4>3. \A k \in 1 .. Len(items) : (items \o new)[k] = items[k]
        BY ONLY <4>1
      <4>4. \A k \in 1 .. Len(new) : (items \o new)[Len(items) + k] = new[k]
        BY ONLY <4>1
      <4> QED
        BY ONLY <4>2, <4>3, <4>4
    <3> QED
      BY ONLY <3>1
  <2> QED
    BY <2>1, <2>2
<1> HIDE DEF more
<1> DEFINE f == [k \in 1 .. a + b |-> IF k <= a THEN h[k] ELSE <<n + 1, g[k - a]>>]
<1>7. \A k \in 1 .. a + b : k \in 1 .. a \/ (k - a \in 1 .. b /\ k = a + (k - a) /\ ~ (k <= a))
  BY <1>6
<1>8. /\ \A k \in 1 .. a : k \in 1 .. a + b /\ f[k] = h[k]
      /\ \A k \in 1 .. b : a + k \in 1 .. a + b /\ f[a + k] = <<n + 1, g[k]>>
  <2>1. \A k \in 1 .. a : k \in 1 .. a + b /\ k <= a
    BY <1>6
  <2>2. \A k \in 1 .. b : a + k \in 1 .. a + b /\ ~ (a + k <= a) /\ (a + k) - a = k
    BY <1>6
  <2> QED
    BY <2>1, <2>2
<1>9. DOMAIN f = 1 .. a + b /\ f = [k \in 1 .. a + b |-> f[k]]
  OBVIOUS
<1> HIDE DEF f
<1>10. ASSUME NEW p \in Spoken(parts, n) PROVE p \in Spoken(parts, n + 1) /\ p[1] # n + 1
  <2>0. PICK i \in 1 .. n : \E j \in 1 .. Len(parts[i].rows) :
           p = <<i, j>> /\ Trim(parts[i].rows[j].text) # <<>>
    BY <1>1, SpokenPlaces
  <2>1. PICK j \in 1 .. Len(parts[i].rows) : p = <<i, j>> /\ Trim(parts[i].rows[j].text) # <<>>
    BY <2>0
  <2>2. i \in 1 .. n + 1 /\ i # n + 1
    OBVIOUS
  <2>3. p \in Spoken(parts, n + 1)
    BY <1>1, <2>1, <2>2, SpokenPlaces
  <2> QED
    BY <2>1, <2>2, <2>3
<1>11. ASSUME NEW j \in 1 .. Len(rows), Trim(rows[j].text) # <<>>
       PROVE  <<n + 1, j>> \in Spoken(parts, n + 1)
  <2>1. n + 1 \in 1 .. n + 1
    OBVIOUS
  <2> QED
    BY <1>1, <1>11, <2>1, SpokenPlaces
<1>12. ASSUME NEW k \in 1 .. a PROVE f[k] \in Spoken(parts, n) /\ f[k] = h[k]
  BY <1>8 DEF ComeFrom
<1>13. ASSUME NEW k \in 1 .. b
       PROVE  /\ f[a + k] = <<n + 1, g[k]>> /\ g[k] \in 1 .. Len(rows)
              /\ Trim(rows[g[k]].text) # <<>> /\ SameRun(chunks[k], rows[g[k]])
  BY <1>8, <1>5 DEF Opens
<1>14. f \in [1 .. a + b -> Spoken(parts, n + 1)]
  <2>1. ASSUME NEW k \in 1 .. a + b PROVE f[k] \in Spoken(parts, n + 1)
    <3>1. CASE k \in 1 .. a
      BY <1>10, <1>12, <3>1
    <3>2. CASE k - a \in 1 .. b /\ k = a + (k - a)
      BY <1>11, <1>13, <3>2
    <3> QED
      BY <1>7, <3>1, <3>2
  <2> QED
    BY <1>9, <2>1
<1>15. ASSUME NEW k \in 1 .. a + b, NEW l \in 1 .. a + b, f[k] = f[l] PROVE k = l
  <2>1. \A x \in 1 .. a : f[x][1] # n + 1
    BY <1>10, <1>12
  <2>2. \A x \in 1 .. b : f[a + x][1] = n + 1 /\ f[a + x][2] = g[x]
    BY <1>13
  <2>3. CASE k \in 1 .. a /\ l \in 1 .. a
    <3>1. h[k] = h[l]
      BY <1>12, <1>15, <2>3
    <3> QED
      BY <2>3, <3>1 DEF ComeFrom
  <2>4. CASE /\ k - a \in 1 .. b /\ k = a + (k - a)
             /\ l - a \in 1 .. b /\ l = a + (l - a)
    <3>1. g[k - a] = g[l - a]
      BY <1>15, <2>2, <2>4
    <3>2. k - a = l - a
      BY <1>5, <2>4, <3>1 DEF Opens
    <3> QED
      BY <2>4, <3>2
  <2>5. CASE k \in 1 .. a /\ l - a \in 1 .. b /\ l = a + (l - a)
    <3>1. f[l][1] = n + 1 /\ f[k][1] # n + 1
      BY <2>1, <2>2, <2>5
    <3> QED
      BY <1>15, <3>1
  <2>6. CASE l \in 1 .. a /\ k - a \in 1 .. b /\ k = a + (k - a)
    <3>1. f[k][1] = n + 1 /\ f[l][1] # n + 1
      BY <2>1, <2>2, <2>6
    <3> QED
      BY <1>15, <3>1
  <2> QED
    BY <1>7, <2>3, <2>4, <2>5, <2>6
<1>16. ASSUME NEW k \in 1 .. a + b
       PROVE  /\ more[k].label = parts[f[k][1]].label
              /\ SameRun(more[k].chunk, RowAt(parts, f[k]))
  <2>1. CASE k \in 1 .. a
    <3>1. items[k].label = parts[h[k][1]].label /\ SameRun(items[k].chunk, RowAt(parts, h[k]))
      BY <2>1 DEF ComeFrom
    <3> QED
      BY <1>6, <1>12, <2>1, <3>1
  <2>2. CASE k - a \in 1 .. b /\ k = a + (k - a)
    <3> DEFINE c == k - a
    <3>1. c \in 1 .. b /\ k = a + c
      BY <2>2
    <3> HIDE DEF c
    <3>2. more[k].label = part.label /\ more[k].chunk = chunks[c]
      BY <1>2, <1>6, <3>1
    <3>3. f[k][1] = n + 1 /\ RowAt(parts, f[k]) = rows[g[c]]
      BY SMTT(20), <1>13, <3>1 DEF RowAt
    <3> QED
      BY <1>13, <3>1, <3>2, <3>3
  <2> QED
    BY <1>7, <2>1, <2>2
<1>17. ComeFrom(f, more, parts, n + 1)
  BY <1>6, <1>14, <1>15, <1>16 DEF ComeFrom
<1>18. ASSUME NEW p \in Spoken(parts, n + 1)
       PROVE  \E k \in 1 .. a + b :
                 /\ f[k][1] = p[1]
                 /\ SameRun(more[k].chunk, RowAt(parts, p))
                 /\ ContainsText(more[k].chunk.text, Trim(RowAt(parts, p).text))
  <2>0. PICK i \in 1 .. n + 1 : \E j \in 1 .. Len(parts[i].rows) :
           p = <<i, j>> /\ Trim(parts[i].rows[j].text) # <<>>
    BY <1>1, SpokenPlaces
  <2>1. PICK j \in 1 .. Len(parts[i].rows) : p = <<i, j>> /\ Trim(parts[i].rows[j].text) # <<>>
    BY <2>0
  <2>2. CASE i \in 1 .. n
    <3>1. p \in Spoken(parts, n)
      BY <1>1, <2>1, <2>2, SpokenPlaces
    <3>2. PICK k \in 1 .. a :
             /\ h[k][1] = p[1]
             /\ SameRun(items[k].chunk, RowAt(parts, p))
             /\ ContainsText(items[k].chunk.text, Trim(RowAt(parts, p).text))
      BY <3>1 DEF AllFound
    <3> QED
      BY <1>6, <1>8, <3>2
  <2>3. CASE i = n + 1
    <3>1. j \in 1 .. Len(rows) /\ Trim(rows[j].text) # <<>> /\ RowAt(parts, p) = rows[j] /\ p[1] = n + 1
      BY <2>1, <2>3 DEF RowAt
    <3>2. PICK k \in 1 .. b : SameRun(chunks[k], rows[j]) /\ ContainsText(chunks[k].text, Trim(rows[j].text))
      BY <1>4, <3>1 DEF Covers
    <3>3. more[a + k].chunk = chunks[k] /\ a + k \in 1 .. a + b /\ f[a + k][1] = n + 1
      <4>1. more[a + k].chunk = chunks[k]
        BY <1>2, <1>6
      <4>2. f[a + k][1] = n + 1
        BY <1>13
      <4> QED
        BY <1>8, <4>1, <4>2
    <3> QED
      BY <3>1, <3>2, <3>3
  <2>4. i \in 1 .. n \/ i = n + 1
    OBVIOUS
  <2> QED
    BY <2>2, <2>3, <2>4
<1>19. AllFound(f, more, parts, n + 1)
  BY <1>6, <1>18 DEF AllFound
<1> QED
  BY <1>17, <1>19 DEF more, new

(* What the chunks of all the sources come from, and what they hold.         *)
LEMMA ItemsCover ==
    ASSUME NEW parts \in Seq(Part), Newline \in Characters
    PROVE  /\ ItemsOf(parts) \in Seq(Item)
           /\ \E h : /\ ComeFrom(h, ItemsOf(parts), parts, Len(parts))
                     /\ AllFound(h, ItemsOf(parts), parts, Len(parts))
<1> DEFINE N == Len(parts)
<1>1. PICK v \in [0 .. Len(parts) -> Seq(Item)] : Joining(v, parts) /\ ItemsOf(parts) = v[Len(parts)]
  BY ItemsOfJoins
<1> DEFINE Good(n) == \E h : ComeFrom(h, v[n], parts, n) /\ AllFound(h, v[n], parts, n)
           S == {n \in 0 .. N : Good(n)}
<1>2. N \in Nat
  OBVIOUS
<1>3. Good(0)
  <2>1. v[0] = <<>> /\ Len(v[0]) = 0 /\ 0 \in 0 .. Len(parts)
    BY <1>1 DEF Joining
  <2>2. Spoken(parts, 0) = {}
    BY <2>1, SpokenPlaces
  <2>3. <<>> \in [1 .. 0 -> Spoken(parts, 0)]
    OBVIOUS
  <2>4. ComeFrom(<<>>, v[0], parts, 0) /\ AllFound(<<>>, v[0], parts, 0)
    BY <2>1, <2>2, <2>3 DEF ComeFrom, AllFound
  <2> QED
    BY <2>4
<1>4. ASSUME NEW n \in 0 .. N - 1, Good(n) PROVE Good(n + 1)
  <2>1. n \in Nat /\ n + 1 \in 1 .. Len(parts) /\ (n + 1) - 1 = n /\ n + 1 <= Len(parts) /\ n \in 0 .. Len(parts)
    BY <1>2
  <2>2. v[n + 1] = v[n] \o Items(parts[n + 1]) /\ v[n] \in Seq(Item)
    BY <1>1, <2>1 DEF Joining
  <2>3. PICK h : ComeFrom(h, v[n], parts, n) /\ AllFound(h, v[n], parts, n)
    BY <1>4
  <2>4. \E f : ComeFrom(f, v[n] \o Items(parts[n + 1]), parts, n + 1)
               /\ AllFound(f, v[n] \o Items(parts[n + 1]), parts, n + 1)
    BY <2>1, <2>2, <2>3, OneMorePart
  <2> QED
    BY <2>2, <2>4
<1> HIDE DEF Good
<1>5. 0 \in S
  BY <1>2, <1>3
<1>6. \A n \in 0 .. N - 1 : n \in S => n + 1 \in S
  <2> SUFFICES ASSUME NEW n \in 0 .. N - 1, n \in S PROVE n + 1 \in S
    OBVIOUS
  <2>1. n + 1 \in 0 .. N
    BY <1>2
  <2> QED
    BY <1>4, <2>1
<1> HIDE DEF S
<1>7. \A n \in 0 .. N : n \in S
  BY <1>2, <1>5, <1>6, CountUp
<1>8. Good(N)
  BY <1>2, <1>7 DEF S
<1>9. v[Len(parts)] \in Seq(Item)
  BY <1>1
<1> QED
  BY <1>1, <1>8, <1>9 DEF Good

-----------------------------------------------------------------------------
(* Counting.                                                                 *)

Lengths(parts) == [i \in DOMAIN parts |-> Len(parts[i].rows)]

(* No more places say something than there are rows.                         *)
LEMMA SpokenCount ==
    ASSUME NEW parts \in Seq(Part)
    PROVE  /\ RowsRead(parts) \in Int
           /\ IsFiniteSet(Spoken(parts, Len(parts)))
           /\ Cardinality(Spoken(parts, Len(parts))) <= RowsRead(parts)
<1> DEFINE N == Len(parts)
           lens == Lengths(parts)
<1>1. N \in Nat /\ DOMAIN parts = 1 .. N /\ \A n \in 1 .. N : parts[n] \in Part
  OBVIOUS
<1>2. \A n \in 1 .. N : Len(parts[n].rows) \in Nat
  BY <1>1, RowsAreChunks
<1>3. lens = [i \in 1 .. N |-> Len(parts[i].rows)]
  BY <1>1 DEF Lengths
<1>4. lens \in Seq(Int) /\ Len(lens) = N /\ \A n \in 1 .. N : lens[n] = Len(parts[n].rows)
  BY <1>1, <1>2, <1>3
<1>5. RowsRead(parts) = Total(lens)
  BY DEF RowsRead, Lengths
<1> HIDE DEF lens
<1>6. PICK u \in [0 .. Len(lens) -> Int] : Adding(u, lens) /\ Total(lens) = u[Len(lens)]
  BY <1>4, TotalAdds
<1> DEFINE Good(n) == IsFiniteSet(Spoken(parts, n)) /\ Cardinality(Spoken(parts, n)) <= u[n]
           S == {n \in 0 .. N : Good(n)}
<1>7. Good(0)
  <2>1. 0 \in 0 .. Len(parts)
    BY <1>1
  <2>2. Spoken(parts, 0) = {}
    BY <2>1, SpokenPlaces
  <2>3. u[0] = 0
    BY <1>6 DEF Adding
  <2>4. IsFiniteSet({}) /\ Cardinality({}) = 0
    BY FS_EmptySet
  <2> QED
    BY <2>2, <2>3, <2>4
<1>8. ASSUME NEW n \in 0 .. N - 1, Good(n) PROVE Good(n + 1)
  <2> DEFINE l == Len(parts[n + 1].rows)
             D == {n + 1} \X (1 .. l)
             Old == Spoken(parts, n)
             New == Spoken(parts, n + 1)
  <2>1. n \in 0 .. Len(parts) /\ n + 1 \in 0 .. Len(parts) /\ n + 1 \in 1 .. N /\ n + 1 \in 1 .. Len(lens)
        /\ (n + 1) - 1 = n /\ n \in 0 .. Len(lens)
    BY <1>1, <1>4
  <2>2. l \in Nat /\ u[n + 1] = u[n] + l
    BY <1>2, <1>4, <1>6, <2>1 DEF Adding
  <2>3. u[n] \in Int /\ u[n + 1] \in Int
    BY <1>6, <2>1
  <2>4. New \subseteq Old \cup D
    <3> SUFFICES ASSUME NEW p \in New PROVE p \in Old \cup D
      OBVIOUS
    <3>0. PICK i \in 1 .. n + 1 : \E j \in 1 .. Len(parts[i].rows) :
             p = <<i, j>> /\ Trim(parts[i].rows[j].text) # <<>>
      BY <2>1, SpokenPlaces
    <3>1. PICK j \in 1 .. Len(parts[i].rows) : p = <<i, j>> /\ Trim(parts[i].rows[j].text) # <<>>
      BY <3>0
    <3>2. CASE i \in 1 .. n
      BY <2>1, <3>1, <3>2, SpokenPlaces
    <3>3. CASE i = n + 1
      BY <3>1, <3>3
    <3>4. i \in 1 .. n \/ i = n + 1
      BY <2>1
    <3> QED
      BY <3>2, <3>3, <3>4
  <2>5. IsFiniteSet(D) /\ Cardinality(D) = l
    <3>1. IsFiniteSet({n + 1}) /\ Cardinality({n + 1}) = 1
      BY FS_Singleton
    <3>2. IsFiniteSet(1 .. l) /\ Cardinality(1 .. l) = l
      <4>1. 1 \in Int /\ l \in Int /\ l \in Nat
        BY <2>2
      <4> HIDE DEF l
      <4>2. IsFiniteSet(1 .. l) /\ Cardinality(1 .. l) = IF 1 > l THEN 0 ELSE l - 1 + 1
        BY ONLY <4>1, FS_Interval
      <4> QED
        BY ONLY <4>1, <4>2
    <3>3. Cardinality(D) = Cardinality({n + 1}) * Cardinality(1 .. l) /\ IsFiniteSet(D)
      BY <3>1, <3>2, FS_Product
    <3> HIDE DEF l, D
    <3> QED
      BY <2>2, <3>1, <3>2, <3>3
  <2> HIDE DEF D, Old, New, l
  <2>6. IsFiniteSet(Old) /\ Cardinality(Old) <= u[n]
    BY <1>8 DEF Old
  <2>7. /\ IsFiniteSet(Old \cup D)
        /\ Cardinality(Old \cup D) = Cardinality(Old) + Cardinality(D) - Cardinality(Old \cap D)
    BY <2>5, <2>6, FS_Union
  <2>8. IsFiniteSet(Old \cap D) /\ Cardinality(Old \cap D) \in Nat /\ Cardinality(Old) \in Nat
        /\ Cardinality(D) \in Nat
    BY <2>5, <2>6, FS_Intersection, FS_CardinalityType
  <2>9. IsFiniteSet(New) /\ Cardinality(New) <= Cardinality(Old \cup D) /\ Cardinality(New) \in Nat
    BY <2>4, <2>7, FS_Subset, FS_CardinalityType
  <2>10. Cardinality(New) <= u[n + 1]
    BY <2>2, <2>3, <2>5, <2>6, <2>7, <2>8, <2>9
  <2> QED
    BY <2>9, <2>10 DEF New
<1> HIDE DEF Good
<1>9. 0 \in S
  BY <1>1, <1>7
<1>10. \A n \in 0 .. N - 1 : n \in S => n + 1 \in S
  <2> SUFFICES ASSUME NEW n \in 0 .. N - 1, n \in S PROVE n + 1 \in S
    OBVIOUS
  <2>1. n + 1 \in 0 .. N
    BY <1>1
  <2> QED
    BY <1>8, <2>1
<1> HIDE DEF S
<1>11. \A n \in 0 .. N : n \in S
  BY <1>1, <1>9, <1>10, CountUp
<1>12. Good(N)
  BY <1>1, <1>11 DEF S
<1>13. Total(lens) \in Int
  BY <1>4, TotalType
<1> QED
  BY <1>4, <1>5, <1>6, <1>12, <1>13 DEF Good

(* The apps and minutes in which something was said.                         *)
Moments(parts) ==
    {<<p[1], RowAt(parts, p).app, RowAt(parts, p).minute>> : p \in Spoken(parts, Len(parts))}

(* There is a chunk for each of them, and a row for each chunk.              *)
LEMMA ItemsCount ==
    ASSUME NEW parts \in Seq(Part), Newline \in Characters
    PROVE  /\ Cardinality(Moments(parts)) \in Nat
           /\ Cardinality(Moments(parts)) <= Len(ItemsOf(parts))
           /\ Len(ItemsOf(parts)) <= Cardinality(Spoken(parts, Len(parts)))
           /\ Cardinality(Spoken(parts, Len(parts))) \in Nat
<1> DEFINE items == ItemsOf(parts)
           K == Len(items)
           T == Spoken(parts, Len(parts))
           M == Moments(parts)
<1>1. items \in Seq(Item) /\ K \in Nat
  BY ItemsCover
<1>2. PICK h : ComeFrom(h, items, parts, Len(parts)) /\ AllFound(h, items, parts, Len(parts))
  BY ItemsCover
<1>3. IsFiniteSet(T) /\ Cardinality(T) \in Nat
  BY SpokenCount, FS_CardinalityType
<1>4. M = {<<p[1], RowAt(parts, p).app, RowAt(parts, p).minute>> : p \in T}
  BY DEF Moments
<1> HIDE DEF items, K, T, M
<1>5. IsFiniteSet(1 .. K) /\ Cardinality(1 .. K) = K
  <2>1. 1 \in Int /\ K \in Int
    BY <1>1
  <2> QED
    BY <1>1, <2>1, FS_Interval
<1>6. h \in Injection(1 .. K, T)
  BY <1>2 DEF ComeFrom, Injection, IsInjective, K, T
<1>7. K <= Cardinality(T)
  BY <1>3, <1>5, <1>6, FS_Injection
<1> DEFINE f == [k \in 1 .. K |-> <<h[k][1], items[k].chunk.app, items[k].chunk.minute>>]
<1>8. \A k \in 1 .. K : f[k] \in M
  <2> SUFFICES ASSUME NEW k \in 1 .. K PROVE f[k] \in M
    OBVIOUS
  <2>1. h[k] \in T /\ SameRun(items[k].chunk, RowAt(parts, h[k]))
    BY <1>2 DEF ComeFrom, K, T
  <2>2. f[k] = <<h[k][1], RowAt(parts, h[k]).app, RowAt(parts, h[k]).minute>>
    BY <2>1 DEF SameRun
  <2> QED
    BY <1>4, <2>1, <2>2
<1>9. \A m \in M : \E k \in 1 .. K : f[k] = m
  <2> SUFFICES ASSUME NEW m \in M PROVE \E k \in 1 .. K : f[k] = m
    OBVIOUS
  <2>1. PICK p \in T : m = <<p[1], RowAt(parts, p).app, RowAt(parts, p).minute>>
    BY <1>4
  <2>2. PICK k \in 1 .. K : h[k][1] = p[1] /\ SameRun(items[k].chunk, RowAt(parts, p))
    BY <1>2 DEF AllFound, K, T
  <2>3. f[k] = m
    BY <2>1, <2>2 DEF SameRun
  <2> QED
    BY <2>3
<1>10. f \in [1 .. K -> M]
  BY <1>8
<1> HIDE DEF f
<1>11. f \in Surjection(1 .. K, M)
  BY <1>9, <1>10 DEF Surjection
<1>12. IsFiniteSet(M) /\ Cardinality(M) <= K
  BY <1>5, <1>11, FS_Surjection
<1>13. Cardinality(M) \in Nat
  BY <1>12, FS_CardinalityType
<1> QED
  BY <1>3, <1>7, <1>12, <1>13 DEF K, T, M, items

-----------------------------------------------------------------------------
(* The invariant.                                                            *)

Captured == [app : Apps, ts : Stamps, text : Text]
Episodes == [label : Labels, at : Nat, text : {t \in Text : Solid(t)}]

(* Every variable is what the operations make it.                            *)
Types ==
    /\ now \in 0 .. MaxNow /\ shape \in Shapes /\ runs \in 0 .. MaxIngests
    /\ pc \in {"idle", "read", "store"}
    /\ captured \in [Labels -> Seq(Captured)]
    /\ brain \in Seq(Episodes) /\ began \in 0 .. Len(brain)
    /\ left \in Seq(Labels) /\ read \in Seq(Part) /\ todo \in Seq(Item)

(* What the episodes hold behind the first of them are the chunks of parts,  *)
(* in their order, but for the rest of them.                                 *)
Stored(eps, from, parts, rest) ==
    LET all  == ItemsOf(parts)
        done == Len(eps) - from
    IN /\ Len(all) = done + Len(rest)
       /\ \A j \in 1 .. Len(rest) : rest[j] = all[done + j]
       /\ \A m \in 1 .. done :
             /\ eps[from + m].label = all[m].label
             /\ eps[from + m].text = all[m].chunk.text
             /\ all[m].chunk.minute # OddMinute =>
                   eps[from + m].at = all[m].chunk.minute * PerMinute

(* A run in progress has no report, has stored nothing while it reads, and   *)
(* then its chunks but for the rest of them.                                 *)
RunInv ==
    /\ pc # "idle" => report = None
    /\ pc = "read" => Len(left) >= 1 /\ Len(brain) = began
    /\ pc = "store" => Stored(brain, began, read, todo)

(* A report is about the episodes at the end of the brain.                   *)
ReportInv ==
    report # None =>
        /\ report.parts \in Seq(Part)
        /\ Stored(brain, began, report.parts, <<>>)
        /\ report.chunks_stored = Len(brain) - began
        /\ report.rows_read = RowsRead(report.parts)

(* A score is that of a question set that validates.                         *)
Scored(set, k) ==
    Validate(set) /\ \E found \in [Cues(set) -> Rankings] : result = ScoreOf(set, found, k)

ScoreInv ==
    result # None =>
        \E set \in QuestionSets, k \in 0 .. MaxK : Scored(set, k)

Inv == Types /\ RunInv /\ ReportInv /\ ScoreInv

-----------------------------------------------------------------------------
(* Minutes and rows.                                                         *)

(* Instants divide into whole minutes.                                       *)
LEMMA Minutes ==
    ASSUME NEW n \in Nat
    PROVE  /\ n \div PerMinute \in Nat
           /\ (n \div PerMinute) * PerMinute <= n
           /\ \A m \in 0 .. n \div PerMinute : m * PerMinute <= (n \div PerMinute) * PerMinute
<1>1. PerMinute \in Nat /\ PerMinute >= 1
  BY HarnessAssumption
<1> DEFINE P == PerMinute
           q == n \div P
<1>2. P \in Nat /\ P >= 1
  BY <1>1
<1>3. q \in Nat /\ q * P <= n
  BY <1>2
<1> HIDE DEF q, P
<1>4. ASSUME NEW m \in 0 .. q PROVE m * P <= q * P
  <2>1. m \in Nat /\ m <= q
    BY <1>3
  <2> QED
    BY <1>2, <1>3, <2>1
<1> QED
  BY <1>3, <1>4 DEF q, P

(* A timestamp is cut to a whole minute, to one that is none, or not at all; *)
(* where it says when the row was captured, to that minute.                  *)
LEMMA MinuteType ==
    ASSUME NEW ts \in Stamps
    PROVE  /\ MinuteKey(ts) # None => MinuteKey(ts) \in Nat \cup {OddMinute}
           /\ ts.form \in {"iso", "integer"} => MinuteKey(ts) = ts.at \div PerMinute
<1>1. ts.form \in {"iso", "integer", "local", "short", "odd", "split"} /\ ts.at \in Nat
  BY DEF Stamps
<1>2. CASE ts.form \in {"iso", "integer"}
  <2>1. MinuteKey(ts) = ts.at \div PerMinute
    BY <1>2 DEF MinuteKey
  <2>2. ts.at \div PerMinute \in Nat
    BY <1>1, Minutes
  <2> QED
    BY <2>1, <2>2
<1>3. CASE ts.form = "local"
  <2>1. MinuteKey(ts) = (ts.at + Shift) \div PerMinute
    BY <1>3 DEF MinuteKey
  <2>2. ts.at + Shift \in Nat
    BY <1>1, HarnessAssumption
  <2>3. (ts.at + Shift) \div PerMinute \in Nat
    BY <2>2, Minutes
  <2> QED
    BY <1>3, <2>1, <2>3
<1>4. CASE ts.form = "odd"
  BY <1>4 DEF MinuteKey
<1>5. CASE ts.form \in {"short", "split"}
  BY <1>5 DEF MinuteKey
<1> QED
  BY <1>1, <1>2, <1>3, <1>4, <1>5

(* The instant of a minute.                                                  *)
LEMMA InstantType ==
    ASSUME NEW minute \in Nat \cup {OddMinute}, now \in Nat
    PROVE  /\ ValidTime(minute) \in Nat
           /\ minute # OddMinute => ValidTime(minute) = minute * PerMinute
<1>1. PerMinute \in Nat
  BY HarnessAssumption
<1>2. CASE minute = OddMinute
  BY <1>2 DEF ValidTime
<1>3. CASE minute # OddMinute
  <2>1. minute \in Nat
    BY <1>3
  <2>2. minute * PerMinute \in Nat
    BY <1>1, <2>1
  <2> QED
    BY <1>3, <2>2 DEF ValidTime
<1> QED
  BY <1>2, <1>3

(* The rows read of a source.                                                *)
LEMMA RowsType ==
    ASSUME NEW label \in Labels, captured \in [Labels -> Seq(Captured)]
    PROVE  Rows(label) \in Seq(Row)
<1> DEFINE s == captured[label]
           good == {row \in ToSet(s) : Keeps(label, row) /\ MinuteKey(row.ts) # None}
           kept == Only(s, good)
           raw == [i \in DOMAIN kept |-> RawRow(label, kept[i])]
<1>1. s \in Seq(Captured)
  OBVIOUS
<1>2. kept \in Seq(Captured)
  BY <1>1, OnlyPlaces
<1>3. PICK p : Places(p, kept, s, Len(s), good)
  BY <1>1, OnlyPlaces
<1>4. \A r \in good : MinuteKey(r.ts) # None
  OBVIOUS
<1>5. Rows(label) = raw
  BY DEF Rows
<1> HIDE DEF kept, good, s
<1>6. ASSUME NEW i \in 1 .. Len(kept) PROVE raw[i] \in Row
  <2>1. kept[i] \in Captured /\ kept[i] \in good
    BY <1>2, <1>3 DEF Places
  <2> DEFINE r == kept[i]
  <2>2. r.app \in Apps /\ r.ts \in Stamps /\ r.text \in Text /\ MinuteKey(r.ts) # None
    BY <1>4, <2>1 DEF Captured
  <2>3. MinuteKey(r.ts) \in Nat \cup {OddMinute}
    BY <2>2, MinuteType
  <2>4. raw[i] = [app |-> IF label = "dictation" THEN "dictation" ELSE r.app,
                  minute |-> MinuteKey(r.ts), text |-> r.text, ts |-> r.ts]
    BY <1>2 DEF RawRow
  <2> HIDE DEF r, raw
  <2>5. "dictation" \in Apps
    BY DEF Apps
  <2> QED
    BY <2>2, <2>3, <2>4, <2>5 DEF Row, Chunk
<1>7. raw \in Seq(Row)
  <2>1. Len(kept) \in Nat /\ DOMAIN kept = 1 .. Len(kept) /\ raw = [i \in 1 .. Len(kept) |-> raw[i]]
    BY <1>2
  <2> HIDE DEF raw
  <2> QED
    BY <1>6, <2>1
<1> QED
  BY <1>5, <1>7

-----------------------------------------------------------------------------
(* The invariant holds.                                                      *)

(* The three sources.                                                        *)
LEMMA SourcesType == Sources \in Seq(Labels) /\ Len(Sources) = 3
BY DEF Sources, Labels, ToSet

(* At the start nothing was captured, read, observed or scored.              *)
LEMMA InitInv == Init => Inv
<1> SUFFICES ASSUME Init PROVE Inv
  OBVIOUS
<1>1. Types
  <2>1. captured \in [Labels -> Seq(Captured)]
    BY DEF Init, Labels
  <2>2. 0 \in 0 .. MaxNow /\ 0 \in 0 .. MaxIngests
    BY HarnessAssumption
  <2>3. now \in 0 .. MaxNow /\ shape \in Shapes /\ runs \in 0 .. MaxIngests /\ pc \in {"idle", "read", "store"}
    BY <2>2 DEF Init
  <2>4. brain \in Seq(Episodes) /\ began \in 0 .. Len(brain)
    BY DEF Init
  <2>5. left \in Seq(Labels) /\ read \in Seq(Part) /\ todo \in Seq(Item)
    BY DEF Init
  <2> QED
    BY <2>1, <2>3, <2>4, <2>5 DEF Types
<1>2. RunInv /\ ReportInv /\ ScoreInv
  BY DEF Init, RunInv, ReportInv, ScoreInv
<1> QED
  BY <1>1, <1>2 DEF Inv

(* What changes neither the brain nor the run leaves the runs' part alone.   *)
LEMMA NoRun ==
    ASSUME RunInv, ReportInv, UNCHANGED <<brain, began, pc, left, read, todo, report>>
    PROVE  RunInv' /\ ReportInv'
BY DEF RunInv, ReportInv, RowsRead

(* What a brain is scored with depends on nothing but its episodes.          *)
LEMMA SameScore ==
    ASSUME NEW set, NEW found, NEW k, brain' = brain
    PROVE  ScoreOf(set, found, k)' = ScoreOf(set, found, k)
<1>1. \A window : Candidates(window)' = Candidates(window)
  BY DEF Candidates
<1>2. \A window, ranking : Recalled(window, ranking, k)' = Recalled(window, ranking, k)
  BY <1>1 DEF Recalled
<1>3. \A matches : ToHits(matches, k)' = ToHits(matches, k)
  BY DEF ToHits, Hit
<1>4. \A upTo : HitsAmong(set, found, k, upTo)' = HitsAmong(set, found, k, upTo)
  BY <1>2, <1>3 DEF HitsAmong
<1> QED
  BY <1>4 DEF ScoreOf

(* A score stands while the brain does.                                      *)
LEMMA SameScored ==
    ASSUME NEW set, NEW k, NEW found \in [Cues(set) -> Rankings], brain' = brain,
           Validate(set), result' = ScoreOf(set, found, k)
    PROVE  Scored(set, k)'
<1>1. Rankings' = Rankings
  BY DEF Rankings
<1>2. Cues(set)' = Cues(set) /\ Validate(set)'
  BY DEF Cues, Validate
<1>3. ScoreOf(set, found, k)' = ScoreOf(set, found, k)
  BY SameScore
<1> QED
  BY <1>1, <1>2, <1>3 DEF Scored

(* Each operation keeps the invariant: reading the last source makes the     *)
(* chunks, observing one moves it into the brain, a failure ends the run.    *)
LEMMA StepInv == Inv /\ [Next]_vars => Inv'
<1> SUFFICES ASSUME Inv, [Next]_vars PROVE Inv'
  OBVIOUS
<1>1. Types /\ RunInv /\ ReportInv /\ ScoreInv
  BY DEF Inv
<1>2. CASE Tick
  <2>1. UNCHANGED <<brain, began, pc, left, read, todo, report>> /\ result' = None
    BY <1>2 DEF Tick
  <2>2. Types'
    BY <1>1, <1>2, HarnessAssumption DEF Tick, Types
  <2> QED
    BY <1>1, <2>1, <2>2, NoRun DEF Inv, ScoreInv
<1>3. ASSUME NEW c \in Inputs, Capture(c) PROVE Inv'
  <2>1. UNCHANGED <<brain, began, pc, left, read, todo, report>> /\ result' = None
    BY <1>3 DEF Capture
  <2>2. captured' \in [Labels -> Seq(Captured)]
    <3> DEFINE row == [app |-> c.app, ts |-> [form |-> c.form, at |-> now], text |-> c.text]
    <3>1. c.label \in Labels /\ c.text \in Text /\ c.app \in Apps
      BY InputsAssumption DEF Labels, Text, Apps
    <3>2. [form |-> c.form, at |-> now] \in Stamps
      <4>1. [form |-> c.form, at |-> 0] \in Stamps /\ now \in Nat
        BY <1>1, InputsAssumption, HarnessAssumption DEF Types
      <4>2. c.form \in {"iso", "integer", "local", "short", "odd", "split"}
        BY <4>1 DEF Stamps
      <4> QED
        BY <4>1, <4>2 DEF Stamps
    <3>3. row \in Captured
      BY <3>1, <3>2 DEF Captured
    <3> HIDE DEF row
    <3>4. Append(captured[c.label], row) \in Seq(Captured)
      BY <1>1, <3>1, <3>3 DEF Types
    <3>5. captured' = [captured EXCEPT ![c.label] = Append(captured[c.label], row)]
      BY <1>3 DEF Capture, row
    <3> QED
      BY <1>1, <3>1, <3>4, <3>5 DEF Types
  <2>3. Types'
    BY <1>1, <1>3, <2>1, <2>2 DEF Capture, Types
  <2> QED
    BY <1>1, <2>1, <2>3, NoRun DEF Inv, ScoreInv
<1>4. CASE IngestStart
  <2>1. Types'
    <3>1. runs' \in 0 .. MaxIngests
      BY <1>1, <1>4, HarnessAssumption DEF IngestStart, Types
    <3>2. <<>> \in Seq(Part) /\ <<>> \in Seq(Item) /\ Sources \in Seq(Labels)
      BY SourcesType
    <3>3. began' \in 0 .. Len(brain') /\ brain' \in Seq(Episodes)
      BY <1>1, <1>4 DEF IngestStart, Types
    <3> QED
      BY <1>1, <1>4, <3>1, <3>2, <3>3 DEF IngestStart, Types
  <2>2. RunInv'
    BY <1>1, <1>4, SourcesType DEF IngestStart, RunInv
  <2> QED
    BY <1>4, <2>1, <2>2 DEF Inv, ScoreInv, ReportInv, IngestStart
<1>5. CASE ReadSource
  <2> DEFINE label == Head(left)
             got == IF Present(label) THEN Append(read, [label |-> label, rows |-> Rows(label)])
                    ELSE read
  <2>1. /\ pc = "read" /\ UNCHANGED <<now, shape, captured, brain, began, report, runs>>
        /\ result' = None
        /\ \/ pc' = "idle" /\ left' = <<>> /\ read' = <<>> /\ todo' = <<>>
           \/ /\ left' = Tail(left) /\ read' = got
              /\ pc' = IF Len(left) = 1 THEN "store" ELSE "read"
              /\ todo' = IF Len(left) > 1 THEN <<>> ELSE ItemsOf(got)
    BY <1>5 DEF ReadSource, Quit
  <2>2. left \in Seq(Labels) /\ Len(left) >= 1 /\ Len(brain) = began /\ report = None
    BY <1>1, <2>1 DEF RunInv, Types
  <2>3. label \in Labels /\ Tail(left) \in Seq(Labels) /\ Len(Tail(left)) = Len(left) - 1
    BY <2>2
  <2>4. got \in Seq(Part)
    <3>1. Rows(label) \in Seq(Row)
      BY <1>1, <2>3, RowsType DEF Types
    <3> HIDE DEF label
    <3>2. [label |-> label, rows |-> Rows(label)] \in Part
      BY <2>3, <3>1 DEF Part
    <3> QED
      BY <1>1, <3>2 DEF Types
  <2>5. ItemsOf(got) \in Seq(Item)
    BY <2>4, ItemsCover, HarnessAssumption
  <2> HIDE DEF got, label
  <2>6. CASE pc' = "idle" /\ left' = <<>> /\ read' = <<>> /\ todo' = <<>>
    <3>1. Types'
      BY <1>1, <2>1, <2>6 DEF Types
    <3> QED
      BY <2>1, <2>2, <2>6, <3>1 DEF Inv, RunInv, ReportInv, ScoreInv
  <2>7. CASE /\ left' = Tail(left) /\ read' = got
             /\ pc' = IF Len(left) = 1 THEN "store" ELSE "read"
             /\ todo' = IF Len(left) > 1 THEN <<>> ELSE ItemsOf(got)
    <3>1. Types'
      <4>1. left' \in Seq(Labels) /\ read' \in Seq(Part) /\ todo' \in Seq(Item)
        BY <2>3, <2>4, <2>5, <2>7
      <4> QED
        BY <1>1, <2>1, <2>7, <4>1 DEF Types
    <3>2. pc' = "read" => Len(left') >= 1 /\ Len(brain') = began'
      BY <2>1, <2>2, <2>3, <2>7
    <3>3. pc' = "store" => Stored(brain', began', read', todo')
      <4> SUFFICES ASSUME pc' = "store" PROVE Stored(brain', began', read', todo')
        OBVIOUS
      <4>1. Len(left) = 1 /\ todo' = ItemsOf(got) /\ read' = got
        BY <2>2, <2>7
      <4>2. Len(brain') - began' = 0
        BY <1>1, <2>1, <2>2 DEF Types
      <4> DEFINE all == ItemsOf(got)
      <4>3. all \in Seq(Item) /\ Len(all) = 0 + Len(all) /\ \A j \in 1 .. Len(all) : all[j] = all[0 + j]
        BY <2>5
      <4> HIDE DEF all
      <4> QED
        BY <4>1, <4>2, <4>3 DEF Stored, all
    <3> QED
      BY <2>1, <2>2, <3>1, <3>2, <3>3 DEF Inv, RunInv, ReportInv, ScoreInv
  <2> QED
    BY <2>1, <2>6, <2>7
<1>6. CASE Store
  <2> DEFINE e == Episode(Head(todo))
             item == Head(todo)
             all == ItemsOf(read)
             n == Len(brain)
             done == n - began
  <2>1. /\ pc = "store" /\ todo # <<>> /\ brain' = Append(brain, e) /\ todo' = Tail(todo)
        /\ UNCHANGED <<now, shape, captured, pc, left, read, began, report, runs>> /\ result' = None
    BY <1>6 DEF Store
  <2>2. /\ brain \in Seq(Episodes) /\ todo \in Seq(Item) /\ began \in 0 .. n /\ n \in Nat
        /\ now \in Nat
    BY <1>1, HarnessAssumption DEF Types
  <2>3. Stored(brain, began, read, todo) /\ report = None
    BY <1>1, <2>1 DEF RunInv
  <2>4. item \in Item /\ item = todo[1] /\ Tail(todo) \in Seq(Item) /\ Len(todo) >= 1
        /\ Len(Tail(todo)) = Len(todo) - 1 /\ \A j \in 1 .. Len(todo) - 1 : Tail(todo)[j] = todo[j + 1]
    BY <2>1, <2>2
  <2>5. /\ item.label \in Labels /\ Solid(item.chunk.text) /\ item.chunk.text \in Text
        /\ item.chunk.minute \in Nat \cup {OddMinute}
    BY <2>4 DEF Item, Chunk
  <2>6. /\ ValidTime(item.chunk.minute) \in Nat
        /\ item.chunk.minute # OddMinute => ValidTime(item.chunk.minute) = item.chunk.minute * PerMinute
    BY <2>2, <2>5, InstantType
  <2>7. /\ e.label = item.label /\ e.text = item.chunk.text /\ e \in Episodes
        /\ item.chunk.minute # OddMinute => e.at = item.chunk.minute * PerMinute
    BY <2>5, <2>6 DEF Episode, Episodes
  <2> HIDE DEF e, item
  <2>8. brain' \in Seq(Episodes) /\ Len(brain') = n + 1 /\ brain'[n + 1] = e
        /\ \A i \in 1 .. n : brain'[i] = brain[i]
    BY <2>1, <2>2, <2>7
  <2>9. Types'
    <3>1. began' \in 0 .. Len(brain') /\ todo' \in Seq(Item)
      BY <2>1, <2>2, <2>4, <2>8
    <3> QED
      BY <1>1, <2>1, <2>8, <3>1 DEF Types
  <2>10. /\ Len(all) = done + Len(todo)
         /\ \A j \in 1 .. Len(todo) : todo[j] = all[done + j]
         /\ \A m \in 1 .. done :
               /\ brain[began + m].label = all[m].label
               /\ brain[began + m].text = all[m].chunk.text
               /\ all[m].chunk.minute # OddMinute =>
                     brain[began + m].at = all[m].chunk.minute * PerMinute
    BY <2>3 DEF Stored
  <2> HIDE DEF all, n
  <2>11. done \in Nat /\ Len(brain') - began' = done + 1 /\ began + (done + 1) = n + 1
         /\ Len(todo) \in Nat
    BY <2>1, <2>2, <2>8
  <2> HIDE DEF done
  <2>12. Stored(brain', began', read', todo')
    <3>1. Len(all) = (done + 1) + Len(todo')
      BY <2>1, <2>4, <2>10, <2>11
    <3>2. ASSUME NEW j \in 1 .. Len(todo') PROVE todo'[j] = all[(done + 1) + j]
      <4>1. j \in 1 .. Len(todo) - 1 /\ j + 1 \in 1 .. Len(todo) /\ done + (j + 1) = (done + 1) + j
        BY <2>1, <2>4, <2>11
      <4> QED
        BY <2>1, <2>4, <2>10, <4>1
    <3>3. ASSUME NEW m \in 1 .. done + 1
          PROVE  /\ brain'[began + m].label = all[m].label
                 /\ brain'[began + m].text = all[m].chunk.text
                 /\ all[m].chunk.minute # OddMinute =>
                       brain'[began + m].at = all[m].chunk.minute * PerMinute
      <4>1. CASE m \in 1 .. done
        <5>1. began + m \in 1 .. n
          BY <2>2, <2>11, <4>1
        <5>2. brain'[began + m] = brain[began + m]
          BY <2>8, <5>1
        <5> QED
          BY <2>10, <4>1, <5>2
      <4>2. CASE m = done + 1
        <5>1. 1 \in 1 .. Len(todo)
          BY <2>4, <2>11
        <5>2. all[m] = item
          BY <2>4, <2>10, <4>2, <5>1
        <5>3. brain'[began + m] = e
          BY <2>8, <2>11, <4>2
        <5> QED
          BY <2>7, <5>2, <5>3
      <4>3. m \in 1 .. done \/ m = done + 1
        BY <2>11
      <4> QED
        BY <4>1, <4>2, <4>3
    <3>4. /\ Len(ItemsOf(read')) = (Len(brain') - began') + Len(todo')
          /\ \A j \in 1 .. Len(todo') : todo'[j] = ItemsOf(read')[(Len(brain') - began') + j]
          /\ \A m \in 1 .. Len(brain') - began' :
                /\ brain'[began' + m].label = ItemsOf(read')[m].label
                /\ brain'[began' + m].text = ItemsOf(read')[m].chunk.text
                /\ ItemsOf(read')[m].chunk.minute # OddMinute =>
                      brain'[began' + m].at = ItemsOf(read')[m].chunk.minute * PerMinute
      BY <2>1, <2>11, <3>1, <3>2, <3>3 DEF all
    <3> QED
      BY <3>4 DEF Stored
  <2> QED
    BY <2>1, <2>3, <2>9, <2>12 DEF Inv, RunInv, ReportInv, ScoreInv
<1>7. CASE Fail
  <2>1. PICK n \in began .. Len(brain) : brain' = SubSeq(brain, 1, n)
    BY <1>7 DEF Fail
  <2>2. /\ pc' = "idle" /\ left' = <<>> /\ read' = <<>> /\ todo' = <<>> /\ result' = None
        /\ pc = "store" /\ UNCHANGED <<now, shape, captured, began, report, runs>>
    BY <1>7 DEF Fail, Quit
  <2>3. brain \in Seq(Episodes) /\ n \in 0 .. Len(brain) /\ began \in 0 .. n
    BY <1>1 DEF Types
  <2>4. brain' \in Seq(Episodes) /\ Len(brain') = n
    BY <2>1, <2>3, Beginnings
  <2>5. Types'
    BY <1>1, <2>2, <2>3, <2>4 DEF Types
  <2> QED
    BY <1>1, <2>2, <2>5 DEF Inv, RunInv, ReportInv, ScoreInv
<1>8. CASE Finish
  <2>1. /\ pc = "store" /\ todo = <<>> /\ UNCHANGED <<now, shape, captured, brain, began, runs>>
        /\ pc' = "idle" /\ left' = <<>> /\ read' = <<>> /\ todo' = <<>> /\ result' = None
        /\ report' = [rows_read |-> RowsRead(read), chunks_stored |-> Len(brain) - began, parts |-> read]
    BY <1>8 DEF Finish, Quit
  <2>2. Stored(brain, began, read, <<>>) /\ read \in Seq(Part)
    BY <1>1, <2>1 DEF RunInv, Types
  <2>3. Types'
    BY <1>1, <2>1 DEF Types
  <2>4. report'.parts = read /\ report'.rows_read = RowsRead(read) /\ report'.chunks_stored = Len(brain) - began
    BY <2>1
  <2>5. ReportInv'
    BY <2>1, <2>2, <2>4 DEF ReportInv, RowsRead
  <2> QED
    BY <2>1, <2>3, <2>5 DEF Inv, RunInv, ScoreInv
<1>9. ASSUME NEW set \in QuestionSets, NEW k \in 0 .. MaxK, Score(set, k) PROVE Inv'
  <2>1. /\ Validate(set) /\ \E found \in [Cues(set) -> Rankings] : result' = ScoreOf(set, found, k)
        /\ UNCHANGED <<now, shape, captured, brain, pc, left, read, todo, began, report, runs>>
    BY <1>9 DEF Score
  <2>2. RunInv' /\ ReportInv'
    BY <1>1, <2>1, NoRun
  <2>3. Types'
    BY <1>1, <2>1 DEF Types
  <2>4. ScoreInv'
    <3>1. PICK found \in [Cues(set) -> Rankings] : result' = ScoreOf(set, found, k)
      BY <2>1
    <3>2. brain' = brain /\ Validate(set)
      BY <2>1
    <3>3. Scored(set, k)'
      BY <3>1, <3>2, SameScored
    <3> QED
      BY <3>3 DEF ScoreInv
  <2> QED
    BY <2>2, <2>3, <2>4 DEF Inv
<1>10. CASE UNCHANGED vars
  <2>1. UNCHANGED <<brain, began, pc, left, read, todo, report, now, shape, captured, runs, result>>
    BY <1>10 DEF vars
  <2>2. RunInv' /\ ReportInv'
    BY <1>1, <2>1, NoRun
  <2>3. Types'
    BY <1>1, <2>1 DEF Types
  <2>4. ScoreInv'
    <3> SUFFICES ASSUME result # None
                 PROVE  \E set \in QuestionSets, k \in 0 .. MaxK : Scored(set, k)'
      BY <2>1 DEF ScoreInv
    <3>0. PICK set \in QuestionSets, k \in 0 .. MaxK : Scored(set, k)
      BY <1>1 DEF ScoreInv
    <3>1. PICK found \in [Cues(set) -> Rankings] : Validate(set) /\ result = ScoreOf(set, found, k)
      BY <3>0 DEF Scored
    <3>2. brain' = brain /\ result' = result
      BY <2>1
    <3>3. Scored(set, k)'
      BY <3>1, <3>2, SameScored
    <3> QED
      BY <3>3
  <2> QED
    BY <2>2, <2>3, <2>4 DEF Inv
<1> QED
  BY <1>2, <1>3, <1>4, <1>5, <1>6, <1>7, <1>8, <1>9, <1>10 DEF Next

(* The invariant is one of the specification.                                *)
THEOREM AlwaysInv == Spec => []Inv
<1>1. Init => Inv
  BY InitInv
<1>2. Inv /\ [Next]_vars => Inv'
  BY StepInv
<1> QED
  BY <1>1, <1>2, PTL DEF Spec

-----------------------------------------------------------------------------
(* What the invariant says of a report.                                      *)

(* Types, from the invariant.                                                *)
LEMMA TypesCorrect == Inv => TypeOK
<1> SUFFICES ASSUME Inv PROVE TypeOK
  OBVIOUS
<1>1. Types /\ RunInv
  BY DEF Inv
<1>2. ASSUME NEW i \in DOMAIN brain
      PROVE  brain[i].label \in ToSet(Sources) /\ brain[i].at \in Nat /\ Trim(brain[i].text) # <<>>
  <2>1. brain[i] \in Episodes
    BY <1>1 DEF Types
  <2>2. brain[i].label \in Labels /\ brain[i].at \in Nat /\ Solid(brain[i].text) /\ brain[i].text \in Text
    BY <2>1 DEF Episodes
  <2> QED
    BY <2>2, Trimmed DEF Labels
<1> QED
  BY <1>1, <1>2 DEF Types, RunInv, TypeOK

(* A row of the report that says something, and the episode that holds it.   *)
LEMMA HasItsEpisode ==
    ASSUME Inv, report # None,
           NEW i \in DOMAIN report.parts, NEW j \in DOMAIN report.parts[i].rows,
           Trim(report.parts[i].rows[j].text) # <<>>
    PROVE  /\ report.parts[i].rows[j] \in Row
           /\ \E e \in began + 1 .. Len(brain) :
                 /\ brain[e].label = report.parts[i].label
                 /\ ContainsText(brain[e].text, Trim(report.parts[i].rows[j].text))
                 /\ report.parts[i].rows[j].minute # OddMinute =>
                       brain[e].at = report.parts[i].rows[j].minute * PerMinute
<1> DEFINE parts == report.parts
           all == ItemsOf(parts)
           row == parts[i].rows[j]
           done == Len(brain) - began
<1>1. parts \in Seq(Part) /\ Stored(brain, began, parts, <<>>)
  BY DEF Inv, ReportInv
<1>2. brain \in Seq(Episodes) /\ began \in 0 .. Len(brain)
  BY DEF Inv, Types
<1> HIDE DEF parts
<1>3. i \in 1 .. Len(parts) /\ parts[i] \in Part
  BY <1>1 DEF parts
<1>4. parts[i].rows \in Seq(Row)
  BY <1>3 DEF Part
<1>5. j \in 1 .. Len(parts[i].rows) /\ row \in Row
  BY <1>4 DEF parts
<1>6. <<i, j>> \in Spoken(parts, Len(parts))
  <2>1. Len(parts) \in 0 .. Len(parts)
    BY <1>1
  <2> QED
    BY <1>1, <1>3, <1>5, <2>1, SpokenPlaces DEF parts
<1>7. PICK h : ComeFrom(h, all, parts, Len(parts)) /\ AllFound(h, all, parts, Len(parts))
  BY <1>1, ItemsCover, HarnessAssumption
<1>8. all \in Seq(Item)
  BY <1>1, ItemsCover, HarnessAssumption
<1>9. RowAt(parts, <<i, j>>) = row
  BY DEF RowAt
<1> HIDE DEF all, row
<1>10. PICK k \in 1 .. Len(all) :
          /\ h[k][1] = i
          /\ SameRun(all[k].chunk, row)
          /\ ContainsText(all[k].chunk.text, Trim(row.text))
  BY <1>6, <1>7, <1>9 DEF AllFound
<1>11. all[k].label = parts[i].label
  BY <1>7, <1>10 DEF ComeFrom
<1>12. /\ Len(all) = done + Len(<<>>)
       /\ \A m \in 1 .. done :
             /\ brain[began + m].label = all[m].label
             /\ brain[began + m].text = all[m].chunk.text
             /\ all[m].chunk.minute # OddMinute =>
                   brain[began + m].at = all[m].chunk.minute * PerMinute
  BY <1>1 DEF Stored, all
<1>13. k \in 1 .. done /\ began + k \in began + 1 .. Len(brain)
  BY <1>2, <1>8, <1>10, <1>12
<1>14. /\ brain[began + k].label = parts[i].label
       /\ ContainsText(brain[began + k].text, Trim(row.text))
       /\ row.minute # OddMinute => brain[began + k].at = row.minute * PerMinute
  BY <1>10, <1>11, <1>12, <1>13 DEF SameRun
<1> QED
  BY <1>5, <1>13, <1>14 DEF row, parts

(* Every row that says something is whole in an episode of its source.       *)
LEMMA RowsFound == Inv => EveryRowIsFound
<1> SUFFICES ASSUME Inv, report # None,
                    NEW i \in DOMAIN report.parts, NEW j \in DOMAIN report.parts[i].rows,
                    Trim(report.parts[i].rows[j].text) # <<>>
             PROVE  \E e \in began + 1 .. Len(brain) :
                       /\ brain[e].label = report.parts[i].label
                       /\ ContainsText(brain[e].text, Trim(report.parts[i].rows[j].text))
  BY DEF EveryRowIsFound
<1> QED
  BY HasItsEpisode

(* A window from a whole minute finds the episode of a row.                  *)
LEMMA WindowsFind == Inv => WindowFindsWhatItCovers
<1> SUFFICES ASSUME Inv, report # None,
                    NEW i \in DOMAIN report.parts, NEW j \in DOMAIN report.parts[i].rows,
                    report.parts[i].rows[j].ts.form \in {"iso", "integer"},
                    Trim(report.parts[i].rows[j].text) # <<>>,
                    NEW m \in 0 .. report.parts[i].rows[j].ts.at \div PerMinute
             PROVE  \E n \in Candidates([from |-> m * PerMinute,
                                        to |-> report.parts[i].rows[j].ts.at]) :
                       ContainsText(brain[n].text, Trim(report.parts[i].rows[j].text))
  BY DEF WindowFindsWhatItCovers
<1> DEFINE row == report.parts[i].rows[j]
           window == [from |-> m * PerMinute, to |-> row.ts.at]
           q == row.ts.at \div PerMinute
<1>1. row \in Row
  BY HasItsEpisode
<1>2. PICK e \in began + 1 .. Len(brain) :
         /\ ContainsText(brain[e].text, Trim(row.text))
         /\ row.minute # OddMinute => brain[e].at = row.minute * PerMinute
  BY HasItsEpisode
<1>3. row.minute = MinuteKey(row.ts) /\ row.ts \in Stamps
  BY <1>1 DEF Row, Chunk
<1>4. row.ts.at \in Nat /\ row.ts.form \in {"iso", "integer"}
  BY <1>3 DEF Stamps
<1>5. row.minute = q
  BY <1>3, <1>4, MinuteType
<1>6. q \in Nat /\ q * PerMinute <= row.ts.at /\ m * PerMinute <= q * PerMinute
  BY <1>4, Minutes
<1> HIDE DEF q, row
<1>7. brain[e].at = q * PerMinute
  BY <1>2, <1>5, <1>6 DEF OddMinute
<1>8. brain \in Seq(Episodes) /\ e \in 1 .. Len(brain)
  BY DEF Inv, Types
<1>9. e \in Candidates(window)
  <2>1. e \in DOMAIN brain
    BY <1>8
  <2>2. window.from = m * PerMinute /\ window.to = row.ts.at
    OBVIOUS
  <2> HIDE DEF window
  <2> QED
    BY <1>6, <1>7, <2>1, <2>2 DEF Candidates
<1> QED
  BY <1>2, <1>9 DEF row

(* The report counts what was read and stored.                               *)
LEMMA Accounts == Inv => ReportAccounts
<1> SUFFICES ASSUME Inv, report # None PROVE ReportAccounts
  BY DEF ReportAccounts
<1> DEFINE parts == report.parts
           At(p) == parts[p[1]].rows[p[2]]
           pairs == UNION {{i} \X DOMAIN parts[i].rows : i \in DOMAIN parts}
           spoken == {p \in pairs : Trim(At(p).text) # <<>>}
           minutes == {<<p[1], At(p).app, At(p).minute>> : p \in spoken}
<1>1. /\ parts \in Seq(Part) /\ Stored(brain, began, parts, <<>>)
      /\ report.chunks_stored = Len(brain) - began /\ report.rows_read = RowsRead(parts)
  BY DEF Inv, ReportInv
<1>2. brain \in Seq(Episodes) /\ began \in 0 .. Len(brain)
  BY DEF Inv, Types
<1>3. DOMAIN parts = 1 .. Len(parts)
  BY <1>1
<1>4. spoken = Spoken(parts, Len(parts))
  BY <1>3 DEF Spoken, RowAt
<1>5. minutes = Moments(parts)
  BY <1>4 DEF Moments, RowAt
<1>6. report.chunks_stored = Len(ItemsOf(parts)) /\ report.chunks_stored \in Nat
  BY <1>1, <1>2 DEF Stored
<1>7. /\ Cardinality(minutes) \in Nat /\ Cardinality(minutes) <= report.chunks_stored
      /\ report.chunks_stored <= Cardinality(spoken) /\ Cardinality(spoken) \in Nat
  BY <1>1, <1>4, <1>5, <1>6, ItemsCount, HarnessAssumption
<1>8. Cardinality(spoken) <= report.rows_read
  BY <1>1, <1>4, SpokenCount
<1>9. report.chunks_stored \in Cardinality(minutes) .. Cardinality(spoken)
  <2> HIDE DEF minutes, spoken, parts
  <2> DEFINE a == Cardinality(minutes)
             b == Cardinality(spoken)
             c == report.chunks_stored
  <2>1. a \in Nat /\ b \in Nat /\ c \in Nat /\ a <= c /\ c <= b
    BY <1>6, <1>7
  <2> HIDE DEF a, b, c
  <2>2. c \in a .. b
    BY <2>1
  <2> QED
    BY <2>2 DEF a, b, c
<1> QED
  BY <1>8, <1>9 DEF ReportAccounts

(* What was captured is in the brain, where a window over its minute finds   *)
(* it, and the report adds up (replay_ingest, chunk_rows).                   *)
THEOREM CaptureCovered == Spec => []EpisodesCoverTheCapture
<1>1. Inv => EpisodesCoverTheCapture
  BY TypesCorrect, RowsFound, WindowsFind, Accounts DEF EpisodesCoverTheCapture
<1> QED
  BY <1>1, AlwaysInv, PTL

-----------------------------------------------------------------------------
(* Scoring.                                                                  *)

(* The shorter of two lengths.                                               *)
LEMMA Shorter ==
    ASSUME NEW a \in Nat, NEW b \in Nat
    PROVE  Min({a, b}) = IF a <= b THEN a ELSE b
<1> DEFINE m == Min({a, b})
<1>1. PICK x \in {a, b} : \A y \in {a, b} : x <= y
  <2>1. CASE a <= b
    BY <2>1
  <2>2. CASE ~ (a <= b)
    BY <2>2
  <2> QED
    BY <2>1, <2>2
<1>2. m \in {a, b} /\ \A y \in {a, b} : m <= y
  BY <1>1 DEF Min
<1> HIDE DEF m
<1> QED
  BY <1>2 DEF m

(* What stands among the first k of a list.                                  *)
LEMMA TopHolds ==
    ASSUME NEW X, NEW s \in Seq(X), NEW k \in Nat
    PROVE  /\ Top(s, k) \in Seq(X)
           /\ Len(Top(s, k)) = IF k <= Len(s) THEN k ELSE Len(s)
           /\ \A i \in 1 .. Len(Top(s, k)) : Top(s, k)[i] = s[i]
<1> DEFINE n == Len(s)
           m == IF k <= n THEN k ELSE n
<1>1. n \in Nat /\ m \in 0 .. n
  OBVIOUS
<1>2. Top(s, k) = SubSeq(s, 1, m)
  BY <1>1, Shorter DEF Top
<1> HIDE DEF m
<1>3. SubSeq(s, 1, m) \in Seq(X) /\ Len(SubSeq(s, 1, m)) = m
  BY <1>1, Beginnings
<1>4. \A i \in 1 .. m : s[i] \in X
  BY <1>1
<1>5. \A i \in 1 .. m : SubSeq(s, 1, m)[i] = s[i]
  BY <1>1, <1>4
<1> QED
  BY <1>2, <1>3, <1>5 DEF m

(* A question is a hit when one of the first that agidb ranks, no further    *)
(* than either limit, is or contains what it expects.                        *)
Meets(n, expected) ==
    LET needle == Trim(expected)
    IN needle # <<>> /\ (EpisodeRef(n) = needle \/ ContainsText(brain[n].text, needle))

LEMMA HitPlaces ==
    ASSUME NEW X, NEW ranking \in Seq(X), NEW window, NEW k \in Nat, NEW u \in Nat, NEW expected
    PROVE  LET s == Only(ranking, Candidates(window))
           IN /\ s \in Seq(X)
              /\ IsHit(expected, ToHits(Recalled(window, ranking, k), k), u) <=>
                    \E i \in 1 .. Len(s) : i <= k /\ i <= u /\ Meets(s[i], expected)
<1> DEFINE s == Only(ranking, Candidates(window))
           n == Len(s)
           got == Recalled(window, ranking, k)
           kept == Top(got, k)
           hits == ToHits(got, k)
           seen == Top(hits, u)
           H == {Hit(kept[i]) : i \in 1 .. Len(kept)}
<1>1. s \in Seq(X)
  BY OnlyPlaces
<1>2. n \in Nat
  BY <1>1
<1>3. got = s \/ got = Top(s, k)
  BY DEF Recalled
<1> HIDE DEF s, got
<1>4. /\ Top(s, k) \in Seq(X) /\ Len(Top(s, k)) = (IF k <= n THEN k ELSE n)
      /\ \A i \in 1 .. Len(Top(s, k)) : Top(s, k)[i] = s[i]
  BY <1>1, TopHolds
<1>5. /\ kept \in Seq(X) /\ Len(kept) = (IF k <= n THEN k ELSE n)
      /\ \A i \in 1 .. Len(kept) : kept[i] = s[i]
  <2>1. CASE got = s
    BY <1>4, <2>1
  <2>2. CASE got = Top(s, k)
    <3> DEFINE r == Top(s, k)
    <3>1. r \in Seq(X) /\ Len(r) = (IF k <= n THEN k ELSE n) /\ \A i \in 1 .. Len(r) : r[i] = s[i]
      BY <1>4
    <3> HIDE DEF r
    <3>2. /\ Top(r, k) \in Seq(X) /\ Len(Top(r, k)) = (IF k <= Len(r) THEN k ELSE Len(r))
          /\ \A i \in 1 .. Len(Top(r, k)) : Top(r, k)[i] = r[i]
      BY <3>1, TopHolds
    <3>3. Len(Top(r, k)) = Len(r)
      BY <1>2, <3>1, <3>2
    <3> QED
      BY <2>2, <3>1, <3>2, <3>3 DEF r
  <2> QED
    BY <1>3, <2>1, <2>2
<1>6. hits = [i \in DOMAIN kept |-> Hit(kept[i])]
  BY DEF ToHits
<1> HIDE DEF kept, hits
<1>7. /\ hits \in Seq(H) /\ Len(hits) = Len(kept)
      /\ \A i \in 1 .. Len(hits) : hits[i] = Hit(s[i])
  <2>1. Len(kept) \in Nat /\ DOMAIN kept = 1 .. Len(kept)
    BY <1>5
  <2> QED
    BY <1>5, <1>6, <2>1
<1> HIDE DEF H
<1>8. /\ seen \in Seq(H) /\ Len(seen) = (IF u <= Len(hits) THEN u ELSE Len(hits))
      /\ \A i \in 1 .. Len(seen) : seen[i] = hits[i]
  BY <1>7, TopHolds
<1> HIDE DEF seen
<1>9. \A i : i \in 1 .. Len(seen) <=> i \in 1 .. n /\ i <= k /\ i <= u
  BY <1>2, <1>5, <1>7, <1>8
<1>10. \A i \in 1 .. Len(seen) : seen[i] = Hit(s[i])
  <2> SUFFICES ASSUME NEW i \in 1 .. Len(seen) PROVE seen[i] = Hit(s[i])
    OBVIOUS
  <2>1. i \in 1 .. Len(hits)
    BY <1>2, <1>5, <1>7, <1>9
  <2> QED
    BY <1>7, <1>8, <2>1
<1>11. ToSet(seen) = {seen[i] : i \in 1 .. Len(seen)}
  BY <1>8 DEF ToSet
<1> DEFINE needle == Trim(expected)
<1>12. IsHit(expected, hits, u) <=>
          /\ needle # <<>>
          /\ \E hit \in ToSet(seen) : hit.reference = needle \/ ContainsText(hit.text, needle)
  BY DEF IsHit, seen
<1> HIDE DEF needle
<1>13. \A m : Hit(m).reference = EpisodeRef(m) /\ Hit(m).text = brain[m].text
  BY DEF Hit
<1>14. (\E hit \in ToSet(seen) : hit.reference = needle \/ ContainsText(hit.text, needle))
          <=> \E i \in 1 .. Len(seen) :
                 EpisodeRef(s[i]) = needle \/ ContainsText(brain[s[i]].text, needle)
  BY <1>10, <1>11, <1>13
<1>15. \A i : Meets(s[i], expected) <=>
          needle # <<>> /\ (EpisodeRef(s[i]) = needle \/ ContainsText(brain[s[i]].text, needle))
  BY DEF Meets, needle
<1> QED
  BY <1>1, <1>9, <1>12, <1>14, <1>15 DEF hits, got, s

(* Hits grow with the list and with how far it is looked at.                 *)
LEMMA HitsGrow ==
    ASSUME NEW set, NEW found \in [Cues(set) -> Rankings],
           NEW k \in Nat, NEW u \in Nat, NEW l \in Nat, NEW v \in Nat,
           \A i \in Nat \ {0} : i <= k /\ i <= u => i <= l /\ i <= v
    PROVE  HitsAmong(set, found, k, u) \subseteq HitsAmong(set, found, l, v)
<1> DEFINE Right(i, j, w) ==
        IsHit(set[i].expected, ToHits(Recalled(set[i].window, found[set[i].cue], j), j), w)
<1> SUFFICES ASSUME NEW i \in DOMAIN set, Right(i, k, u) PROVE Right(i, l, v)
  BY DEF HitsAmong
<1>1. found[set[i].cue] \in Rankings
  BY DEF Cues
<1>2. PICK X : found[set[i].cue] \in Seq(X)
  <2>1. PICK n \in 0 .. Len(brain) : found[set[i].cue] \in [1 .. n -> DOMAIN brain]
    BY <1>1 DEF Rankings
  <2>2. n \in Nat
    OBVIOUS
  <2>3. found[set[i].cue] \in Seq(DOMAIN brain)
    BY <2>1, <2>2
  <2> QED
    BY <2>3
<1> DEFINE r == found[set[i].cue]
           x == set[i].expected
           s == Only(r, Candidates(set[i].window))
<1>3. Right(i, k, u) <=> \E n \in 1 .. Len(s) : n <= k /\ n <= u /\ Meets(s[n], x)
  BY <1>2, HitPlaces
<1>4. s \in Seq(X) /\ (Right(i, l, v) <=> \E n \in 1 .. Len(s) : n <= l /\ n <= v /\ Meets(s[n], x))
  BY <1>2, HitPlaces
<1> HIDE DEF s, r, x, Right
<1>5. PICK n \in 1 .. Len(s) : n <= k /\ n <= u /\ Meets(s[n], x)
  BY <1>3
<1>6. n \in Nat \ {0}
  BY <1>4
<1>7. n <= l /\ n <= v
  BY <1>5, <1>6
<1> QED
  BY <1>4, <1>5, <1>7

(* The questions of a set that are in S and of the nth kind.                 *)
OfKind(set, S, n) == {i \in S : set[i].kind = AllKinds[n]}

(* Every question is of one of the three kinds.                              *)
LEMMA ThreeKinds ==
    ASSUME NEW set \in QuestionSets, NEW S \in SUBSET DOMAIN set
    PROVE  /\ IsFiniteSet(S) /\ Cardinality(S) \in Nat
           /\ \A n \in 1 .. 3 : Cardinality(OfKind(set, S, n)) \in Nat
           /\ Cardinality(S) = Cardinality(OfKind(set, S, 1)) + Cardinality(OfKind(set, S, 2))
                               + Cardinality(OfKind(set, S, 3))
<1> DEFINE A == OfKind(set, S, 1)
           B == OfKind(set, S, 2)
           C == OfKind(set, S, 3)
<1>1. /\ DOMAIN set = 1 .. Len(set) /\ Len(set) \in Nat
      /\ \A i \in DOMAIN set : set[i].kind \in Kinds
  BY KindsAssumption
<1>2. IsFiniteSet(DOMAIN set)
  <2>1. 1 \in Int /\ Len(set) \in Int
    BY <1>1
  <2> QED
    BY <1>1, <2>1, FS_Interval
<1>3. IsFiniteSet(S)
  BY <1>2, FS_Subset
<1>4. /\ Len(AllKinds) = 3 /\ AllKinds \in Seq(Kinds) /\ DOMAIN AllKinds = 1 .. 3
      /\ \A m, n \in 1 .. 3 : AllKinds[m] = AllKinds[n] => m = n
  <2>1. Len(AllKinds) = 3 /\ AllKinds \in Seq(Kinds)
        /\ \A m, n \in DOMAIN AllKinds : AllKinds[m] = AllKinds[n] => m = n
    BY KindsAssumption
  <2>2. DOMAIN AllKinds = 1 .. 3
    BY <2>1
  <2> QED
    BY <2>1, <2>2
<1>5. \A kind \in Kinds : \E n \in 1 .. 3 : kind = AllKinds[n]
  BY <1>4 DEF Kinds, ToSet
<1>6. \A n \in 1 .. 3 : IsFiniteSet(OfKind(set, S, n)) /\ Cardinality(OfKind(set, S, n)) \in Nat
  <2> SUFFICES ASSUME NEW n \in 1 .. 3
               PROVE  IsFiniteSet(OfKind(set, S, n)) /\ Cardinality(OfKind(set, S, n)) \in Nat
    OBVIOUS
  <2>1. OfKind(set, S, n) \subseteq S
    BY DEF OfKind
  <2> QED
    BY <1>3, <2>1, FS_Subset, FS_CardinalityType
<1>7. AllKinds[1] # AllKinds[2] /\ AllKinds[1] # AllKinds[3] /\ AllKinds[2] # AllKinds[3]
  BY <1>4
<1>8. A \cap B = {} /\ (A \cup B) \cap C = {}
  BY <1>7 DEF OfKind
<1>9. S = (A \cup B) \cup C
  <2>1. ASSUME NEW i \in S PROVE i \in A \cup B \cup C
    <3>1. PICK n \in 1 .. 3 : set[i].kind = AllKinds[n]
      BY <1>1, <1>5
    <3>2. n = 1 \/ n = 2 \/ n = 3
      OBVIOUS
    <3> QED
      BY <3>1, <3>2 DEF OfKind
  <2>2. A \subseteq S /\ B \subseteq S /\ C \subseteq S
    BY DEF OfKind
  <2> QED
    BY <2>1, <2>2
<1>10. /\ IsFiniteSet(A) /\ Cardinality(A) \in Nat
       /\ IsFiniteSet(B) /\ Cardinality(B) \in Nat
       /\ IsFiniteSet(C) /\ Cardinality(C) \in Nat
  BY <1>6
<1> HIDE DEF A, B, C
<1>11. IsFiniteSet(A \cup B) /\ Cardinality(A \cup B) = Cardinality(A) + Cardinality(B)
  <2>1. /\ IsFiniteSet(A \cup B)
        /\ Cardinality(A \cup B) = Cardinality(A) + Cardinality(B) - Cardinality(A \cap B)
    BY <1>10, FS_Union
  <2>2. Cardinality(A \cap B) = 0
    BY <1>8, FS_EmptySet
  <2> QED
    BY <1>10, <2>1, <2>2
<1>12. Cardinality(S) = Cardinality(A) + Cardinality(B) + Cardinality(C)
  <2>1. Cardinality((A \cup B) \cup C)
           = Cardinality(A \cup B) + Cardinality(C) - Cardinality((A \cup B) \cap C)
    BY <1>10, <1>11, FS_Union
  <2>2. Cardinality((A \cup B) \cap C) = 0
    BY <1>8, FS_EmptySet
  <2> QED
    BY <1>9, <1>10, <1>11, <2>1, <2>2
<1>13. Cardinality(S) \in Nat
  BY <1>3, FS_CardinalityType
<1> QED
  BY <1>3, <1>6, <1>12, <1>13 DEF A, B, C

(* What a score counts, kind by kind.                                        *)
LEMMA KindCounts ==
    ASSUME NEW set \in QuestionSets, NEW found, NEW k \in Nat
    PROVE  LET score == ScoreOf(set, found, k)
               atK   == HitsAmong(set, found, k, k)
           IN /\ atK \in SUBSET DOMAIN set /\ score.at_k = Cardinality(atK)
              /\ \A n \in 1 .. 3 :
                    /\ AllKinds[n] \in Kinds
                    /\ score.per_kind[AllKinds[n]] = Cardinality(OfKind(set, atK, n))
              /\ \A kind \in Kinds : \E n \in 1 .. 3 : kind = AllKinds[n]
<1> DEFINE score == ScoreOf(set, found, k)
           atK == HitsAmong(set, found, k, k)
<1>1. atK \in SUBSET DOMAIN set
  BY DEF HitsAmong
<1>2. Len(AllKinds) = 3 /\ AllKinds \in Seq(Kinds)
  BY KindsAssumption
<1>3. DOMAIN AllKinds = 1 .. 3 /\ \A n \in 1 .. 3 : AllKinds[n] \in Kinds
  <2>1. DOMAIN AllKinds = 1 .. 3
    BY <1>2
  <2>2. Kinds = {AllKinds[n] : n \in 1 .. 3}
    BY <2>1 DEF Kinds, ToSet
  <2> QED
    BY <2>1, <2>2
<1>4. \A kind \in Kinds : \E n \in 1 .. 3 : kind = AllKinds[n]
  BY <1>3 DEF Kinds, ToSet
<1>5. /\ score.at_k = Cardinality(atK)
      /\ score.per_kind = [kind \in Kinds |-> Cardinality({i \in atK : set[i].kind = kind})]
  BY DEF ScoreOf
<1> HIDE DEF score, atK
<1>6. \A n \in 1 .. 3 : score.per_kind[AllKinds[n]] = Cardinality(OfKind(set, atK, n))
  BY <1>3, <1>5 DEF OfKind
<1> QED
  BY <1>1, <1>3, <1>4, <1>5, <1>6 DEF score, atK

(* Two kinds of a balanced set are less than 70 % of it.                     *)
LEMMA EveryKindAnswered == Inv => GateNeedsEveryKind
<1> SUFFICES ASSUME Inv, result # None, result.verdict = "AgidbAsIs", NEW kind \in Kinds
             PROVE  result.per_kind[kind] > 0
  BY DEF GateNeedsEveryKind
<1>0. PICK set \in QuestionSets, k \in 0 .. MaxK : Scored(set, k)
  BY DEF Inv, ScoreInv
<1>1. PICK found \in [Cues(set) -> Rankings] : Validate(set) /\ result = ScoreOf(set, found, k)
  BY <1>0 DEF Scored
<1>2. k \in Nat /\ brain \in Seq(Episodes) /\ RequiredPerKind \in Nat \ {0}
  BY HarnessAssumption DEF Inv, Types
<1> DEFINE S == HitsAmong(set, found, k, k)
           R == RequiredPerKind
           H(n) == Cardinality(OfKind(set, S, n))
           All(n) == Cardinality(OfKind(set, DOMAIN set, n))
<1>3. /\ S \in SUBSET DOMAIN set
      /\ \A n \in 1 .. 3 : AllKinds[n] \in Kinds /\ result.per_kind[AllKinds[n]] = H(n)
  BY <1>1, <1>2, KindCounts
<1>4. PICK m \in 1 .. 3 : kind = AllKinds[m]
  BY <1>1, <1>2, KindCounts
<1>5. result.verdict = Verdict(Cardinality(S), Len(set))
  BY <1>1 DEF ScoreOf
<1> HIDE DEF S
<1>6. \A n \in 1 .. 3 : All(n) = R
  <2> SUFFICES ASSUME NEW n \in 1 .. 3 PROVE All(n) = R
    OBVIOUS
  <2>1. AllKinds[n] \in Kinds
    BY <1>3
  <2>2. Cardinality({i \in DOMAIN set : set[i].kind = AllKinds[n]}) = RequiredPerKind
    BY <1>1, <2>1 DEF Validate
  <2> QED
    BY <2>2 DEF OfKind
<1>7. IsFiniteSet(DOMAIN set) /\ Cardinality(DOMAIN set) = All(1) + All(2) + All(3)
  BY ThreeKinds
<1>8. /\ \A n \in 1 .. 3 : H(n) \in Nat
      /\ Cardinality(S) = H(1) + H(2) + H(3)
  BY <1>3, ThreeKinds
<1>9. \A n \in 1 .. 3 : H(n) <= R
  <2> SUFFICES ASSUME NEW n \in 1 .. 3 PROVE H(n) <= R
    OBVIOUS
  <2>1. OfKind(set, S, n) \subseteq OfKind(set, DOMAIN set, n)
    BY <1>3 DEF OfKind
  <2>2. OfKind(set, DOMAIN set, n) \subseteq DOMAIN set
    BY DEF OfKind
  <2>3. IsFiniteSet(OfKind(set, DOMAIN set, n))
    BY <1>7, <2>2, FS_Subset
  <2>4. H(n) <= All(n)
    BY <2>1, <2>3, FS_Subset
  <2> QED
    BY <1>6, <2>4
<1>10. Len(set) = Cardinality(DOMAIN set)
  <2>1. DOMAIN set = 1 .. Len(set) /\ Len(set) \in Nat
    BY KindsAssumption
  <2>2. 1 \in Int /\ Len(set) \in Int
    BY <2>1
  <2>3. Cardinality(1 .. Len(set)) = IF 1 > Len(set) THEN 0 ELSE Len(set) - 1 + 1
    BY <2>2, FS_Interval
  <2>4. Cardinality(1 .. Len(set)) = Len(set)
    BY <2>1, <2>3
  <2> QED
    BY <2>1, <2>4
<1> DEFINE c == Cardinality(S)
           t == Len(set)
<1>11. t = R + R + R
  BY <1>6, <1>7, <1>10
<1>12. 10 * c >= 7 * t
  BY <1>5 DEF Verdict
<1>13. H(m) > 0
  <2> SUFFICES ASSUME H(m) = 0 PROVE FALSE
    BY <1>8
  <2> DEFINE h1 == H(1)
             h2 == H(2)
             h3 == H(3)
  <2>1. /\ h1 \in Nat /\ h2 \in Nat /\ h3 \in Nat /\ h1 <= R /\ h2 <= R /\ h3 <= R
        /\ c = h1 + h2 + h3
    BY <1>8, <1>9
  <2>2. h1 = 0 \/ h2 = 0 \/ h3 = 0
    <3>1. m = 1 \/ m = 2 \/ m = 3
      OBVIOUS
    <3> QED
      BY <3>1
  <2> HIDE DEF h1, h2, h3, H, c, t, R
  <2>3. R \in Nat /\ R > 0
    BY <1>2 DEF R
  <2> QED
    BY <1>11, <1>12, <2>1, <2>2, <2>3
<1> QED
  BY <1>3, <1>4, <1>13

(* A longer list scores no lower, and the kinds add up.                      *)
LEMMA ScoresGrow == Inv => ScoreIsMonotone
<1> SUFFICES ASSUME Inv, result # None PROVE ScoreIsMonotone
  BY DEF ScoreIsMonotone
<1>0. PICK set \in QuestionSets, k \in 0 .. MaxK : Scored(set, k)
  BY DEF Inv, ScoreInv
<1>1. PICK found \in [Cues(set) -> Rankings] : Validate(set) /\ result = ScoreOf(set, found, k)
  BY <1>0 DEF Scored
<1>2. k \in Nat /\ k + 1 \in Nat /\ brain \in Seq(Episodes)
  BY DEF Inv, Types
<1> DEFINE H(l, u) == HitsAmong(set, found, l, u)
           wider == ScoreOf(result.set, result.found, result.k + 1)
<1>3. result.k = k /\ result.set = set /\ result.found = found
      /\ result.at_1 = Cardinality(H(k, 1)) /\ result.at_k = Cardinality(H(k, k))
  BY <1>1 DEF ScoreOf
<1>4. wider.at_1 = Cardinality(H(k + 1, 1)) /\ wider.at_k = Cardinality(H(k + 1, k + 1))
  BY <1>3 DEF ScoreOf
<1>5. \A l, u : IsFiniteSet(H(l, u))
  <2>1. IsFiniteSet(DOMAIN set)
    BY ThreeKinds
  <2>2. \A l, u : H(l, u) \subseteq DOMAIN set
    BY DEF HitsAmong
  <2> QED
    BY <2>1, <2>2, FS_Subset
<1>6. H(k, 1) \subseteq H(k, k)
  BY <1>2, HitsGrow
<1>7. H(k, k) \subseteq H(k + 1, k + 1)
  BY <1>2, HitsGrow
<1>8. k > 0 => H(k, 1) \subseteq H(k + 1, 1) /\ H(k + 1, 1) \subseteq H(k, 1)
  BY <1>2, HitsGrow
<1>9. result.at_1 <= result.at_k /\ result.at_k <= wider.at_k
  <2> HIDE DEF H, wider
  <2>1. Cardinality(H(k, 1)) <= Cardinality(H(k, k))
    BY <1>5, <1>6, FS_Subset
  <2>2. Cardinality(H(k, k)) <= Cardinality(H(k + 1, k + 1))
    BY <1>5, <1>7, FS_Subset
  <2> QED
    BY <1>3, <1>4, <2>1, <2>2
<1>10. result.k > 0 => result.at_1 = wider.at_1
  <2> HIDE DEF H, wider
  <2>1. k > 0 => H(k, 1) = H(k + 1, 1)
    BY <1>8
  <2> QED
    BY <1>3, <1>4, <2>1
<1> DEFINE S == H(k, k)
           counts == [n \in DOMAIN AllKinds |-> result.per_kind[AllKinds[n]]]
<1>11. Total(counts) = result.at_k
  <2>1. /\ S \in SUBSET DOMAIN set /\ result.at_k = Cardinality(S)
        /\ \A n \in 1 .. 3 : result.per_kind[AllKinds[n]] = Cardinality(OfKind(set, S, n))
    BY <1>1, <1>2, KindCounts
  <2> HIDE DEF S
  <2>2. /\ \A n \in 1 .. 3 : Cardinality(OfKind(set, S, n)) \in Nat
        /\ Cardinality(S) = Cardinality(OfKind(set, S, 1)) + Cardinality(OfKind(set, S, 2))
                            + Cardinality(OfKind(set, S, 3))
    BY <2>1, ThreeKinds
  <2>3. DOMAIN AllKinds = 1 .. 3
    BY KindsAssumption
  <2>4. counts = [n \in 1 .. 3 |-> Cardinality(OfKind(set, S, n))]
    BY <2>1, <2>3
  <2>5. counts \in Seq(Int) /\ Len(counts) = 3
        /\ \A n \in 1 .. 3 : counts[n] = Cardinality(OfKind(set, S, n))
    BY <2>2, <2>4
  <2> HIDE DEF counts
  <2>6. PICK u \in [0 .. Len(counts) -> Int] : Adding(u, counts) /\ Total(counts) = u[Len(counts)]
    BY <2>5, TotalAdds
  <2>7. u[0] = 0 /\ u[1] = u[0] + counts[1] /\ u[2] = u[1] + counts[2] /\ u[3] = u[2] + counts[3]
    BY <2>5, <2>6 DEF Adding
  <2>8. \A n \in 1 .. 3 : counts[n] \in Int
    BY <2>2, <2>5
  <2>9. Total(counts) = counts[1] + counts[2] + counts[3]
    BY <2>5, <2>6, <2>7, <2>8
  <2> QED
    BY <2>1, <2>2, <2>5, <2>9
<1> QED
  BY <1>9, <1>10, <1>11 DEF ScoreIsMonotone

(* No brain is adopted that fails all questions of a kind, and recall is     *)
(* monotone in k (QuestionSet::validate, score, gate_verdict).               *)
THEOREM GateSound == Spec => []GateIsSound
<1>1. Inv => GateIsSound
  BY EveryKindAnswered, ScoresGrow DEF GateIsSound
<1> QED
  BY <1>1, AlwaysInv, PTL
=============================================================================
