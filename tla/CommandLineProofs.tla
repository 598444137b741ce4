------------------------- MODULE CommandLineProofs -------------------------
(***************************************************************************)
(* Proofs about CommandLine and RuleLearning: for any number of processes, *)
(* commands and faults, what is suggested has been earned and is a rule    *)
(* only behind an answer, what is reported in a file stays in it, the hook *)
(* stands once, and a rename leaves a backup.                              *)
(*                                                                         *)
(* The invariant says what a command knows between its read and its write  *)
(* (WriteInv): the new text has every line of the text it read but those   *)
(* it was asked to remove.  If the file is then still as it was read, no   *)
(* line is lost; if not, the file is excused.                              *)
(***************************************************************************)
EXTENDS CommandLine, ListingProofs

(* The first n rows show a run of equal answers to p, and row is p's.        *)
Earned(rows, p, n, row) ==
    /\ n \in 1 .. Len(rows) /\ row \in RowsOf(rows, p, n)
    /\ \E S \in Newest(rows, p, n, Threshold) :
          Cardinality(S) = Threshold /\ \A i, j \in S : rows[i].verb = rows[j].verb

(* The row of a call in flight is there, and one that is about to be         *)
(* suggested has been earned.                                                *)
InFlightInv(r) ==
    recording[r] # None =>
        LET w == recording[r].row
        IN /\ w \in 1 .. Len(observed)
           /\ recording[r].at = "upsert" => Earned(observed, observed[w].pattern, recording[r].upto, w)

SuggestedInv(p) ==
    suggestions[p] # None =>
        /\ Earned(observed, p, suggestions[p].upto, suggestions[p].row)
        /\ observed[suggestions[p].row].verb = suggestions[p].verb

LearningInv ==
    LearningTypeOK /\ (\A r \in Recorders : InFlightInv(r)) /\ \A p \in Patterns : SuggestedInv(p)


-----------------------------------------------------------------------------
Copied == {"tmp", "tmp_fill", "rename"}
Renaming == {"copy"} \cup Copied
InPlace == {"truncate", "fill"}
Writing == InPlace \cup Renaming
Kinds == {"add", "append", "seed_rules", "exclude", "include", "seed_ingest", "hook", "unhook",
          "mark", "service", "unservice", "purge"}
AllLines == LinesOf("rules") \cup LinesOf("ingest") \cup LinesOf("settings")
Stages == [kind : Kinds, arg : UserRules \cup Patterns \cup Targets \cup {None}]
Job == [at : {"idle", "stage"} \cup Writing, todo : Seq(Stages),
        seen : Seq(AllLines) \cup {Absent, Blank}, text : Seq(AllLines)]

FileTypes ==
    /\ files \in [Files -> Seq(AllLines) \cup {Absent, Blank}]
    /\ tmp \in [Files -> Seq(AllLines) \cup {Absent, Blank}]
    /\ acked \in [Files -> SUBSET AllLines]
    /\ excused \in [Files -> SUBSET {"torn", "raced", "misread"}]
    /\ \A f \in Files :
          /\ files[f] \in Seq(LinesOf(f)) \cup {Absent, Blank}
          /\ tmp[f] \in Seq(LinesOf(f)) \cup {Absent, Blank}
          /\ acked[f] \subseteq LinesOf(f)
    /\ backup \in Seq(Seq(Entries) \cup {Blank})
    /\ service \in BOOLEAN
    /\ job \in [Cli -> Job]

(* The patterns whose suggestion somebody has answered.                      *)
Settled == {q \in Patterns : suggestions[q] # None /\ suggestions[q].state # "open"}

Promoted(text, settled) ==
    \A q \in Patterns : \A v \in {"allow", "deny"} : Has(text, RuleFor(q, v)) => q \in settled

OneHook(text) ==
    \A i, j \in DOMAIN text : IsHomnEntry(text[i]) /\ IsHomnEntry(text[j]) => i = j

(* What can be said of a text of file f at any time.                         *)
Sound(f, text, settled) ==
    (f = "rules" => Promoted(text, settled)) /\ (f = "settings" => OneHook(text))

TextOf(c) == IF c \in {Absent, Blank} THEN <<>> ELSE c

(* The stage has the argument of its command.                                *)
Fits(s) ==
    /\ s.kind = "add" => s.arg \in UserRules
    /\ s.kind \in {"append", "mark"} => s.arg \in Patterns
    /\ s.kind \in {"exclude", "include"} => s.arg \in Targets

(* A rule is appended behind its mark, and not in a purge.                   *)
TodoInv(p) ==
    LET todo == job[p].todo
    IN \A i \in DOMAIN todo :
          /\ Fits(todo[i])
          /\ todo[i].kind = "mark" => suggestions[todo[i].arg] # None
          /\ todo[i].kind = "append" =>
                IF i = 1 THEN todo[i].arg \in Settled ELSE todo[i - 1] = Stage("mark", todo[i].arg)
          /\ todo[i].kind \in {"mark", "append"} => ~ Purging(p)

PlaceInv(p) ==
    /\ job[p].at = "idle" => job[p] = Idle
    /\ job[p].at # "idle" => job[p].todo # <<>>
    /\ Purging(p) => \A q \in Cli \ {p} : job[q] = Idle

(* The lines the stage is asked to remove, or replaces.                      *)
Dropped(s, line) ==
    \/ s.kind = "include" /\ <<line.target, s.arg>> \in StartsWith
    \/ s.kind = "unhook" /\ Removable(line)
    \/ s.kind = "hook" /\ line = Odd

(* What a command holds between its read and its write.                      *)
WriteInv(p) ==
    LET j == job[p]
        s == Here(p)
        f == FileOf(s)
    IN j.at \in Writing =>
          /\ f \in Files
          /\ j.text \in Seq(LinesOf(f)) /\ j.seen \in Seq(LinesOf(f)) \cup {Absent, Blank}
          /\ j.at \in Renaming => s.kind \in {"append", "unhook", "hook"}
          /\ j.at \in InPlace => s.kind \notin {"append", "unhook"}
          /\ j.at = "copy" => f = "settings"
          /\ excused[f] = {} =>
             /\ \A line \in LinesOf(f) : Has(TextOf(j.seen), line) => Has(j.text, line) \/ Dropped(s, line)
             /\ f = "settings" /\ Has(j.text, Odd) => Has(TextOf(j.seen), Odd)
          /\ \A line \in Reported(s) : Has(j.text, line)
          /\ Sound(f, j.text, Settled)

JobsInv == \A p \in Cli : TodoInv(p) /\ PlaceInv(p) /\ WriteInv(p)

(* The files themselves.                                                     *)
TextsInv ==
    /\ \A f \in Files : Sound(f, Text(f), Settled) /\ Sound(f, TextOf(tmp[f]), Settled)
    /\ \A e \in acked["settings"] : ~ Removable(e) /\ e # Odd
    /\ AcknowledgedKept

AtSettings(p) == job[p].at \in Writing /\ FileOf(Here(p)) = "settings"

(* In a backup.                                                              *)
Saved(e) == \E i \in DOMAIN backup : backup[i] # Blank /\ Has(backup[i], e)

(* An entry of others that was read is still there (if no writer overlapped: *)
(* what has another shape may have been replaced), and one that is about to  *)
(* be replaced has been copied.                                              *)
BackupInv ==
    /\ \A p \in Cli : AtSettings(p) /\ job[p].at \in Renaming => files["settings"] # Absent
    /\ excused["settings"] = {} =>
       /\ \A e \in Entries : ~ Removable(e) =>
             \A p \in Cli : AtSettings(p) /\ Has(TextOf(job[p].seen), e) =>
                   /\ e # Odd => Has(Text("settings"), e)
                   /\ job[p].at \in Copied /\ Has(Text("settings"), e) => Saved(e)
       /\ \A p \in Cli : AtSettings(p) /\ job[p].at \in InPlace => job[p].seen = Absent

CliInv == LearningInv /\ FileTypes /\ JobsInv /\ TextsInv /\ BackupInv

-----------------------------------------------------------------------------
(* Sequences.                                                                *)

LEMMA HasAppend ==
    ASSUME NEW X, NEW t \in Seq(X), NEW x \in X
    PROVE  Append(t, x) \in Seq(X) /\ \A y : Has(Append(t, x), y) <=> Has(t, y) \/ y = x
<1> DEFINE w == Append(t, x)
<1>1. /\ w \in Seq(X) /\ Len(t) \in Nat /\ DOMAIN t = 1 .. Len(t) /\ DOMAIN w = 1 .. Len(t) + 1
      /\ w[Len(t) + 1] = x /\ \A i \in 1 .. Len(t) : w[i] = t[i]
  OBVIOUS
<1> HIDE DEF w
<1>2. ASSUME NEW y PROVE Has(w, y) <=> Has(t, y) \/ y = x
  <2>1. ASSUME Has(w, y) PROVE Has(t, y) \/ y = x
    <3>1. PICK i \in 1 .. Len(t) + 1 : w[i] = y
      BY <1>1, <2>1 DEF Has
    <3>2. CASE i = Len(t) + 1
      BY <1>1, <3>1, <3>2
    <3>3. CASE i \in 1 .. Len(t)
      BY <1>1, <3>1, <3>3 DEF Has
    <3> QED
      BY <1>1, <3>2, <3>3
  <2>2. ASSUME Has(t, y) PROVE Has(w, y)
    <3>1. PICK i \in 1 .. Len(t) : t[i] = y
      BY <1>1, <2>2 DEF Has
    <3>2. i \in 1 .. Len(t) + 1 /\ w[i] = y
      BY <1>1, <3>1
    <3> QED
      BY <1>1, <3>2 DEF Has
  <2>3. ASSUME y = x PROVE Has(w, y)
    <3>1. Len(t) + 1 \in 1 .. Len(t) + 1
      BY <1>1
    <3> QED
      BY <1>1, <2>3, <3>1 DEF Has
  <2> QED
    BY <2>1, <2>2, <2>3
<1> QED
  BY <1>1, <1>2 DEF w

LEMMA HasNothing == \A y : ~ Has(<<>>, y)
<1>1. DOMAIN <<>> = {}
  OBVIOUS
<1> QED
  BY <1>1 DEF Has

LEMMA OnlyHas ==
    ASSUME NEW X, NEW s \in Seq(X), NEW T
    PROVE  Only(s, T) \in Seq(X) /\ \A y : Has(Only(s, T), y) <=> Has(s, y) /\ y \in T
<1> DEFINE w == Only(s, T)
<1>1. w \in Seq(X) /\ \E p : Places(p, w, s, Len(s), T)
  BY OnlyPlaces
<1> HIDE DEF w
<1>2. PICK p : Places(p, w, s, Len(s), T)
  BY <1>1
<1>3. DOMAIN w = 1 .. Len(w) /\ DOMAIN s = 1 .. Len(s)
  BY <1>1
<1>4. ASSUME NEW y, Has(w, y) PROVE Has(s, y) /\ y \in T
  <2>1. PICK k \in 1 .. Len(w) : w[k] = y
    BY <1>3, <1>4 DEF Has
  <2>2. p[k] \in 1 .. Len(s) /\ w[k] = s[p[k]] /\ s[p[k]] \in T
    BY <1>2 DEF Places
  <2> QED
    BY <1>3, <2>1, <2>2 DEF Has
<1>5. ASSUME NEW y, Has(s, y), y \in T PROVE Has(w, y)
  <2>1. PICK i \in 1 .. Len(s) : s[i] = y
    BY <1>3, <1>5 DEF Has
  <2>2. PICK k \in 1 .. Len(w) : p[k] = i
    BY <1>2, <1>5, <2>1 DEF Places
  <2>3. w[k] = y
    BY <1>2, <2>1, <2>2 DEF Places
  <2> QED
    BY <1>3, <2>3 DEF Has
<1> QED
  BY <1>1, <1>4, <1>5 DEF w

LEMMA OnlyLast ==
    ASSUME NEW X, NEW s \in Seq(X), NEW T, s # <<>>, s[Len(s)] \in T
    PROVE  Only(s, T) # <<>> /\ Only(s, T)[Len(Only(s, T))] = s[Len(s)]
<1> DEFINE w == Only(s, T)
<1>1. w \in Seq(X) /\ \E p : Places(p, w, s, Len(s), T)
  BY OnlyPlaces
<1> HIDE DEF w
<1>2. PICK p : Places(p, w, s, Len(s), T)
  BY <1>1
<1>3. Len(s) \in 1 .. Len(s) /\ Len(w) \in Nat /\ Len(s) \in Nat
  BY <1>1
<1>4. PICK k \in 1 .. Len(w) : p[k] = Len(s)
  BY <1>2, <1>3 DEF Places
<1>5. Len(w) \in 1 .. Len(w) /\ p[Len(w)] \in 1 .. Len(s)
  BY <1>2, <1>3, <1>4 DEF Places
<1>6. k = Len(w)
  <2> SUFFICES ASSUME k < Len(w) PROVE FALSE
    BY <1>3, <1>4
  <2>1. p[k] < p[Len(w)]
    BY <1>2, <1>5 DEF Places
  <2> QED
    BY <1>3, <1>4, <1>5, <2>1
<1>7. w[Len(w)] = s[Len(s)]
  BY <1>2, <1>4, <1>6 DEF Places
<1>8. w # <<>>
  BY <1>1, <1>5
<1> QED
  BY <1>7, <1>8 DEF w

(* Of a sequence without one of its elements, that one alone may be missing. *)
LEMMA RemoveAtHas ==
    ASSUME NEW X, NEW s \in Seq(X), NEW i \in DOMAIN s
    PROVE  /\ RemoveAt(s, i) \in Seq(X)
           /\ \A y : Has(s, y) => Has(RemoveAt(s, i), y) \/ y = s[i]
<1> DEFINE a == SubSeq(s, 1, i - 1)
           b == SubSeq(s, i + 1, Len(s))
           w == a \o b
<1>1. Len(s) \in Nat /\ i \in 1 .. Len(s) /\ DOMAIN s = 1 .. Len(s) /\ \A k \in 1 .. Len(s) : s[k] \in X
  OBVIOUS
<1>2. a \in Seq(X) /\ Len(a) = i - 1 /\ \A k \in 1 .. i - 1 : a[k] = s[k]
  BY <1>1
<1>3. b \in Seq(X) /\ Len(b) = Len(s) - i /\ \A k \in 1 .. Len(s) - i : b[k] = s[i + k]
  <2>1. Len(s) \in Int /\ i + 1 \in Int /\ Len(s) - (i + 1) + 1 = Len(s) - i /\ Len(s) - i \in Nat
    BY <1>1
  <2>2. Len(b) = Len(s) - i
    BY <1>1, <2>1
  <2>3. ASSUME NEW k \in 1 .. Len(s) - i PROVE b[k] = s[i + k] /\ s[i + k] \in X
    <3>1. b[k] = s[i + 1 + k - 1] /\ i + 1 + k - 1 = i + k /\ i + k \in 1 .. Len(s)
      BY <1>1, <2>1, <2>2
    <3> QED
      BY <1>1, <3>1
  <2>4. b \in Seq(X)
    BY <1>1, <2>1
  <2> QED
    BY <2>2, <2>3, <2>4
<1> HIDE DEF a, b
<1>4. /\ w \in Seq(X) /\ Len(w) = Len(s) - 1 /\ DOMAIN w = 1 .. Len(s) - 1
      /\ \A k \in 1 .. i - 1 : w[k] = s[k]
      /\ \A k \in i .. Len(s) - 1 : w[k] = s[k + 1]
  <2>1. w \in Seq(X) /\ Len(w) = Len(s) - 1
    <3>1. w \in Seq(X)
      BY <1>2, <1>3
    <3>2. ASSUME NEW c \in Seq(X), NEW d \in Seq(X) PROVE Len(c \o d) = Len(c) + Len(d)
      OBVIOUS
    <3>3. Len(w) = Len(a) + Len(b)
      BY <1>2, <1>3, <3>2
    <3> QED
      BY <1>1, <1>2, <1>3, <3>1, <3>3
  <2>2. DOMAIN w = 1 .. Len(s) - 1
    BY <2>1
  <2>2a. \A k \in 1 .. Len(s) - 1 : w[k] = IF k <= i - 1 THEN a[k] ELSE b[k - (i - 1)]
    BY <1>1, <1>2, <1>3
  <2> HIDE DEF w
  <2>3. \A k \in 1 .. i - 1 : w[k] = s[k]
    BY <1>1, <1>2, <2>2a
  <2>4. ASSUME NEW k \in i .. Len(s) - 1 PROVE w[k] = s[k + 1]
    <3>1. /\ k \in 1 .. Len(s) - 1 /\ ~ (k <= i - 1) /\ k - (i - 1) \in 1 .. Len(s) - i
          /\ i + (k - (i - 1)) = k + 1
      BY <1>1
    <3> QED
      BY <1>3, <2>2a, <3>1
  <2> QED
    BY <2>1, <2>2, <2>3, <2>4
<1> HIDE DEF w
<1>5. ASSUME NEW y, Has(s, y) PROVE Has(w, y) \/ y = s[i]
  <2>1. PICK k \in 1 .. Len(s) : s[k] = y
    BY <1>1, <1>5 DEF Has
  <2>2. CASE k < i
    <3>1. k \in 1 .. i - 1 /\ k \in 1 .. Len(s) - 1
      BY <1>1, <2>2
    <3> QED
      BY <1>4, <2>1, <3>1 DEF Has
  <2>3. CASE k > i
    <3>1. k - 1 \in i .. Len(s) - 1 /\ k - 1 \in 1 .. Len(s) - 1 /\ (k - 1) + 1 = k
      BY <1>1, <2>3
    <3>2. w[k - 1] = y
      BY <1>4, <2>1, <3>1
    <3> QED
      BY <1>4, <3>1, <3>2 DEF Has
  <2> QED
    BY <1>1, <2>1, <2>2, <2>3
<1>6. RemoveAt(s, i) = w
  BY DEF RemoveAt, w, a, b
<1> QED
  BY <1>4, <1>5, <1>6

LEMMA MinIn == ASSUME NEW S \in SUBSET Nat, S # {} PROVE Min(S) \in S
<1>1. \E m \in S : \A k \in S : m <= k
  BY LeastNatural
<1> QED
  BY <1>1 DEF Min

-----------------------------------------------------------------------------
(* Rule learning.                                                            *)

(* What happens to suggestions while nothing is purged.                      *)
SuggestionsGrow ==
    \A q \in Patterns : suggestions[q] # None =>
        /\ suggestions'[q] # None /\ suggestions'[q].verb = suggestions[q].verb
        /\ suggestions[q].state # "open" => suggestions'[q].state # "open"

LEMMA LearningTypes ==
    ASSUME LearningInv
    PROVE  /\ observed \in Seq(Observation)
           /\ suggestions \in [Patterns -> Suggestion \cup {None}]
           /\ recording \in [Recorders -> Recording \cup {None}]
           /\ Len(observed) \in Nat
BY DEF LearningInv, LearningTypeOK

(* What the first n rows show does not change with those that are added.     *)
LEMMA EarnedStays ==
    ASSUME NEW rows, NEW more, NEW p, NEW n, NEW row, Len(rows) \in Nat, Len(more) \in Nat,
           Len(rows) <= Len(more), \A i \in 1 .. Len(rows) : more[i] = rows[i],
           Earned(rows, p, n, row)
    PROVE  Earned(more, p, n, row)
<1>1. n \in 1 .. Len(rows) /\ row \in RowsOf(rows, p, n)
  BY DEF Earned
<1>2. n \in 1 .. Len(more) /\ \A i \in 1 .. n : i \in 1 .. Len(rows) /\ more[i] = rows[i]
  BY <1>1
<1>3. RowsOf(more, p, n) = RowsOf(rows, p, n)
  BY <1>2 DEF RowsOf
<1>4. PICK S \in Newest(rows, p, n, Threshold) :
        Cardinality(S) = Threshold /\ \A i, j \in S : rows[i].verb = rows[j].verb
  BY DEF Earned
<1>5. \A i \in RowsOf(rows, p, n) : more[i] = rows[i]
  BY <1>2 DEF RowsOf
<1>6. /\ S \in SUBSET RowsOf(rows, p, n)
      /\ Cardinality(S) = Threshold \/ (S = RowsOf(rows, p, n) /\ Cardinality(S) < Threshold)
      /\ \A i \in S, j \in RowsOf(rows, p, n) \ S : rows[j].ts <= rows[i].ts
  BY <1>4 DEF Newest
<1>7. S \in Newest(more, p, n, Threshold)
  BY <1>3, <1>5, <1>6 DEF Newest
<1>8. \A i, j \in S : more[i].verb = more[j].verb
  BY <1>4, <1>5, <1>6
<1> QED
  BY <1>1, <1>2, <1>3, <1>4, <1>7, <1>8 DEF Earned

(* What a suggestion rests on stays, whatever is answered to it.             *)
LEMMA SuggestedStays ==
    ASSUME LearningInv, NEW p \in Patterns, Len(observed') \in Nat,
           Len(observed) <= Len(observed'), \A i \in 1 .. Len(observed) : observed'[i] = observed[i],
           suggestions[p] # None, suggestions'[p].verb = suggestions[p].verb,
           suggestions'[p].row = suggestions[p].row, suggestions'[p].upto = suggestions[p].upto
    PROVE  SuggestedInv(p)'
<1>1. /\ Earned(observed, p, suggestions[p].upto, suggestions[p].row)
      /\ observed[suggestions[p].row].verb = suggestions[p].verb
  BY DEF LearningInv, SuggestedInv
<1>2. suggestions[p].row \in 1 .. Len(observed)
  BY <1>1, LearningTypes DEF Earned, RowsOf
<1>3. Earned(observed', p, suggestions[p].upto, suggestions[p].row)
  BY <1>1, LearningTypes, EarnedStays
<1> QED
  BY <1>1, <1>2, <1>3 DEF SuggestedInv

(* A call in flight stays as it is while rows are added.                     *)
LEMMA InFlightStays ==
    ASSUME LearningInv, NEW r \in Recorders, recording'[r] = recording[r], Len(observed') \in Nat,
           Len(observed) <= Len(observed'), \A i \in 1 .. Len(observed) : observed'[i] = observed[i]
    PROVE  InFlightInv(r)'
<1> SUFFICES ASSUME recording[r] # None
             PROVE  LET w == recording[r].row
                    IN /\ w \in 1 .. Len(observed')
                       /\ recording[r].at = "upsert" =>
                             Earned(observed', observed'[w].pattern, recording[r].upto, w)
  BY DEF InFlightInv
<1> DEFINE w == recording[r].row
           n == recording[r].upto
<1>1. /\ w \in 1 .. Len(observed)
      /\ recording[r].at = "upsert" => Earned(observed, observed[w].pattern, n, w)
  BY DEF LearningInv, InFlightInv
<1>2. w \in 1 .. Len(observed') /\ observed'[w] = observed[w]
  BY <1>1, LearningTypes
<1>3. recording[r].at = "upsert" => Earned(observed', observed[w].pattern, n, w)
  BY <1>1, LearningTypes, EarnedStays
<1> QED
  BY <1>1, <1>2, <1>3

(* What a step that adds rows, moves recorders, and leaves what is suggested *)
(* resting on the same rows, has to show of them.                            *)
LEMMA LearningKeeps ==
    ASSUME LearningInv, LearningTypeOK', Len(observed) <= Len(observed'),
           \A i \in 1 .. Len(observed) : observed'[i] = observed[i],
           \A r \in Recorders : recording'[r] = recording[r] \/ InFlightInv(r)',
           \A p \in Patterns :
              \/ /\ suggestions[p] # None /\ suggestions'[p].verb = suggestions[p].verb
                 /\ suggestions'[p].row = suggestions[p].row
                 /\ suggestions'[p].upto = suggestions[p].upto
              \/ SuggestedInv(p)'
    PROVE  LearningInv'
<1>1. Len(observed') \in Nat
  BY DEF LearningTypeOK
<1>2. \A p \in Patterns : SuggestedInv(p)'
  BY <1>1, SuggestedStays
<1>3. \A r \in Recorders : InFlightInv(r)'
  BY <1>1, InFlightStays
<1> QED
  BY <1>2, <1>3 DEF LearningInv

(* Rows that are added do not change what a suggestion rests on.             *)
LEMMA InsertKeeps ==
    ASSUME LearningInv, NEW r \in Recorders, NEW c \in Calls, NEW human \in Humans, NEW ts \in Times,
           InsertObservation(r, c, human, ts)
    PROVE  LearningInv' /\ SuggestionsGrow
<1> DEFINE o == [pattern |-> Pattern(c), verb |-> Verb(human), call |-> c, ts |-> ts]
           new == [row |-> Len(observed) + 1, at |-> "count", upto |-> Len(observed) + 1]
<1>1. observed \in Seq(Observation) /\ Len(observed) \in Nat
  BY LearningTypes
<1>2. o \in Observation
  BY DEF Patterns, Verb, Observation
<1>3. observed' = Append(observed, o) /\ suggestions' = suggestions
      /\ recording' = [recording EXCEPT ![r] = new]
  BY DEF InsertObservation
<1>4. new \in Recording /\ new.row = Len(observed) + 1 /\ new.at = "count"
  BY <1>1 DEF Recording
<1> HIDE DEF o, new
<1>5. /\ observed' \in Seq(Observation) /\ Len(observed') = Len(observed) + 1
      /\ \A i \in 1 .. Len(observed) : observed'[i] = observed[i]
  BY <1>1, <1>2, <1>3
<1>6. recording' \in [Recorders -> Recording \cup {None}]
      /\ \A q \in Recorders : recording'[q] = IF q = r THEN new ELSE recording[q]
  BY <1>3, <1>4, LearningTypes
<1>7. LearningTypeOK'
  BY <1>3, <1>5, <1>6, LearningTypes DEF LearningTypeOK
<1>8. new.row \in 1 .. Len(observed')
  BY <1>1, <1>4, <1>5
<1>9. LearningInv'
  <2>1. Len(observed) <= Len(observed')
    BY <1>1, <1>5
  <2>2. InFlightInv(r)'
    BY <1>4, <1>6, <1>8 DEF InFlightInv
  <2>3. \A p \in Patterns : suggestions[p] = None => SuggestedInv(p)'
    BY <1>3 DEF SuggestedInv
  <2> QED
    BY <1>3, <1>5, <1>6, <1>7, <2>1, <2>2, <2>3, LearningKeeps
<1> QED
  BY <1>3, <1>9 DEF SuggestionsGrow

(* A count of Threshold is of Threshold rows with one answer.                *)
LEMMA SameCountMeans ==
    ASSUME LearningInv, NEW p, NEW n \in 1 .. Len(observed),
           NEW S \in Newest(observed, p, n, Threshold),
           NEW last
    PROVE  /\ SameCount(S, last) \in Nat
           /\ SameCount(S, last) >= Threshold =>
                 Cardinality(S) = Threshold /\ \A i, j \in S : observed[i].verb = observed[j].verb
<1> DEFINE A == {i \in S : observed[i].verb = observed[last].verb}
<1>1. S \in SUBSET RowsOf(observed, p, n) /\ (Cardinality(S) = Threshold \/ Cardinality(S) < Threshold)
  BY DEF Newest
<1>2. 1 \in Int /\ n \in Int
  BY LearningTypes
<1>3. IsFiniteSet(1 .. n)
  BY <1>2, FS_Interval
<1>4. S \in SUBSET (1 .. n)
  BY <1>1 DEF RowsOf
<1>5. IsFiniteSet(S)
  BY <1>3, <1>4, FS_Subset
<1>6. A \in SUBSET S
  OBVIOUS
<1>7. SameCount(S, last) = Cardinality(A)
  BY DEF SameCount
<1> HIDE DEF A
<1>8. IsFiniteSet(A) /\ Cardinality(A) <= Cardinality(S) /\ (Cardinality(S) = Cardinality(A) => S = A)
  BY <1>5, <1>6, FS_Subset
<1>9. Cardinality(A) \in Nat /\ Cardinality(S) \in Nat
  BY <1>5, <1>8, FS_CardinalityType
<1>10. ASSUME Cardinality(A) >= Threshold
       PROVE  Cardinality(S) = Threshold /\ S = A
  BY <1>1, <1>8, <1>9, <1>10, ThresholdAssumption
<1> QED
  BY <1>7, <1>9, <1>10 DEF A

LEMMA CheckKeeps ==
    ASSUME LearningInv, NEW r \in Recorders, CheckThreshold(r)
    PROVE  LearningInv' /\ SuggestionsGrow
<1> DEFINE w == recording[r].row
           p == observed[w].pattern
           n == Len(observed)
<1>1. recording[r] \in Recording /\ recording[r] # None /\ UNCHANGED <<observed, suggestions>>
  BY LearningTypes DEF CheckThreshold
<1>2. w \in 1 .. n
  BY <1>1 DEF LearningInv, InFlightInv
<1>3. n \in 1 .. Len(observed)
  BY <1>2, LearningTypes
<1> DEFINE Counted(S, last) ==
        recording' = [recording EXCEPT ![r] =
            IF SameCount(S, last) < Threshold THEN None
            ELSE [recording[r] EXCEPT !.at = "upsert", !.upto = n]]
<1>4. PICK S \in Newest(observed, p, n, Threshold) : \E last : Counted(S, last)
  <2>1. \E S \in Newest(observed, p, n, Threshold), L \in Newest(observed, p, n, 1) : \E last \in L : Counted(S, last)
    BY DEF CheckThreshold
  <2> HIDE DEF Counted
  <2> QED
    BY <2>1
<1>0. PICK last : Counted(S, last)
  BY <1>4
<1> DEFINE new == [recording[r] EXCEPT !.at = "upsert", !.upto = n]
<1>5. new \in Recording /\ new.row = w /\ new.upto = n /\ new.at = "upsert"
  BY <1>1, LearningTypes DEF Recording
<1>6. ASSUME SameCount(S, last) >= Threshold
      PROVE  Earned(observed, p, n, w)
  <2>1. w \in RowsOf(observed, p, n)
    BY <1>2 DEF RowsOf
  <2> HIDE DEF w, p, n
  <2>2. Cardinality(S) = Threshold /\ \A i, j \in S : observed[i].verb = observed[j].verb
    BY <1>3, <1>6, SameCountMeans
  <2> QED
    BY <1>3, <2>1, <2>2 DEF Earned
<1>7. recording'[r] \in {None, new} /\ (recording'[r] # None => SameCount(S, last) >= Threshold)
  <2>1. SameCount(S, last) \in Nat /\ Threshold \in Nat
    BY <1>3, SameCountMeans, ThresholdAssumption
  <2>2. recording'[r] = IF SameCount(S, last) < Threshold THEN None ELSE new
    BY <1>0, LearningTypes
  <2> HIDE DEF new
  <2> QED
    BY <2>1, <2>2
<1>8. /\ recording' \in [Recorders -> Recording \cup {None}]
      /\ \A q \in Recorders : q # r => recording'[q] = recording[q]
  BY <1>0, <1>5, LearningTypes
<1>9. LearningTypeOK'
  BY <1>1, <1>8, LearningTypes DEF LearningTypeOK
<1>10. InFlightInv(r)'
  <2> SUFFICES ASSUME recording'[r] # None PROVE InFlightInv(r)'
    BY DEF InFlightInv
  <2>1. recording'[r].row = w /\ recording'[r].upto = n /\ Earned(observed, p, n, w)
    BY <1>5, <1>6, <1>7
  <2>2. observed' = observed
    BY <1>1
  <2> QED
    BY <1>2, <2>1, <2>2 DEF InFlightInv
<1>11. Len(observed) <= Len(observed') /\ \A i \in 1 .. Len(observed) : observed'[i] = observed[i]
  BY <1>1, LearningTypes
<1>12. \A q \in Patterns : suggestions[q] = None => SuggestedInv(q)'
  BY <1>1 DEF SuggestedInv
<1>13. LearningInv'
  BY <1>1, <1>8, <1>9, <1>10, <1>11, <1>12, LearningKeeps
<1> QED
  BY <1>1, <1>13 DEF SuggestionsGrow

LEMMA UpsertKeeps ==
    ASSUME LearningInv, NEW r \in Recorders, Upsert(r)
    PROVE  LearningInv' /\ SuggestionsGrow
<1> DEFINE w == recording[r].row
           n == recording[r].upto
           q == observed[w].pattern
           row == [state |-> "open", verb |-> observed[w].verb, row |-> w, upto |-> n]
<1>1. /\ recording[r] \in Recording /\ recording[r] # None /\ recording[r].at = "upsert"
      /\ observed' = observed /\ recording' = [recording EXCEPT ![r] = None]
  BY LearningTypes DEF Upsert
<1>2. w \in 1 .. Len(observed) /\ Earned(observed, q, n, w)
  BY <1>1 DEF LearningInv, InFlightInv
<1>3. observed[w] \in Observation /\ n \in Nat /\ w \in Nat
  BY <1>1, <1>2, LearningTypes DEF Recording
<1>4. q \in Patterns /\ row \in Suggestion
  BY <1>3 DEF Observation, Suggestion
<1>5. suggestions' = IF suggestions[q] = None THEN [suggestions EXCEPT ![q] = row] ELSE suggestions
  BY DEF Upsert
<1>6. /\ row.row = w /\ row.upto = n /\ row.verb = observed[w].verb
      /\ recording' \in [Recorders -> Recording \cup {None}]
      /\ \A x \in Recorders : recording'[x] = None \/ recording'[x] = recording[x]
  BY <1>1, LearningTypes
<1> HIDE DEF row
<1>7. LearningTypeOK'
  BY <1>1, <1>4, <1>5, <1>6, LearningTypes DEF LearningTypeOK
<1>8. ASSUME NEW p \in Patterns, suggestions'[p] # suggestions[p]
      PROVE  SuggestedInv(p)'
  <2>1. p = q /\ suggestions'[p] = row
    BY <1>4, <1>5, <1>8, LearningTypes
  <2>2. /\ suggestions'[p].upto = n /\ suggestions'[p].row = w
        /\ suggestions'[p].verb = observed[w].verb
    BY <1>6, <2>1
  <2>3. Earned(observed, p, n, w)
    BY <1>2, <2>1
  <2> QED
    BY <1>1, <2>2, <2>3 DEF SuggestedInv
<1>9. Len(observed) <= Len(observed') /\ \A i \in 1 .. Len(observed) : observed'[i] = observed[i]
  BY <1>1, LearningTypes
<1>10. LearningInv'
  <2>1. \A x \in Recorders : recording'[x] = recording[x] \/ InFlightInv(x)'
    BY <1>6 DEF InFlightInv
  <2>2. \A p \in Patterns :
           (suggestions'[p] = suggestions[p] /\ suggestions[p] # None) \/ SuggestedInv(p)'
    BY <1>8 DEF SuggestedInv
  <2> QED
    BY <1>7, <1>9, <2>1, <2>2, LearningKeeps
<1> QED
  BY <1>4, <1>5, <1>10, LearningTypes DEF SuggestionsGrow

(* An answer, or nothing, keeps what was observed.                           *)
LEMMA AnswerKeeps ==
    ASSUME LearningInv, UNCHANGED observed, recording' \in [Recorders -> Recording \cup {None}],
           \A r \in Recorders : recording'[r] \in {recording[r], None},
           suggestions' \in [Patterns -> Suggestion \cup {None}],
           \A q \in Patterns :
               IF suggestions[q] = None THEN suggestions'[q] = None
               ELSE \/ suggestions'[q] = suggestions[q]
                    \/ \E st \in {"accepted", "rejected"} :
                          suggestions'[q] = [suggestions[q] EXCEPT !.state = st]
    PROVE  LearningInv' /\ SuggestionsGrow
<1>1. LearningTypeOK'
  BY LearningTypes DEF LearningTypeOK
<1>2. ASSUME NEW q \in Patterns, suggestions[q] # None
      PROVE  /\ suggestions'[q] # None /\ suggestions'[q].verb = suggestions[q].verb
             /\ suggestions'[q].upto = suggestions[q].upto /\ suggestions'[q].row = suggestions[q].row
             /\ suggestions[q].state # "open" => suggestions'[q].state # "open"
  <2>1. suggestions[q] \in Suggestion
    BY <1>2, LearningTypes
  <2>2. \A st \in {"accepted", "rejected"} :
           LET r == [suggestions[q] EXCEPT !.state = st]
           IN /\ r \in Suggestion /\ r.verb = suggestions[q].verb /\ r.upto = suggestions[q].upto
              /\ r.row = suggestions[q].row /\ r.state = st
    BY <2>1 DEF Suggestion
  <2> QED
    BY <1>2, <2>1, <2>2, MarksAssumption
<1>3. SuggestionsGrow
  BY <1>2 DEF SuggestionsGrow
<1>4. Len(observed) <= Len(observed') /\ \A i \in 1 .. Len(observed) : observed'[i] = observed[i]
  BY LearningTypes
<1>5. LearningInv'
  <2>1. \A q \in Patterns : suggestions[q] = None => SuggestedInv(q)'
    BY DEF SuggestedInv
  <2>2. \A r \in Recorders : recording'[r] = recording[r] \/ InFlightInv(r)'
    BY DEF InFlightInv
  <2> QED
    BY <1>1, <1>2, <1>4, <2>1, <2>2, LearningKeeps
<1> QED
  BY <1>3, <1>5

LEMMA LearnKeeps ==
    ASSUME LearningInv, Record \/ \E q \in Patterns : Reject(q)
    PROVE  LearningInv' /\ SuggestionsGrow
<1>1. CASE \E r \in Recorders, c \in Calls, human \in Humans, ts \in Times :
              InsertObservation(r, c, human, ts)
  BY <1>1, InsertKeeps
<1>2. CASE \E r \in Recorders : CheckThreshold(r)
  BY <1>2, CheckKeeps
<1>3. CASE \E r \in Recorders : Upsert(r)
  BY <1>3, UpsertKeeps
<1>4. CASE \E r \in Recorders : RecorderStops(r)
  BY <1>4, LearningTypes, AnswerKeeps DEF RecorderStops
<1>5. CASE \E q \in Patterns : Reject(q)
  <2>1. PICK q \in Patterns : Reject(q)
    BY <1>5
  <2>2. suggestions[q] \in Suggestion
    BY <2>1, LearningTypes DEF Reject
  <2>3. [suggestions[q] EXCEPT !.state = "rejected"] \in Suggestion
    BY <2>2 DEF Suggestion
  <2>4. suggestions' = [suggestions EXCEPT ![q] = [suggestions[q] EXCEPT !.state = "rejected"]]
    BY <2>1 DEF Reject
  <2>5. suggestions' \in [Patterns -> Suggestion \cup {None}]
    BY <2>3, <2>4, LearningTypes
  <2>6. \A r \in Patterns :
           suggestions'[r] = IF r = q THEN [suggestions[q] EXCEPT !.state = "rejected"]
                             ELSE suggestions[r]
    BY <2>4, LearningTypes
  <2>7. UNCHANGED observed /\ recording' = recording /\ suggestions[q] # None
    BY <2>1 DEF Reject
  <2> QED
    BY <2>5, <2>6, <2>7, AnswerKeeps, LearningTypes
<1> QED
  BY <1>1, <1>2, <1>3, <1>4, <1>5 DEF Record

-----------------------------------------------------------------------------
(* The lines of the files.                                                   *)

LEMMA RulesDiffer ==
    ASSUME NEW p \in Patterns, NEW q \in Patterns, NEW v, NEW w, RuleFor(p, v) = RuleFor(q, w)
    PROVE  p = q
BY DEF Patterns, Pattern, RuleFor

LEMMA SeqWiden == ASSUME NEW S, NEW T, S \subseteq T, NEW t \in Seq(S) PROVE t \in Seq(T)
OBVIOUS

LEMMA LinesAll == ASSUME NEW f \in Files PROVE LinesOf(f) \subseteq AllLines
BY DEF Files, AllLines

LEMMA SoundGrows ==
    ASSUME NEW f, NEW text, NEW A, NEW B, A \subseteq B, Sound(f, text, A)
    PROVE  Sound(f, text, B)
BY DEF Sound, Promoted

LEMMA SoundNothing == ASSUME NEW f, NEW A PROVE Sound(f, <<>>, A)
<1>1. DOMAIN <<>> = {}
  OBVIOUS
<1> QED
  BY <1>1, HasNothing DEF Sound, Promoted, OneHook

(* What a new text is: Means, for each kind of edit.                         *)
Means(s, f, text, new) ==
    new # None =>
          /\ new \in Seq(LinesOf(f))
          /\ f = "settings" /\ Has(new, Odd) => Has(text, Odd)
          /\ \A line \in LinesOf(f) : Has(text, line) => Has(new, line) \/ Dropped(s, line)
          /\ \A line \in Reported(s) : Has(new, line)
          /\ Sound(f, new, Settled)

LEMMA RulesMean ==
    ASSUME NEW s \in Stages, Fits(s), NEW text \in Seq(LinesOf("rules")), Sound("rules", text, Settled),
           suggestions \in [Patterns -> Suggestion \cup {None}],
           s.kind \in {"add", "append", "seed_rules"},
           s.kind = "append" => s.arg \in Settled,
           s.kind = "seed_rules" /\ files.rules = Absent => text = <<>>
    PROVE  Means(s, "rules", text, NewText(s, text))
<1> DEFINE X == LinesOf("rules")
<1>1. /\ Promoted(text, Settled) /\ None \notin Seq(X)
      /\ UserRules \subseteq X /\ Starter \in X
      /\ \A p \in Patterns, v \in {"allow", "deny"} : RuleFor(p, v) \in X /\ RuleFor(p, v) \notin UserRules
  BY MarksAssumption, LinesAssumption DEF Sound, Files, LinesOf
<1> HIDE DEF X
<1>2. text \in Seq(X) /\ ("rules" = "settings") = FALSE
  BY DEF X
<1>3. ASSUME NEW line \in X,
             \A q \in Patterns : \A v \in {"allow", "deny"} : RuleFor(q, v) = line => q \in Settled
      PROVE  /\ Append(text, line) \in Seq(X) /\ Append(text, line) # None
             /\ \A y : Has(Append(text, line), y) <=> Has(text, y) \/ y = line
             /\ Sound("rules", Append(text, line), Settled)
  <2>1. Append(text, line) \in Seq(X) /\ \A y : Has(Append(text, line), y) <=> Has(text, y) \/ y = line
    BY <1>2, HasAppend
  <2>2. Promoted(Append(text, line), Settled)
    BY <1>1, <1>3, <2>1 DEF Promoted
  <2> QED
    BY <1>1, <2>1, <2>2 DEF Sound
<1>4. CASE s.kind = "add"
  <2>1. s.arg \in X /\ s.arg \in UserRules /\ Reported(s) = {s.arg} /\ NewText(s, text) = Append(text, s.arg)
    BY <1>1, <1>4 DEF Fits, Reported, NewText, AddRule
  <2> QED
    BY <1>1, <1>3, <2>1 DEF Means, X
<1>5. CASE s.kind = "append"
  <2> DEFINE r == LearnedRule(s.arg)
  <2>1. /\ s.arg \in Patterns /\ s.arg \in Settled /\ r \in X /\ Reported(s) = {r}
        /\ NewText(s, text) \in {None, Append(text, r)}
    <3>1. s.arg \in Patterns /\ s.arg \in Settled /\ suggestions[s.arg] \in Suggestion
      BY <1>5 DEF Settled
    <3>2. r = RuleFor(s.arg, suggestions[s.arg].verb) /\ suggestions[s.arg].verb \in {"allow", "deny"}
      BY <3>1 DEF LearnedRule, Suggestion
    <3>3. r \in X
      BY <1>1, <3>1, <3>2
    <3> QED
      BY <1>5, <3>1, <3>3 DEF Reported, NewText, AppendLearned
  <2>2. \A q \in Patterns : \A v \in {"allow", "deny"} : RuleFor(q, v) = r => q \in Settled
    BY <2>1, RulesDiffer DEF LearnedRule
  <2> HIDE DEF r
  <2>3. CASE NewText(s, text) = None
    BY <2>3 DEF Means
  <2>4. CASE NewText(s, text) = Append(text, r)
    BY <1>3, <2>1, <2>2, <2>4 DEF Means, X
  <2> QED
    BY <2>1, <2>3, <2>4
<1>6. CASE s.kind = "seed_rules"
  <2>1. Reported(s) = {} /\ NewText(s, text) = IF files.rules = Absent THEN <<Starter>> ELSE None
    BY <1>6 DEF Reported, NewText
  <2>2. CASE files.rules # Absent
    BY <2>1, <2>2 DEF Means
  <2>3. CASE files.rules = Absent
    <3>1. text = <<>> /\ NewText(s, text) = Append(text, Starter)
      BY <1>6, <2>1, <2>3
    <3>2. \A q \in Patterns : \A v \in {"allow", "deny"} : RuleFor(q, v) # Starter
      BY DEF RuleFor, Starter
    <3> QED
      BY <1>1, <1>3, <2>1, <3>1, <3>2 DEF Means, X
  <2> QED
    BY <2>2, <2>3
<1> QED
  BY <1>4, <1>5, <1>6

LEMMA IngestMeans ==
    ASSUME NEW s \in Stages, Fits(s), NEW text \in Seq(LinesOf("ingest")),
           s.kind \in {"exclude", "include", "seed_ingest"},
           s.kind = "seed_ingest" /\ files.ingest = Absent => text = <<>>
    PROVE  Means(s, "ingest", text, NewText(s, text))
<1> DEFINE X == LinesOf("ingest")
<1>1. /\ None \notin Seq(X) /\ Shipped \in X /\ \A t \in Targets : [target |-> t] \in X
      /\ \A new : Sound("ingest", new, Settled)
  BY MarksAssumption DEF Sound, Files, LinesOf
<1> HIDE DEF X
<1>2. text \in Seq(X)
  BY DEF X
<1>3. ASSUME NEW line \in X
      PROVE  /\ Append(text, line) \in Seq(X) /\ Append(text, line) # None
             /\ \A y : Has(Append(text, line), y) <=> Has(text, y) \/ y = line
  BY <1>1, <1>2, HasAppend
<1>4. CASE s.kind = "exclude"
  <2> DEFINE r == [target |-> s.arg]
  <2>1. r \in X /\ Reported(s) = {r} /\ NewText(s, text) = IF Has(text, r) THEN None ELSE Append(text, r)
    BY <1>1, <1>4 DEF Fits, Reported, NewText, AddExclude
  <2> HIDE DEF r
  <2>2. CASE Has(text, r)
    BY <2>1, <2>2 DEF Means
  <2>3. CASE ~ Has(text, r)
    BY <1>1, <1>3, <2>1, <2>3 DEF Means, X
  <2> QED
    BY <2>2, <2>3
<1>5. CASE s.kind = "include"
  <2> DEFINE found == {i \in DOMAIN text : text[i].target # None /\ <<text[i].target, s.arg>> \in StartsWith}
             m == Min(found)
  <2>1. Reported(s) = {} /\ NewText(s, text) = IF found = {} THEN None ELSE RemoveAt(text, m)
    BY <1>5 DEF Reported, NewText, RemoveExclude
  <2>2. CASE found = {}
    BY <2>1, <2>2 DEF Means
  <2>3. CASE found # {}
    <3>1. found \in SUBSET Nat
      BY <1>2
    <3>2. m \in found
      BY <2>3, <3>1, MinIn
    <3>3. m \in DOMAIN text /\ <<text[m].target, s.arg>> \in StartsWith
      BY <3>2
    <3> HIDE DEF found, m
    <3>4. RemoveAt(text, m) \in Seq(X) /\ \A y : Has(text, y) => Has(RemoveAt(text, m), y) \/ y = text[m]
      BY <1>2, <3>3, RemoveAtHas
    <3>5. Dropped(s, text[m])
      BY <1>5, <3>3 DEF Dropped
    <3>6. \A line \in X : Has(text, line) => Has(RemoveAt(text, m), line) \/ Dropped(s, line)
      BY <3>4, <3>5
    <3> QED
      BY <1>1, <2>1, <2>3, <3>4, <3>6 DEF Means, X
  <2> QED
    BY <2>2, <2>3
<1>6. CASE s.kind = "seed_ingest"
  <2>1. Reported(s) = {} /\ NewText(s, text) = IF files.ingest = Absent THEN <<Shipped>> ELSE None
    BY <1>6 DEF Reported, NewText
  <2>2. CASE files.ingest # Absent
    BY <2>1, <2>2 DEF Means
  <2>3. CASE files.ingest = Absent
    <3>1. text = <<>> /\ NewText(s, text) = Append(text, Shipped)
      BY <1>6, <2>1, <2>3
    <3> QED
      BY <1>1, <1>3, <2>1, <3>1 DEF Means, X
  <2> QED
    BY <2>2, <2>3
<1> QED
  BY <1>4, <1>5, <1>6

LEMMA HookIsNotOdd == OurEntry # Odd
<1>1. OurEntry.ours = TRUE /\ Odd.ours = FALSE
  BY DEF OurEntry, Odd
<1> QED
  BY <1>1

LEMMA SettingsMean ==
    ASSUME NEW s \in Stages, NEW text \in Seq(LinesOf("settings")), s.kind \in {"hook", "unhook"}
    PROVE  /\ Means(s, "settings", text, NewText(s, text))
           /\ s.kind = "unhook" /\ text = <<>> => NewText(s, text) = None
<1> DEFINE X == LinesOf("settings")
<1>1. X = Entries /\ None \notin Seq(X) /\ OurEntry \in X /\ Reported(s) = {}
  BY MarksAssumption DEF Files, LinesOf, Entries, Reported
<1> HIDE DEF X
<1>2. text \in Seq(X)
  BY DEF X
<1>3. CASE s.kind = "hook"
  <2>1. NewText(s, text) = MergeHook(text)
    BY <1>3 DEF NewText
  <2>2. CASE \E i \in DOMAIN text : IsHomnEntry(text[i])
    BY <1>1, <1>3, <2>1, <2>2 DEF MergeHook, Means
  <2>3. CASE \A i \in DOMAIN text : ~ IsHomnEntry(text[i])
    <3> DEFINE kept == Only(text, Entries \ {Odd})
               w == Append(kept, OurEntry)
    <3>1. NewText(s, text) = w
      BY <2>1, <2>3 DEF MergeHook
    <3>2. kept \in Seq(X) /\ \A y : Has(kept, y) <=> Has(text, y) /\ y \in Entries \ {Odd}
      BY <1>2, OnlyHas
    <3> HIDE DEF kept
    <3>3. w \in Seq(X) /\ \A y : Has(w, y) <=> Has(kept, y) \/ y = OurEntry
      BY <1>1, <3>2, HasAppend
    <3>4. /\ DOMAIN kept = 1 .. Len(kept) /\ Len(kept) \in Nat /\ DOMAIN w = 1 .. Len(kept) + 1
          /\ \A i \in 1 .. Len(kept) : w[i] = kept[i]
      BY <1>1, <3>2
    <3> HIDE DEF w
    <3>5. \A i \in DOMAIN w : IsHomnEntry(w[i]) => i = Len(kept) + 1
      <4> SUFFICES ASSUME NEW i \in 1 .. Len(kept) + 1, IsHomnEntry(w[i]), i # Len(kept) + 1 PROVE FALSE
        BY <3>4
      <4>1. i \in DOMAIN kept /\ w[i] = kept[i]
        BY <3>4
      <4>2. Has(text, kept[i])
        BY <3>2, <4>1 DEF Has
      <4> QED
        BY <2>3, <4>1, <4>2 DEF Has
    <3>6. Sound("settings", w, Settled)
      BY <3>5 DEF Sound, OneHook
    <3>7. \A line \in X : Has(text, line) => Has(w, line) \/ Dropped(s, line)
      BY <1>1, <1>3, <3>2, <3>3 DEF Dropped
    <3>8. ~ Has(w, Odd)
      BY <3>2, <3>3, HookIsNotOdd
    <3> QED
      BY <1>1, <1>3, <3>1, <3>3, <3>6, <3>7, <3>8 DEF Means, X
  <2> QED
    BY <2>2, <2>3
<1>4. CASE s.kind = "unhook"
  <2> DEFINE T == {e \in Entries : ~ Removable(e)}
             rest == Only(text, T)
  <2>1. NewText(s, text) = IF rest = text THEN None ELSE rest
    BY <1>4 DEF NewText, RemoveHook
  <2>2. rest \in Seq(X) /\ \A y : Has(rest, y) <=> Has(text, y) /\ y \in T
    BY <1>2, OnlyHas
  <2>3. \A line \in X : Has(text, line) => Has(rest, line) \/ Dropped(s, line)
    BY <1>1, <1>4, <2>2 DEF Dropped
  <2>4. \A e \in T : ~ IsHomnEntry(e)
    BY DEF Removable, IsHomnEntry
  <2> HIDE DEF rest, T
  <2>5. \A i \in DOMAIN rest : rest[i] \in T
    BY <2>2 DEF Has
  <2>6. Sound("settings", rest, Settled)
    BY <2>4, <2>5 DEF Sound, OneHook
  <2>7. Means(s, "settings", text, NewText(s, text))
    BY <1>1, <2>1, <2>2, <2>3, <2>6 DEF Means, X
  <2>8. ASSUME text = <<>> PROVE rest = text
    <3>1. rest \in Seq(X) /\ \A i \in DOMAIN rest : Has(<<>>, rest[i])
      BY <2>2, <2>8 DEF Has
    <3>2. Len(rest) = 0
      <4> SUFFICES ASSUME Len(rest) # 0 PROVE FALSE
        OBVIOUS
      <4>1. 1 \in DOMAIN rest
        BY <3>1
      <4> QED
        BY <3>1, <4>1, HasNothing
    <3> QED
      BY <2>8, <3>1, <3>2
  <2> QED
    BY <2>1, <2>7, <2>8
<1> QED
  BY <1>3, <1>4

LEMMA NewTextMeans ==
    ASSUME NEW s \in Stages, Fits(s), FileOf(s) \in Files,
           NEW text \in Seq(LinesOf(FileOf(s))), Sound(FileOf(s), text, Settled),
           suggestions \in [Patterns -> Suggestion \cup {None}],
           s.kind = "append" => s.arg \in Settled,
           s.kind \in {"seed_rules", "seed_ingest"} /\ files[FileOf(s)] = Absent => text = <<>>
    PROVE  /\ Means(s, FileOf(s), text, NewText(s, text))
           /\ s.kind = "unhook" /\ text = <<>> => NewText(s, text) = None
<1>1. CASE s.kind \in {"add", "append", "seed_rules"}
  <2>1. FileOf(s) = "rules"
    BY <1>1 DEF FileOf
  <2> QED
    BY <1>1, <2>1, RulesMean
<1>2. CASE s.kind \in {"exclude", "include", "seed_ingest"}
  <2>1. FileOf(s) = "ingest"
    BY <1>2 DEF FileOf
  <2> QED
    BY <1>2, <2>1, IngestMeans
<1>3. CASE s.kind \in {"hook", "unhook"}
  <2>1. FileOf(s) = "settings"
    BY <1>3 DEF FileOf
  <2> QED
    BY <1>3, <2>1, SettingsMean
<1>4. s.kind \in {"add", "append", "seed_rules", "exclude", "include", "seed_ingest", "hook", "unhook"}
  BY MarksAssumption DEF Stages, Kinds, FileOf
<1> QED
  BY <1>1, <1>2, <1>3, <1>4

-----------------------------------------------------------------------------
(* What a process holds.                                                     *)

LEMMA JobTypes ==
    ASSUME FileTypes, NEW p \in Cli
    PROVE  /\ job[p] \in Job /\ job[p].at \in {"idle", "stage"} \cup Writing
           /\ job[p].todo \in Seq(Stages) /\ job[p].text \in Seq(AllLines)
           /\ job[p].seen \in Seq(AllLines) \cup {Absent, Blank}
BY DEF FileTypes, Job

LEMMA HereIs ==
    ASSUME FileTypes, JobsInv, NEW p \in Cli, job[p].at # "idle"
    PROVE  /\ job[p].todo # <<>> /\ Here(p) = job[p].todo[1] /\ 1 \in DOMAIN job[p].todo
           /\ Here(p) \in Stages /\ Fits(Here(p))
           /\ Here(p).kind = "mark" => suggestions[Here(p).arg] # None
           /\ Here(p).kind = "append" => Here(p).arg \in Settled
           /\ Here(p).kind \in {"mark", "append"} => ~ Purging(p)
<1>1. job[p].todo \in Seq(Stages) /\ job[p].todo # <<>>
  BY JobTypes DEF JobsInv, PlaceInv
<1>2. 1 \in DOMAIN job[p].todo /\ Here(p) = job[p].todo[1] /\ job[p].todo[1] \in Stages
  BY <1>1 DEF Here
<1>3. TodoInv(p)
  BY DEF JobsInv
<1> QED
  BY <1>1, <1>2, <1>3 DEF TodoInv

ExcusesGrow == \A f \in Files : excused[f] \subseteq excused'[f]

LEMMA SettledGrows == ASSUME SuggestionsGrow PROVE Settled \subseteq Settled'
BY DEF SuggestionsGrow, Settled

(* A process that does not move still has what it had.                       *)
LEMMA TodoStays ==
    ASSUME FileTypes, JobsInv, NEW q \in Cli, job'[q].todo = job[q].todo, SuggestionsGrow
    PROVE  TodoInv(q)'
<1>1. PICK todo : todo = job[q].todo
  OBVIOUS
<1>2. todo \in Seq(Stages) /\ job'[q].todo = todo
  BY <1>1, JobTypes
<1>3. Purging(q)' <=> Purging(q)
  BY <1>1, <1>2 DEF Purging
<1>4. TodoInv(q)
  BY DEF JobsInv
<1>5. ASSUME NEW i \in DOMAIN todo
      PROVE  /\ Fits(todo[i])
             /\ todo[i].kind = "mark" => suggestions'[todo[i].arg] # None
             /\ todo[i].kind = "append" =>
                   IF i = 1 THEN todo[i].arg \in Settled' ELSE todo[i - 1] = Stage("mark", todo[i].arg)
             /\ todo[i].kind \in {"mark", "append"} => ~ Purging(q)'
  <2>1. /\ Fits(todo[i]) /\ (todo[i].kind = "mark" => suggestions[todo[i].arg] # None)
        /\ todo[i].kind = "append" =>
              IF i = 1 THEN todo[i].arg \in Settled ELSE todo[i - 1] = Stage("mark", todo[i].arg)
        /\ todo[i].kind \in {"mark", "append"} => ~ Purging(q)
    BY <1>1, <1>4, <1>5 DEF TodoInv
  <2>2. todo[i].kind = "mark" => todo[i].arg \in Patterns
    BY <2>1 DEF Fits
  <2> QED
    BY <1>3, <2>1, <2>2, SettledGrows DEF SuggestionsGrow
<1> QED
  BY <1>2, <1>5 DEF TodoInv

LEMMA ReportedStays ==
    ASSUME FileTypes, JobsInv, NEW q \in Cli, job[q].at # "idle", job'[q].todo = job[q].todo,
           SuggestionsGrow
    PROVE  Reported(Here(q))' = Reported(Here(q)) /\ Here(q)' = Here(q)
<1>1. PICK s : s = Here(q)
  OBVIOUS
<1>2. Here(q)' = s
  BY <1>1 DEF Here
<1>3. s.kind = "append" => s.arg \in Patterns /\ suggestions[s.arg] # None
  BY <1>1, HereIs DEF Settled
<1>4. s.kind = "append" => suggestions'[s.arg].verb = suggestions[s.arg].verb
  BY <1>3 DEF SuggestionsGrow
<1>5. Reported(Here(q)) = CASE s.kind = "add"     -> {s.arg}
                           [] s.kind = "append"  -> {RuleFor(s.arg, suggestions[s.arg].verb)}
                           [] s.kind = "exclude" -> {[target |-> s.arg]}
                           [] OTHER              -> {}
  BY <1>1 DEF Reported, LearnedRule
<1>6. Reported(Here(q))' = CASE s.kind = "add"     -> {s.arg}
                           [] s.kind = "append"  -> {RuleFor(s.arg, suggestions'[s.arg].verb)}
                           [] s.kind = "exclude" -> {[target |-> s.arg]}
                           [] OTHER              -> {}
  BY <1>2 DEF Reported, LearnedRule, RuleFor
<1> QED
  BY <1>1, <1>2, <1>4, <1>5, <1>6

LEMMA WriteMoves ==
    ASSUME FileTypes, JobsInv, NEW q \in Cli, job[q].at \in Writing, SuggestionsGrow, ExcusesGrow,
           job'[q].todo = job[q].todo, job'[q].seen = job[q].seen, job'[q].text = job[q].text,
           job'[q].at \in Renaming => job[q].at \in Renaming,
           job'[q].at \in InPlace => job[q].at \in InPlace,
           job'[q].at = "copy" => job[q].at = "copy"
    PROVE  WriteInv(q)'
<1>1. job[q].at # "idle"
  BY DEF Writing, InPlace, Renaming, Copied
<1>2. Reported(Here(q))' = Reported(Here(q)) /\ Here(q)' = Here(q)
  BY <1>1, ReportedStays
<1>3. PICK j, k, s, f : j = job[q] /\ k = job'[q] /\ s = Here(q) /\ f = FileOf(s)
  OBVIOUS
<1>4. /\ f \in Files
      /\ j.text \in Seq(LinesOf(f)) /\ j.seen \in Seq(LinesOf(f)) \cup {Absent, Blank}
      /\ j.at \in Renaming => s.kind \in {"append", "unhook", "hook"}
      /\ j.at \in InPlace => s.kind \notin {"append", "unhook"}
      /\ j.at = "copy" => f = "settings"
      /\ excused[f] = {} =>
         /\ \A line \in LinesOf(f) : Has(TextOf(j.seen), line) => Has(j.text, line) \/ Dropped(s, line)
         /\ f = "settings" /\ Has(j.text, Odd) => Has(TextOf(j.seen), Odd)
      /\ \A line \in Reported(Here(q)) : Has(j.text, line)
      /\ Sound(f, j.text, Settled)
  BY <1>3 DEF JobsInv, WriteInv
<1>5. Sound(f, j.text, Settled')
  BY <1>4, SettledGrows, SoundGrows
<1>6. /\ job'[q] = k /\ Here(q)' = s /\ k.text = j.text /\ k.seen = j.seen
      /\ k.at \in Renaming => j.at \in Renaming
      /\ k.at \in InPlace => j.at \in InPlace
      /\ k.at = "copy" => j.at = "copy"
  BY <1>2, <1>3
<1>7. excused'[f] = {} => excused[f] = {}
  BY <1>4 DEF ExcusesGrow
<1> QED
  BY <1>2, <1>3, <1>4, <1>5, <1>6, <1>7 DEF WriteInv

LEMMA WriteStays ==
    ASSUME FileTypes, JobsInv, NEW q \in Cli, job'[q] = job[q], SuggestionsGrow, ExcusesGrow
    PROVE  WriteInv(q)'
<1>1. CASE job[q].at \in Writing
  BY <1>1, WriteMoves
<1>2. CASE job[q].at \notin Writing
  BY <1>2 DEF WriteInv
<1> QED
  BY <1>1, <1>2

(* The process has moved and holds nothing to write.                         *)
Moved(p) ==
    /\ job' \in [Cli -> Job]
    /\ \A q \in Cli \ {p} : job'[q] = job[q]
    /\ job'[p].at \notin Writing /\ (job'[p].at = "idle" => job'[p] = Idle)
    /\ job'[p].at # "idle" => job'[p].todo # <<>>
    /\ Purging(p)' => Purging(p)
    /\ TodoInv(p)'

LEMMA IdleType == Idle \in Job /\ Idle.at = "idle" /\ Idle.todo = <<>>
BY DEF Idle, Job

LEMMA StageType ==
    ASSUME NEW todo \in Seq(Stages)
    PROVE  LET j == [Idle EXCEPT !.at = "stage", !.todo = todo]
           IN j \in Job /\ j.at = "stage" /\ j.todo = todo
<1> DEFINE j == [Idle EXCEPT !.at = "stage", !.todo = todo]
<1>1. /\ DOMAIN j = {"at", "todo", "seen", "text"} /\ j.at = "stage" /\ j.todo = todo
      /\ j.seen = <<>> /\ j.text = <<>>
  BY DEF Idle
<1>2. j = [at |-> j.at, todo |-> j.todo, seen |-> j.seen, text |-> j.text]
  <2> DEFINE a == [Idle EXCEPT !.at = "stage"]
  <2>1. a = [at |-> "stage", todo |-> <<>>, seen |-> <<>>, text |-> <<>>]
    BY DEF Idle
  <2>2. j = [a EXCEPT !.todo = todo]
    OBVIOUS
  <2> HIDE DEF a
  <2>3. j = [at |-> "stage", todo |-> todo, seen |-> <<>>, text |-> <<>>]
    <3> HIDE DEF j
    <3> QED
      BY <2>1, <2>2
  <2> QED
    BY <1>1, <2>3
<1> HIDE DEF j
<1>3. <<>> \in Seq(AllLines)
  OBVIOUS
<1>4. j \in Job
  BY <1>1, <1>2, <1>3 DEF Job
<1> QED
  BY <1>1, <1>4 DEF j

LEMMA StopMoves ==
    ASSUME FileTypes, NEW p \in Cli, job' = [job EXCEPT ![p] = Idle]
    PROVE  Moved(p) /\ ~ Purging(p)'
<1>1. job \in [Cli -> Job]
  BY DEF FileTypes
<1>2. job' \in [Cli -> Job] /\ job'[p] = Idle /\ \A q \in Cli \ {p} : job'[q] = job[q]
  BY <1>1, IdleType
<1>3. DOMAIN job'[p].todo = {}
  BY <1>2, IdleType
<1>4. TodoInv(p)' /\ ~ Purging(p)'
  BY <1>3 DEF TodoInv, Purging
<1> QED
  BY <1>2, <1>4, IdleType DEF Moved, Writing, InPlace, Renaming, Copied

LEMMA TailMeans ==
    ASSUME NEW X, NEW t \in Seq(X), t # <<>>, Len(t) # 1
    PROVE  /\ Tail(t) \in Seq(X) /\ Tail(t) # <<>> /\ Len(t) \in Nat /\ Len(t) >= 2
           /\ DOMAIN Tail(t) = 1 .. Len(t) - 1 /\ DOMAIN t = 1 .. Len(t)
           /\ \A i \in 1 .. Len(t) - 1 : Tail(t)[i] = t[i + 1]
<1>1. Len(t) \in Nat /\ DOMAIN t = 1 .. Len(t)
  OBVIOUS
<1>2. Len(t) # 0
  OBVIOUS
<1>3. Len(t) >= 2
  BY <1>1, <1>2
<1>4. Tail(t) \in Seq(X)
  BY <1>2
<1>5. Len(Tail(t)) = Len(t) - 1
  BY <1>2
<1>6. DOMAIN Tail(t) = 1 .. Len(t) - 1
  BY <1>4, <1>5
<1>7. Tail(t) # <<>>
  BY <1>1, <1>3, <1>5
<1>8. \A i \in 1 .. Len(t) - 1 : Tail(t)[i] = t[i + 1]
  BY <1>1, <1>3
<1> QED
  BY <1>1, <1>3, <1>4, <1>6, <1>7, <1>8

LEMMA AdvanceMoves ==
    ASSUME FileTypes, JobsInv, NEW p \in Cli, job[p].at # "idle", Advance(p),
           SuggestionsGrow \/ Purging(p), Here(p).kind = "mark" => Here(p).arg \in Settled'
    PROVE  Moved(p)
<1>1. PICK todo : todo = job[p].todo
  OBVIOUS
<1>2. todo \in Seq(Stages) /\ todo # <<>> /\ Here(p) = todo[1] /\ job \in [Cli -> Job]
  BY <1>1, JobTypes, HereIs DEF FileTypes
<1>3. CASE Len(todo) = 1
  BY <1>1, <1>3, StopMoves DEF Advance
<1>4. CASE Len(todo) # 1
  <2> DEFINE rest == Tail(todo)
             j == [Idle EXCEPT !.at = "stage", !.todo = rest]
  <2>1. rest \in Seq(Stages) /\ Len(todo) \in Nat /\ Len(todo) >= 2
    BY <1>2, <1>4, TailMeans
  <2>2. /\ DOMAIN rest = 1 .. Len(todo) - 1 /\ DOMAIN todo = 1 .. Len(todo) /\ rest # <<>>
    BY <1>2, <1>4, TailMeans
  <2>3. \A i \in 1 .. Len(todo) - 1 : rest[i] = todo[i + 1]
    BY <1>2, <1>4, TailMeans
  <2>4. job' = [job EXCEPT ![p] = j]
    BY <1>1, <1>4 DEF Advance
  <2> HIDE DEF rest
  <2>5. j \in Job /\ j.at = "stage" /\ j.todo = rest
    BY <2>1, StageType
  <2> HIDE DEF j
  <2>6. job' \in [Cli -> Job] /\ job'[p] = j /\ \A q \in Cli \ {p} : job'[q] = job[q]
    BY <1>2, <2>4, <2>5
  <2>7. Purging(p)' => Purging(p)
    <3> SUFFICES ASSUME Purging(p)' PROVE Purging(p)
      OBVIOUS
    <3>1. PICK i \in DOMAIN rest : rest[i].kind = "purge"
      BY <2>5, <2>6 DEF Purging
    <3>2. i + 1 \in DOMAIN todo /\ todo[i + 1].kind = "purge"
      BY <2>1, <2>2, <2>3, <3>1
    <3> QED
      BY <1>1, <3>2 DEF Purging
  <2>8. TodoInv(p)
    BY DEF JobsInv
  <2>9. ASSUME NEW i \in DOMAIN rest
        PROVE  /\ Fits(rest[i])
               /\ rest[i].kind = "mark" => suggestions'[rest[i].arg] # None
               /\ rest[i].kind = "append" =>
                     IF i = 1 THEN rest[i].arg \in Settled' ELSE rest[i - 1] = Stage("mark", rest[i].arg)
               /\ rest[i].kind \in {"mark", "append"} => ~ Purging(p)'
    <3>1. PICK k : k = i + 1
      OBVIOUS
    <3>2. k \in DOMAIN todo /\ rest[i] = todo[k] /\ k # 1 /\ k - 1 = i
      BY <2>1, <2>2, <2>3, <2>9, <3>1
    <3>3. /\ Fits(todo[k]) /\ (todo[k].kind = "mark" => suggestions[todo[k].arg] # None)
          /\ todo[k].kind = "append" => todo[i] = Stage("mark", todo[k].arg)
          /\ todo[k].kind \in {"mark", "append"} => ~ Purging(p)
      BY <1>1, <2>8, <3>2 DEF TodoInv
    <3>4. todo[k].kind = "mark" => todo[k].arg \in Patterns /\ suggestions'[todo[k].arg] # None
      BY <3>3 DEF Fits, SuggestionsGrow
    <3>5. ASSUME todo[k].kind = "append", i = 1 PROVE todo[k].arg \in Settled'
      <4>1. Here(p) = Stage("mark", todo[k].arg)
        BY <1>2, <3>3, <3>5
      <4> QED
        BY <4>1 DEF Stage
    <3>6. ASSUME todo[k].kind = "append", i # 1 PROVE rest[i - 1] = Stage("mark", todo[k].arg)
      <4>1. i \in 1 .. Len(todo) - 1 /\ Len(todo) \in Nat
        BY <2>1, <2>2, <2>9
      <4>2. i - 1 \in 1 .. Len(todo) - 1 /\ (i - 1) + 1 = i
        BY <3>6, <4>1
      <4> QED
        BY <2>3, <3>3, <3>6, <4>2
    <3> QED
      BY <2>7, <3>2, <3>3, <3>4, <3>5, <3>6
  <2>10. TodoInv(p)'
    BY <2>5, <2>6, <2>9 DEF TodoInv
  <2> QED
    BY <2>2, <2>5, <2>6, <2>7, <2>10 DEF Moved, Writing, InPlace, Renaming, Copied
<1> QED
  BY <1>3, <1>4

(* One process moves and what it then holds is as it should be.              *)
LEMMA JobsKeep ==
    ASSUME FileTypes, JobsInv, NEW p \in Cli, job[p] # Idle, \A q \in Cli \ {p} : job'[q] = job[q],
           SuggestionsGrow, ExcusesGrow, TodoInv(p)', WriteInv(p)',
           job'[p].at = "idle" => job'[p] = Idle, job'[p].at # "idle" => job'[p].todo # <<>>,
           Purging(p)' => Purging(p)
    PROVE  JobsInv'
<1>1. ASSUME NEW q \in Cli, q # p PROVE TodoInv(q)' /\ PlaceInv(q)' /\ WriteInv(q)'
  <2>1. job'[q] = job[q] /\ PlaceInv(q)
    BY <1>1 DEF JobsInv
  <2>2. TodoInv(q)' /\ WriteInv(q)'
    BY <2>1, TodoStays, WriteStays
  <2>3. ~ Purging(q)'
    BY <1>1, <2>1 DEF PlaceInv, Purging
  <2> QED
    BY <2>1, <2>2, <2>3 DEF PlaceInv
<1>2. PlaceInv(p)'
  <2>1. Purging(p)' => \A q \in Cli \ {p} : job'[q] = Idle
    BY DEF JobsInv, PlaceInv
  <2> QED
    BY <2>1 DEF PlaceInv, Idle
<1> QED
  BY <1>1, <1>2 DEF JobsInv

LEMMA MovedKeeps ==
    ASSUME FileTypes, JobsInv, NEW p \in Cli, job[p] # Idle, Moved(p), SuggestionsGrow, ExcusesGrow
    PROVE  JobsInv'
<1>1. WriteInv(p)'
  BY DEF WriteInv, Moved
<1> QED
  BY <1>1, JobsKeep DEF Moved

LEMMA JobsStay ==
    ASSUME FileTypes, JobsInv, job' = job, SuggestionsGrow, ExcusesGrow
    PROVE  JobsInv'
<1>1. ASSUME NEW q \in Cli PROVE TodoInv(q)' /\ PlaceInv(q)' /\ WriteInv(q)'
  <2>1. job'[q] = job[q] /\ PlaceInv(q)
    BY <1>1 DEF JobsInv
  <2>2. TodoInv(q)' /\ WriteInv(q)'
    BY <2>1, TodoStays, WriteStays
  <2>3. PlaceInv(q)'
    BY <2>1 DEF PlaceInv, Purging, Idle
  <2> QED
    BY <2>2, <2>3
<1> QED
  BY <1>1 DEF JobsInv

-----------------------------------------------------------------------------
(* What a step leaves alone.                                                 *)

(* A writer of f is about to put the line back.                              *)
InFlight(f, line) ==
    \E p \in Cli : job[p].at = "fill" /\ FileOf(Here(p)) = f /\ Has(job[p].text, line)

LEMMA KeptMeans ==
    /\ AcknowledgedKept <=> \A f \in Files : excused[f] = {} => \A line \in acked[f] :
                                Has(Text(f), line) \/ InFlight(f, line)
    /\ AcknowledgedKept' <=> \A f \in Files : excused'[f] = {} => \A line \in acked'[f] :
                                Has(Text(f)', line) \/ InFlight(f, line)'
BY DEF AcknowledgedKept, InFlight, Has, Text

LEMMA FlightStays ==
    ASSUME NEW p \in Cli, \A q \in Cli \ {p} : job'[q] = job[q], NEW f, NEW line,
           InFlight(f, line), job[p].at = "fill" => FileOf(Here(p)) # f
    PROVE  InFlight(f, line)'
<1>1. PICK q \in Cli : job[q].at = "fill" /\ FileOf(Here(q)) = f /\ Has(job[q].text, line)
  BY DEF InFlight
<1>2. q # p /\ job'[q] = job[q]
  BY <1>1
<1>3. FileOf(Here(q))' = FileOf(Here(q))
  BY <1>2 DEF FileOf, Here
<1>4. job'[q].at = "fill" /\ FileOf(Here(q))' = f /\ Has(job'[q].text, line)
  BY <1>1, <1>2, <1>3
<1> QED
  BY <1>4 DEF InFlight

(* What q has to do with settings.json it had to do before.                  *)
StillAt(q) ==
    AtSettings(q)' =>
        /\ AtSettings(q) /\ job'[q].seen = job[q].seen
        /\ job'[q].at \in Renaming => job[q].at \in Renaming
        /\ job'[q].at \in Copied => job[q].at \in Copied
        /\ job'[q].at \in InPlace => job[q].at \in InPlace

LEMMA StillAtSame == ASSUME NEW q \in Cli, job'[q] = job[q] PROVE StillAt(q)
<1>1. FileOf(Here(q))' = FileOf(Here(q))
  BY DEF FileOf, Here
<1> QED
  BY <1>1 DEF StillAt, AtSettings

LEMMA StillAtMoved ==
    ASSUME NEW p \in Cli, \A q \in Cli \ {p} : job'[q] = job[q], job'[p].at \notin Writing
    PROVE  \A q \in Cli : StillAt(q)
BY StillAtSame DEF StillAt, AtSettings

(* An entry of others that was in settings.json still is, and nothing of     *)
(* another shape has come.                                                   *)
EntriesStay ==
    /\ \A e \in Entries \ {Odd} :
          ~ Removable(e) /\ Has(Text("settings"), e) => Has(Text("settings")', e)
    /\ Has(Text("settings")', Odd) => Has(Text("settings"), Odd)

LEMMA BackupKeeps ==
    ASSUME BackupInv, backup' = backup, ExcusesGrow, \A q \in Cli : StillAt(q),
           files["settings"] # Absent => files'["settings"] # Absent,
           excused'["settings"] = {} => EntriesStay
    PROVE  BackupInv'
<1>1. ASSUME NEW q \in Cli, AtSettings(q)', job'[q].at \in Renaming PROVE files'["settings"] # Absent
  BY <1>1 DEF BackupInv, StillAt
<1>2. ASSUME excused'["settings"] = {}
      PROVE  /\ \A e \in Entries : ~ Removable(e) =>
                   \A q \in Cli : AtSettings(q)' /\ Has(TextOf(job'[q].seen), e) =>
                         /\ e # Odd => Has(Text("settings")', e)
                         /\ job'[q].at \in Copied /\ Has(Text("settings")', e) => Saved(e)'
             /\ \A q \in Cli : AtSettings(q)' /\ job'[q].at \in InPlace => job'[q].seen = Absent
  <2>1. excused["settings"] = {} /\ EntriesStay
    BY <1>2 DEF ExcusesGrow, Files
  <2>2. ASSUME NEW e PROVE Saved(e)' <=> Saved(e)
    BY DEF Saved
  <2>3. ASSUME NEW e \in Entries, ~ Removable(e)
        PROVE  \A q \in Cli : AtSettings(q) /\ Has(TextOf(job[q].seen), e) =>
                     /\ e # Odd => Has(Text("settings"), e)
                     /\ job[q].at \in Copied /\ Has(Text("settings"), e) => Saved(e)
    BY <2>1, <2>3 DEF BackupInv
  <2>4. ASSUME NEW e \in Entries, ~ Removable(e), NEW q \in Cli, AtSettings(q)',
               Has(TextOf(job'[q].seen), e)
        PROVE  /\ e # Odd => Has(Text("settings")', e)
               /\ job'[q].at \in Copied /\ Has(Text("settings")', e) => Saved(e)'
    <3>1. /\ e # Odd /\ Has(Text("settings"), e) => Has(Text("settings")', e)
          /\ e = Odd /\ Has(Text("settings")', e) => Has(Text("settings"), e)
      BY <2>1, <2>4 DEF EntriesStay
    <3>2. /\ AtSettings(q) /\ Has(TextOf(job[q].seen), e)
          /\ job'[q].at \in Copied => job[q].at \in Copied
      BY <2>4 DEF StillAt
    <3>3. /\ e # Odd => Has(Text("settings"), e)
          /\ job[q].at \in Copied /\ Has(Text("settings"), e) => Saved(e)
      BY <2>3, <2>4, <3>2
    <3> QED
      BY <2>2, <3>1, <3>2, <3>3
  <2>5. \A q \in Cli : AtSettings(q)' /\ job'[q].at \in InPlace => job'[q].seen = Absent
    BY <2>1 DEF BackupInv, StillAt
  <2> QED
    BY <2>4, <2>5
<1> QED
  BY <1>1, <1>2 DEF BackupInv, TextOf

(* A step that writes no file a user sees.                                   *)
Quiet(q) ==
    \/ job'[q] = job[q]
    \/ job'[q].at \notin Writing /\ (job[q].at = "fill" => excused'[FileOf(Here(q))] # {})
    \/ job[q].at \in Copied /\ \E at \in Copied : job'[q] = [job[q] EXCEPT !.at = at]

LEMMA TextsKeep ==
    ASSUME FileTypes, TextsInv, UNCHANGED <<files, acked>>,
           SuggestionsGrow, ExcusesGrow,
           \A q \in Cli : \/ job'[q] = job[q]
                          \/ job[q].at = "fill" => excused'[FileOf(Here(q))] # {},
           \A f \in Files : Sound(f, TextOf(tmp'[f]), Settled)
    PROVE  TextsInv'
<1>1. ASSUME NEW f PROVE Text(f)' = Text(f)
  BY DEF Text
<1>2. ASSUME NEW f \in Files
      PROVE  Sound(f, Text(f)', Settled') /\ Sound(f, TextOf(tmp'[f]), Settled')
  <2>1. Sound(f, Text(f), Settled)
    BY DEF TextsInv
  <2>2. PICK text : text = Text(f)
    OBVIOUS
  <2>3. Sound(f, text, Settled')
    BY <2>1, <2>2, SettledGrows, SoundGrows
  <2>4. Sound(f, TextOf(tmp'[f]), Settled')
    BY SettledGrows, SoundGrows
  <2> QED
    BY <1>1, <2>2, <2>3, <2>4
<1>3. ASSUME NEW f \in Files, excused'[f] = {}, NEW line \in acked'[f]
      PROVE  Has(Text(f)', line) \/ InFlight(f, line)'
  <2>1. excused[f] = {} /\ line \in acked[f]
    BY <1>3 DEF ExcusesGrow
  <2>2. Has(Text(f), line) \/ InFlight(f, line)
    BY <2>1, KeptMeans DEF TextsInv
  <2>3. ASSUME InFlight(f, line) PROVE InFlight(f, line)'
    <3>1. PICK q \in Cli : job[q].at = "fill" /\ FileOf(Here(q)) = f /\ Has(job[q].text, line)
      BY <2>3 DEF InFlight
    <3>2. job'[q] = job[q]
      BY <1>3, <3>1
    <3>3. FileOf(Here(q))' = FileOf(Here(q))
      BY <3>2 DEF FileOf, Here
    <3> QED
      BY <3>1, <3>2, <3>3 DEF InFlight
  <2> QED
    BY <1>1, <2>2, <2>3
<1> QED
  <2>1. AcknowledgedKept'
    BY <1>3, KeptMeans
  <2>2. \A e \in acked'["settings"] : ~ Removable(e) /\ e # Odd
    BY DEF TextsInv
  <2> QED
    BY <1>2, <2>1, <2>2 DEF TextsInv, TextOf

LEMMA QuietKeeps ==
    ASSUME FileTypes, TextsInv, BackupInv, UNCHANGED <<files, backup, acked>>,
           SuggestionsGrow, ExcusesGrow, \A q \in Cli : Quiet(q),
           \A f \in Files : Sound(f, TextOf(tmp'[f]), Settled)
    PROVE  TextsInv' /\ BackupInv'
<1>1. ASSUME NEW f PROVE Text(f)' = Text(f)
  BY DEF Text
<1>4. TextsInv'
  <2>1. \A q \in Cli : \/ job'[q] = job[q]
                       \/ job[q].at = "fill" => excused'[FileOf(Here(q))] # {}
    BY DEF Quiet, Copied
  <2> QED
    BY <2>1, TextsKeep
<1>5. ASSUME NEW q \in Cli PROVE StillAt(q)
  <2>1. CASE job'[q] = job[q]
    BY <2>1, StillAtSame
  <2>2. CASE job'[q].at \notin Writing
    BY <2>2 DEF StillAt, AtSettings
  <2>3. CASE job[q].at \in Copied /\ \E at \in Copied : job'[q] = [job[q] EXCEPT !.at = at]
    <3>1. job[q] \in Job
      BY JobTypes
    <3>2. job'[q].at \in Copied /\ job'[q].todo = job[q].todo /\ job'[q].seen = job[q].seen
      BY <2>3, <3>1 DEF Job
    <3>3. FileOf(Here(q))' = FileOf(Here(q))
      BY <3>2 DEF FileOf, Here
    <3> QED
      BY <2>3, <3>2, <3>3 DEF StillAt, AtSettings, Writing, InPlace, Renaming, Copied
  <2> QED
    BY <2>1, <2>2, <2>3 DEF Quiet
<1>6. EntriesStay
  BY <1>1 DEF EntriesStay
<1> QED
  BY <1>4, <1>5, <1>6, BackupKeeps

LEMMA ExcuseMeans ==
    ASSUME FileTypes, NEW f \in Files, NEW why \in {"torn", "raced", "misread"}, NEW cond \in BOOLEAN,
           Excuse(f, why, cond)
    PROVE  /\ excused' \in [Files -> SUBSET {"torn", "raced", "misread"}] /\ ExcusesGrow
           /\ cond => excused'[f] # {}
<1>1. excused \in [Files -> SUBSET {"torn", "raced", "misread"}]
  BY DEF FileTypes
<1>2. CASE cond
  <2>1. excused' = [excused EXCEPT ![f] = excused[f] \cup {why}]
    BY <1>2 DEF Excuse
  <2>2. excused[f] \cup {why} \in SUBSET {"torn", "raced", "misread"}
    BY <1>1
  <2> QED
    BY <1>1, <2>1, <2>2 DEF ExcusesGrow
<1>3. CASE ~ cond
  BY <1>1, <1>3 DEF Excuse, ExcusesGrow
<1> QED
  BY <1>2, <1>3

LEMMA ReportedTypes ==
    ASSUME NEW s \in Stages, Fits(s), s.kind = "append" => s.arg \in Settled,
           suggestions \in [Patterns -> Suggestion \cup {None}]
    PROVE  /\ FileOf(s) \in Files => Reported(s) \subseteq LinesOf(FileOf(s))
           /\ FileOf(s) \notin {"rules", "ingest"} => Reported(s) = {}
<1>1. CASE s.kind = "add"
  BY <1>1 DEF Fits, Reported, FileOf, LinesOf
<1>2. CASE s.kind = "append"
  <2>1. s.arg \in Patterns /\ suggestions[s.arg] \in Suggestion
    BY <1>2 DEF Settled
  <2>2. suggestions[s.arg].verb \in {"allow", "deny"}
    BY <2>1 DEF Suggestion
  <2>3. Reported(s) = {RuleFor(s.arg, suggestions[s.arg].verb)} /\ FileOf(s) = "rules"
    BY <1>2 DEF Reported, LearnedRule, FileOf
  <2>4. RuleFor(s.arg, suggestions[s.arg].verb) \in LinesOf("rules")
    BY <2>1, <2>2 DEF LinesOf
  <2> QED
    BY <2>3, <2>4
<1>3. CASE s.kind = "exclude"
  BY <1>3 DEF Fits, Reported, FileOf, LinesOf
<1>4. CASE s.kind \notin {"add", "append", "exclude"}
  BY <1>4 DEF Reported
<1> QED
  BY <1>1, <1>2, <1>3, <1>4

LEMMA AcknowledgeMeans ==
    ASSUME FileTypes, NEW s \in Stages, Fits(s), FileOf(s) \in Files, s.kind = "append" => s.arg \in Settled,
           suggestions \in [Patterns -> Suggestion \cup {None}], NEW text, Acknowledge(s, text)
    PROVE  /\ acked' \in [Files -> SUBSET AllLines]
           /\ \A f \in Files : acked'[f] = acked[f] \cup
                                 IF f = FileOf(s) THEN {line \in Reported(s) : Has(text, line)} ELSE {}
           /\ \A f \in Files : acked'[f] \subseteq LinesOf(f)
           /\ acked'["settings"] = acked["settings"]
<1>1. acked \in [Files -> SUBSET AllLines] /\ \A f \in Files : acked[f] \subseteq LinesOf(f)
  BY DEF FileTypes
<1>2. /\ Reported(s) \subseteq LinesOf(FileOf(s)) /\ Reported(s) \subseteq AllLines
      /\ FileOf(s) \notin {"rules", "ingest"} => Reported(s) = {}
  BY ReportedTypes, LinesAll
<1> DEFINE new == {line \in Reported(s) : Has(text, line)}
<1>3. acked' = [acked EXCEPT ![FileOf(s)] = acked[FileOf(s)] \cup new]
  BY DEF Acknowledge
<1>4. new \subseteq Reported(s)
  OBVIOUS
<1> HIDE DEF new
<1>5. acked[FileOf(s)] \cup new \in SUBSET AllLines
  BY <1>1, <1>2, <1>4
<1>6. \A f \in Files : acked'[f] = acked[f] \cup IF f = FileOf(s) THEN new ELSE {}
  BY <1>1, <1>3
<1>7. acked' \in [Files -> SUBSET AllLines]
  BY <1>1, <1>3, <1>5
<1>8. \A f \in Files : acked'[f] \subseteq LinesOf(f)
  BY <1>1, <1>2, <1>4, <1>6
<1>9. acked'["settings"] = acked["settings"]
  BY <1>2, <1>4, <1>6 DEF Files
<1> QED
  BY <1>6, <1>7, <1>8, <1>9 DEF new

LEMMA SameLearning ==
    ASSUME LearningInv, UNCHANGED learningVars
    PROVE  LearningInv' /\ SuggestionsGrow
BY LearningTypes, AnswerKeeps DEF learningVars

(* A step of p that only moves it on.                                        *)
LEMMA MovedStep ==
    ASSUME CliInv, NEW p \in Cli, job[p] # Idle, Moved(p), LearningInv', SuggestionsGrow,
           UNCHANGED <<files, tmp, backup, acked>>, service' \in BOOLEAN,
           excused' \in [Files -> SUBSET {"torn", "raced", "misread"}], ExcusesGrow,
           job[p].at = "fill" => excused'[FileOf(Here(p))] # {}
    PROVE  CliInv'
<1>1. FileTypes /\ JobsInv /\ TextsInv /\ BackupInv
  BY DEF CliInv
<1>2. FileTypes'
  BY <1>1 DEF FileTypes, Moved
<1>3. JobsInv'
  BY <1>1, MovedKeeps
<1>4. \A q \in Cli : Quiet(q)
  BY DEF Quiet, Moved
<1>5. \A f \in Files : Sound(f, TextOf(tmp'[f]), Settled)
  BY <1>1 DEF TextsInv
<1>6. TextsInv' /\ BackupInv'
  BY <1>1, <1>4, <1>5, QuietKeeps
<1> QED
  BY <1>2, <1>3, <1>6 DEF CliInv

LEMMA NoneExcused == ASSUME FileTypes, excused' = excused
                     PROVE  ExcusesGrow /\ excused' \in [Files -> SUBSET {"torn", "raced", "misread"}]
BY DEF FileTypes, ExcusesGrow

LEMMA StopStep ==
    ASSUME CliInv, NEW p \in Cli, job[p] # Idle, job' = [job EXCEPT ![p] = Idle], job[p].at # "fill",
           UNCHANGED <<learningVars, fileVars, acked, excused>>
    PROVE  CliInv'
<1>1. FileTypes /\ LearningInv
  BY DEF CliInv
<1>2. Moved(p)
  BY <1>1, StopMoves
<1>3. LearningInv' /\ SuggestionsGrow
  BY <1>1, SameLearning
<1>4. service' \in BOOLEAN /\ UNCHANGED <<files, tmp, backup, acked>>
  BY <1>1 DEF fileVars, FileTypes
<1> QED
  BY <1>1, <1>2, <1>3, <1>4, NoneExcused, MovedStep

LEMMA KillStep == ASSUME CliInv, NEW p \in Cli, Kill(p) PROVE CliInv'
<1>1. FileTypes /\ LearningInv /\ JobsInv
  BY DEF CliInv
<1>2. /\ job[p] # Idle /\ job' = [job EXCEPT ![p] = Idle] /\ UNCHANGED <<learningVars, fileVars, acked>>
      /\ Excuse(FileOf(Here(p)), "torn", job[p].at = "fill")
  BY DEF Kill
<1>3. CASE job[p].at = "fill"
  <2>1. FileOf(Here(p)) \in Files
    BY <1>1, <1>3 DEF JobsInv, WriteInv, Writing, InPlace
  <2>2. /\ excused' \in [Files -> SUBSET {"torn", "raced", "misread"}] /\ ExcusesGrow
        /\ excused'[FileOf(Here(p))] # {}
    BY <1>1, <1>2, <1>3, <2>1, ExcuseMeans
  <2>3. Moved(p)
    BY <1>1, <1>2, StopMoves
  <2>4. LearningInv' /\ SuggestionsGrow
    BY <1>1, <1>2, SameLearning
  <2>5. service' \in BOOLEAN /\ UNCHANGED <<files, tmp, backup, acked>>
    BY <1>1, <1>2 DEF fileVars, FileTypes
  <2> QED
    BY <1>2, <2>2, <2>3, <2>4, <2>5, MovedStep
<1>4. CASE job[p].at # "fill"
  <2>1. excused' = excused
    BY <1>2, <1>4 DEF Excuse
  <2> QED
    BY <1>2, <1>4, <2>1, StopStep
<1> QED
  BY <1>3, <1>4

LEMMA ReadFailsStep == ASSUME CliInv, NEW p \in Cli, ReadFails(p) PROVE CliInv'
<1>1. /\ job[p].at = "stage" /\ job' = [job EXCEPT ![p] = Idle]
      /\ UNCHANGED <<learningVars, fileVars, acked, excused>>
  BY DEF ReadFails
<1>2. job[p] # Idle /\ job[p].at # "fill"
  BY <1>1 DEF Idle
<1> QED
  BY <1>1, <1>2, StopStep

LEMMA RenameFailsStep == ASSUME CliInv, NEW p \in Cli, RenameFails(p) PROVE CliInv'
<1>1. /\ job[p].at = "rename" /\ job' = [job EXCEPT ![p] = Idle]
      /\ UNCHANGED <<learningVars, fileVars, acked, excused>>
  BY DEF RenameFails
<1>2. job[p] # Idle /\ job[p].at # "fill"
  BY <1>1 DEF Idle
<1> QED
  BY <1>1, <1>2, StopStep

LEMMA ServiceStep ==
    ASSUME CliInv, NEW p \in Cli, InstallService(p) \/ RemoveService(p)
    PROVE  CliInv'
<1>1. FileTypes /\ LearningInv /\ JobsInv
  BY DEF CliInv
<1>2. /\ job[p].at = "stage" /\ Here(p).kind \in {"service", "unservice"} /\ service' \in BOOLEAN
      /\ Advance(p) /\ UNCHANGED <<learningVars, files, tmp, backup, acked, excused>>
  BY DEF InstallService, RemoveService
<1>3. job[p] # Idle /\ job[p].at # "idle"
  BY <1>2 DEF Idle
<1>4. LearningInv' /\ SuggestionsGrow
  BY <1>1, <1>2, SameLearning
<1>5. Moved(p)
  BY <1>1, <1>2, <1>3, <1>4, AdvanceMoves
<1> QED
  BY <1>1, <1>2, <1>3, <1>4, <1>5, NoneExcused, MovedStep

LEMMA MarkStep == ASSUME CliInv, NEW p \in Cli, Mark(p) PROVE CliInv'
<1>1. FileTypes /\ LearningInv /\ JobsInv
  BY DEF CliInv
<1>2. PICK q : q = Here(p).arg
  OBVIOUS
<1>3. /\ job[p].at = "stage" /\ Here(p).kind = "mark" /\ suggestions[q] # None
      /\ suggestions' = [suggestions EXCEPT ![q].state = "accepted"]
      /\ Advance(p) /\ UNCHANGED <<observed, recording, fileVars, acked, excused>>
  BY <1>2 DEF Mark, MarkAccepted
<1>4. job[p] # Idle /\ job[p].at # "idle"
  BY <1>3 DEF Idle
<1>5. q \in Patterns
  BY <1>1, <1>2, <1>3, <1>4, HereIs DEF Fits
<1>6. suggestions \in [Patterns -> Suggestion \cup {None}]
  BY <1>1, LearningTypes
<1>7. suggestions[q] \in Suggestion
  BY <1>3, <1>5, <1>6
<1> DEFINE row == [suggestions[q] EXCEPT !.state = "accepted"]
<1>8. row \in Suggestion /\ row.state = "accepted" /\ row # None
  BY <1>7, MarksAssumption DEF Suggestion
<1>9. suggestions' = [suggestions EXCEPT ![q] = row]
  BY <1>3
<1>10. /\ suggestions' \in [Patterns -> Suggestion \cup {None}]
       /\ \A r \in Patterns : suggestions'[r] = IF r = q THEN row ELSE suggestions[r]
  BY <1>5, <1>6, <1>8, <1>9
<1>11. LearningInv' /\ SuggestionsGrow
  BY <1>1, <1>3, <1>10, LearningTypes, AnswerKeeps
<1>12. q \in Settled'
  BY <1>5, <1>8, <1>10 DEF Settled
<1>13. Moved(p)
  BY <1>1, <1>2, <1>3, <1>4, <1>11, <1>12, AdvanceMoves
<1>14. service' \in BOOLEAN /\ UNCHANGED <<files, tmp, backup, acked>>
  BY <1>1, <1>3 DEF fileVars, FileTypes
<1> QED
  BY <1>1, <1>3, <1>4, <1>11, <1>13, <1>14, NoneExcused, MovedStep

LEMMA LearnStep == ASSUME CliInv, Learn PROVE CliInv'
<1>1. FileTypes /\ LearningInv /\ JobsInv /\ TextsInv /\ BackupInv
  BY DEF CliInv
<1>2. (Record \/ \E q \in Patterns : Reject(q)) /\ UNCHANGED <<fileVars, job, acked, excused>>
  BY DEF Learn
<1>3. LearningInv' /\ SuggestionsGrow
  BY <1>1, <1>2, LearnKeeps
<1>4. UNCHANGED <<files, tmp, backup, service, job, acked, excused>>
  BY <1>2 DEF fileVars
<1>5. FileTypes'
  BY <1>1, <1>4 DEF FileTypes
<1>6. ExcusesGrow
  BY <1>1, <1>4, NoneExcused
<1>7. JobsInv'
  BY <1>1, <1>3, <1>4, <1>6, JobsStay
<1>8. \A q \in Cli : Quiet(q)
  BY <1>4 DEF Quiet
<1>9. TextsInv' /\ BackupInv'
  <2>1. \A f \in Files : Sound(f, TextOf(tmp'[f]), Settled)
    BY <1>1, <1>4 DEF TextsInv
  <2> QED
    BY <1>1, <1>3, <1>4, <1>6, <1>8, <2>1, QuietKeeps
<1> QED
  BY <1>3, <1>5, <1>7, <1>9 DEF CliInv

LEMMA StagesMean ==
    ASSUME NEW c \in Commands, c.cmd = "accept" => suggestions[c.arg] # None, NEW todo, todo = StagesOf(c)
    PROVE  /\ todo \in Seq(Stages) /\ todo # <<>>
           /\ \A i \in DOMAIN todo :
                 /\ Fits(todo[i]) /\ (todo[i].kind = "mark" => suggestions[todo[i].arg] # None)
                 /\ todo[i].kind = "append" => i # 1 /\ todo[i - 1] = Stage("mark", todo[i].arg)
                 /\ todo[i].kind \in {"mark", "append"} => c.cmd = "accept"
                 /\ todo[i].kind = "purge" => c.cmd = "purge"
<1>1. /\ c.cmd \in {"add", "edit", "accept", "exclude", "include", "install", "setup",
                     "uninstall", "purge"}
      /\ c.arg \in Args(c.cmd)
  BY CommandsAssumption
<1>2. \A k \in Kinds, a \in UserRules \cup Patterns \cup Targets \cup {None} :
         Stage(k, a) \in Stages /\ Stage(k, a).kind = k /\ Stage(k, a).arg = a
  BY DEF Stage, Stages
<1>3. ASSUME NEW k \in Kinds, NEW a \in UserRules \cup Patterns \cup Targets \cup {None},
             todo = <<Stage(k, a)>>, k \notin {"mark", "append"}, k = "purge" => c.cmd = "purge",
             Fits(Stage(k, a))
      PROVE  /\ todo \in Seq(Stages) /\ todo # <<>>
             /\ \A i \in DOMAIN todo :
                   /\ Fits(todo[i]) /\ todo[i].kind \notin {"mark", "append"}
                   /\ todo[i].kind = "purge" => c.cmd = "purge"
  <2>1. Stage(k, a) \in Stages /\ Stage(k, a).kind = k
    BY <1>2, <1>3
  <2>2. todo \in Seq(Stages) /\ todo # <<>> /\ DOMAIN todo = {1} /\ todo[1] = Stage(k, a)
    BY <1>3, <2>1
  <2> QED
    BY <1>3, <2>1, <2>2
<1>4. ASSUME NEW k \in {"seed_rules", "seed_ingest", "hook", "service", "unservice", "unhook", "purge"}
      PROVE  Stage(k, None) \in Stages /\ Fits(Stage(k, None)) /\ Stage(k, None).kind = k
  BY <1>2 DEF Kinds, Fits
<1>5. CASE c.cmd \in {"add", "exclude", "include"}
  <2>1. PICK k \in {"add", "exclude", "include"} : k = c.cmd
    BY <1>5
  <2>2. /\ c.arg \in UserRules \cup Targets
        /\ k = "add" => c.arg \in UserRules
        /\ k # "add" => c.arg \in Targets
    BY <1>1, <2>1 DEF Args
  <2>3. todo = <<Stage(k, c.arg)>>
    BY <1>5, <2>1 DEF StagesOf
  <2>4. k \in Kinds /\ Fits(Stage(k, c.arg))
    BY <2>2 DEF Kinds, Fits, Stage
  <2> QED
    BY <1>3, <2>2, <2>3, <2>4
<1>6. CASE c.cmd \in {"edit", "install"}
  <2>1. PICK k \in {"seed_rules", "hook"} : todo = <<Stage(k, None)>>
    BY <1>6 DEF StagesOf
  <2>2. k \in Kinds
    BY DEF Kinds
  <2> QED
    BY <1>3, <1>4, <2>1, <2>2
<1>7. CASE c.cmd = "accept"
  <2>1. c.arg \in Patterns /\ todo = <<Stage("mark", c.arg), Stage("append", c.arg)>>
    BY <1>1, <1>7 DEF Args, StagesOf, AcceptStages
  <2>2. /\ Stage("mark", c.arg) \in Stages /\ Stage("append", c.arg) \in Stages
        /\ Stage("mark", c.arg).kind = "mark" /\ Stage("mark", c.arg).arg = c.arg
        /\ Stage("append", c.arg).kind = "append" /\ Stage("append", c.arg).arg = c.arg
    BY <1>2, <2>1 DEF Kinds
  <2>3. Fits(Stage("mark", c.arg)) /\ Fits(Stage("append", c.arg))
    BY <2>1, <2>2 DEF Fits
  <2>4. /\ todo \in Seq(Stages) /\ todo # <<>> /\ DOMAIN todo = {1, 2}
        /\ todo[1] = Stage("mark", c.arg) /\ todo[2] = Stage("append", c.arg)
    BY <2>1, <2>2
  <2> HIDE <2>1
  <2>5. ASSUME NEW i \in DOMAIN todo
        PROVE  /\ Fits(todo[i]) /\ (todo[i].kind = "mark" => suggestions[todo[i].arg] # None)
               /\ todo[i].kind = "append" => i # 1 /\ todo[i - 1] = Stage("mark", todo[i].arg)
               /\ todo[i].kind # "purge"
    <3>1. CASE i = 1
      BY <1>7, <2>2, <2>3, <2>4, <3>1
    <3>2. CASE i = 2
      BY <1>7, <2>2, <2>3, <2>4, <3>2
    <3> QED
      BY <2>4, <2>5, <3>1, <3>2
  <2> QED
    BY <1>7, <2>4, <2>5
<1>8. CASE c.cmd = "uninstall"
  <2>1. todo = <<Stage("unservice", None), Stage("unhook", None)>>
    BY <1>8 DEF StagesOf
  <2>2. /\ todo \in Seq(Stages) /\ todo # <<>> /\ DOMAIN todo = {1, 2}
        /\ todo[1] = Stage("unservice", None) /\ todo[2] = Stage("unhook", None)
    BY <1>4, <2>1
  <2> QED
    BY <1>4, <2>2
<1>9. CASE c.cmd = "purge"
  <2>1. todo = <<Stage("unservice", None), Stage("unhook", None), Stage("purge", None)>>
    BY <1>9 DEF StagesOf
  <2>2. /\ todo \in Seq(Stages) /\ todo # <<>> /\ DOMAIN todo = {1, 2, 3}
        /\ todo[1] = Stage("unservice", None) /\ todo[2] = Stage("unhook", None)
        /\ todo[3] = Stage("purge", None)
    BY <1>4, <2>1
  <2> QED
    BY <1>4, <1>9, <2>2
<1>10. CASE c.cmd = "setup"
  <2>1. todo = <<Stage("seed_rules", None), Stage("seed_ingest", None), Stage("hook", None),
                 Stage("service", None)>>
    BY <1>10 DEF StagesOf
  <2>2. /\ todo \in Seq(Stages) /\ todo # <<>> /\ DOMAIN todo = {1, 2, 3, 4}
        /\ todo[1] = Stage("seed_rules", None) /\ todo[2] = Stage("seed_ingest", None)
        /\ todo[3] = Stage("hook", None) /\ todo[4] = Stage("service", None)
    BY <1>4, <2>1
  <2> QED
    BY <1>4, <2>2
<1> QED
  BY <1>1, <1>5, <1>6, <1>7, <1>8, <1>9, <1>10

LEMMA IssueStep == ASSUME CliInv, NEW p \in Cli, NEW c \in Commands, Issue(p, c) PROVE CliInv'
<1>1. FileTypes /\ LearningInv /\ JobsInv /\ TextsInv /\ BackupInv
  BY DEF CliInv
<1>2. PICK todo : todo = StagesOf(c)
  OBVIOUS
<1> DEFINE j == [Idle EXCEPT !.at = "stage", !.todo = todo]
<1>3. /\ job[p] = Idle /\ (c.cmd = "accept" => suggestions[c.arg] # None)
      /\ IF c.cmd = "purge" THEN \A q \in Cli : job[q] = Idle ELSE \A q \in Cli : ~ Purging(q)
      /\ job' = [job EXCEPT ![p] = j]
      /\ UNCHANGED <<learningVars, files, tmp, backup, service, acked, excused>>
  BY <1>2 DEF Issue, fileVars
<1>4. /\ todo \in Seq(Stages) /\ todo # <<>>
      /\ \A i \in DOMAIN todo :
            /\ Fits(todo[i]) /\ (todo[i].kind = "mark" => suggestions[todo[i].arg] # None)
            /\ todo[i].kind = "append" => i # 1 /\ todo[i - 1] = Stage("mark", todo[i].arg)
            /\ todo[i].kind \in {"mark", "append"} => c.cmd = "accept"
            /\ todo[i].kind = "purge" => c.cmd = "purge"
  BY <1>2, <1>3, StagesMean
<1>5. j \in Job /\ j.at = "stage" /\ j.todo = todo
  BY <1>4, StageType
<1> HIDE DEF j
<1>6. job \in [Cli -> Job]
  BY <1>1 DEF FileTypes
<1>7. job' \in [Cli -> Job] /\ job'[p] = j /\ \A q \in Cli \ {p} : job'[q] = job[q]
  BY <1>3, <1>5, <1>6
<1>8. LearningInv' /\ SuggestionsGrow
  BY <1>1, <1>3, SameLearning
<1>9. ExcusesGrow
  BY <1>1, <1>3, NoneExcused
<1>10. FileTypes'
  BY <1>1, <1>3, <1>7 DEF FileTypes
<1>11. Purging(p)' => c.cmd = "purge"
  BY <1>4, <1>5, <1>7 DEF Purging
<1>12. TodoInv(p)'
  <2>1. suggestions' = suggestions
    BY <1>3 DEF learningVars
  <2>2. \A i \in DOMAIN todo : todo[i].kind \in {"mark", "append"} => ~ Purging(p)'
    BY <1>4, <1>11
  <2> QED
    BY <1>4, <1>5, <1>7, <2>1, <2>2 DEF TodoInv
<1>13. WriteInv(p)' /\ PlaceInv(p)'
  <2>1. job'[p].at = "stage" /\ job'[p].todo # <<>>
    BY <1>4, <1>5, <1>7
  <2>2. WriteInv(p)'
    BY <2>1 DEF WriteInv, Writing, InPlace, Renaming, Copied
  <2>3. PlaceInv(p)'
    BY <1>3, <1>7, <1>11, <2>1 DEF PlaceInv, Idle
  <2> QED
    BY <2>2, <2>3
<1>14. ASSUME NEW q \in Cli, q # p PROVE TodoInv(q)' /\ WriteInv(q)' /\ PlaceInv(q)'
  <2>1. job'[q] = job[q] /\ PlaceInv(q)
    BY <1>1, <1>7, <1>14 DEF JobsInv
  <2>2. ~ Purging(q)
    <3>1. CASE job[q] = Idle
      <4>1. DOMAIN job[q].todo = {}
        BY <3>1, IdleType
      <4> QED
        BY <4>1 DEF Purging
    <3>2. CASE job[q] # Idle
      BY <1>3, <3>2
    <3> QED
      BY <3>1, <3>2
  <2>3. PlaceInv(q)'
    BY <2>1, <2>2 DEF PlaceInv, Purging, Idle
  <2> QED
    BY <1>1, <1>8, <1>9, <2>1, <2>3, TodoStays, WriteStays
<1>15. JobsInv'
  BY <1>12, <1>13, <1>14 DEF JobsInv
<1>16. \A q \in Cli : Quiet(q)
  <2>1. job'[p].at \notin Writing /\ job[p].at # "fill"
    BY <1>3, <1>5, <1>7, IdleType DEF Writing, InPlace, Renaming, Copied
  <2> QED
    BY <1>7, <2>1 DEF Quiet
<1>17. TextsInv' /\ BackupInv'
  <2>1. \A f \in Files : Sound(f, TextOf(tmp'[f]), Settled)
    BY <1>1, <1>3 DEF TextsInv
  <2> QED
    BY <1>1, <1>3, <1>8, <1>9, <1>16, <2>1, QuietKeeps
<1> QED
  BY <1>8, <1>10, <1>15, <1>17 DEF CliInv

-----------------------------------------------------------------------------
(* The plan of an edit.                                                      *)

LEMMA RewriteMeans ==
    ASSUME FileTypes, NEW p \in Cli, NEW at \in Writing, NEW seen \in Seq(AllLines) \cup {Absent, Blank},
           NEW text \in Seq(AllLines),
           job' = [job EXCEPT ![p].at = at, ![p].seen = seen, ![p].text = text]
    PROVE  /\ job' \in [Cli -> Job] /\ \A q \in Cli \ {p} : job'[q] = job[q]
           /\ job'[p].at = at /\ job'[p].seen = seen /\ job'[p].text = text
           /\ job'[p].todo = job[p].todo
<1>1. job \in [Cli -> Job] /\ job[p] \in Job
  BY DEF FileTypes
<1> DEFINE a == [job EXCEPT ![p].at = at]
           b == [a EXCEPT ![p].seen = seen]
<1>2. a \in [Cli -> Job] /\ a[p] = [job[p] EXCEPT !.at = at] /\ \A q \in Cli \ {p} : a[q] = job[q]
  <2>1. [job[p] EXCEPT !.at = at] \in Job
    BY <1>1 DEF Job
  <2> QED
    BY <1>1, <2>1
<1>3. a[p].at = at /\ a[p].todo = job[p].todo
  BY <1>1, <1>2 DEF Job
<1>4. job' = [b EXCEPT ![p].text = text]
  OBVIOUS
<1> HIDE DEF a
<1>5. b \in [Cli -> Job] /\ b[p] = [a[p] EXCEPT !.seen = seen] /\ \A q \in Cli \ {p} : b[q] = a[q]
  <2>1. [a[p] EXCEPT !.seen = seen] \in Job
    <3>1. PICK j \in Job : j = a[p]
      BY <1>2
    <3>2. [j EXCEPT !.seen = seen] \in Job
      BY DEF Job
    <3> QED
      BY <3>1, <3>2
  <2> QED
    BY <1>2, <2>1
<1>6. b[p].at = at /\ b[p].todo = job[p].todo /\ b[p].seen = seen
  BY <1>2, <1>3, <1>5 DEF Job
<1> HIDE DEF b
<1>7. /\ job' \in [Cli -> Job] /\ job'[p] = [b[p] EXCEPT !.text = text]
      /\ \A q \in Cli \ {p} : job'[q] = b[q]
  <2>1. [b[p] EXCEPT !.text = text] \in Job
    <3>1. PICK j \in Job : j = b[p]
      BY <1>5
    <3>2. [j EXCEPT !.text = text] \in Job
      BY DEF Job
    <3> QED
      BY <3>1, <3>2
  <2>2. ASSUME NEW g \in [Cli -> Job], NEW h, h = [g EXCEPT ![p].text = text],
               [g[p] EXCEPT !.text = text] \in Job
        PROVE  /\ h \in [Cli -> Job] /\ h[p] = [g[p] EXCEPT !.text = text]
               /\ \A q \in Cli \ {p} : h[q] = g[q]
    BY <2>2
  <2> QED
    BY <1>4, <1>5, <2>1, <2>2
<1>8. job'[p].at = at /\ job'[p].todo = job[p].todo /\ job'[p].seen = seen /\ job'[p].text = text
  BY <1>5, <1>6, <1>7 DEF Job
<1> QED
  BY <1>2, <1>5, <1>7, <1>8

(* A process reads settings.json.                                            *)
LEMMA BackupPlans ==
    ASSUME BackupInv, UNCHANGED <<files, backup>>, ExcusesGrow, NEW p \in Cli,
           \A q \in Cli \ {p} : job'[q] = job[q],
           AtSettings(p)' => /\ job'[p].seen = files["settings"]
                             /\ \/ job'[p].at = "copy" /\ files["settings"] # Absent
                                \/ job'[p].at = "truncate" /\ files["settings"] = Absent
    PROVE  BackupInv'
<1>1. Text("settings")' = Text("settings") /\ TextOf(files["settings"]) = Text("settings")
  BY DEF Text, TextOf
<1>2. \A q \in Cli \ {p} : StillAt(q)
  BY StillAtSame
<1>3. ASSUME NEW q \in Cli, AtSettings(q)', job'[q].at \in Renaming PROVE files'["settings"] # Absent
  <2>1. CASE q = p
    BY <1>3, <2>1 DEF Renaming, Copied
  <2>2. CASE q # p
    BY <1>2, <1>3, <2>2 DEF BackupInv, StillAt
  <2> QED
    BY <2>1, <2>2
<1>4. ASSUME excused'["settings"] = {}
      PROVE  /\ \A e \in Entries : ~ Removable(e) =>
                   \A q \in Cli : AtSettings(q)' /\ Has(TextOf(job'[q].seen), e) =>
                         /\ e # Odd => Has(Text("settings")', e)
                         /\ job'[q].at \in Copied /\ Has(Text("settings")', e) => Saved(e)'
             /\ \A q \in Cli : AtSettings(q)' /\ job'[q].at \in InPlace => job'[q].seen = Absent
  <2>1. excused["settings"] = {}
    BY <1>4 DEF ExcusesGrow, Files
  <2>2. ASSUME NEW e PROVE Saved(e)' <=> Saved(e)
    BY DEF Saved
  <2>3. ASSUME NEW e \in Entries, ~ Removable(e)
        PROVE  \A q \in Cli : AtSettings(q) /\ Has(TextOf(job[q].seen), e) =>
                     /\ e # Odd => Has(Text("settings"), e)
                     /\ job[q].at \in Copied /\ Has(Text("settings"), e) => Saved(e)
    BY <2>1, <2>3 DEF BackupInv
  <2>4. ASSUME NEW e \in Entries, ~ Removable(e), NEW q \in Cli, AtSettings(q)', Has(TextOf(job'[q].seen), e)
        PROVE  /\ e # Odd => Has(Text("settings"), e)
               /\ job'[q].at \in Copied /\ Has(Text("settings"), e) => Saved(e)
    <3>1. CASE q = p
      BY <1>1, <2>4, <3>1 DEF Copied
    <3>2. CASE q # p
      <4>1. AtSettings(q) /\ job'[q] = job[q]
        BY <1>2, <2>4, <3>2 DEF StillAt
      <4> QED
        BY <2>3, <2>4, <4>1
    <3> QED
      BY <3>1, <3>2
  <2>5. ASSUME NEW q \in Cli, AtSettings(q)', job'[q].at \in InPlace PROVE job'[q].seen = Absent
    <3>1. CASE q = p
      BY <2>5, <3>1 DEF InPlace
    <3>2. CASE q # p
      <4>1. AtSettings(q) /\ job'[q] = job[q]
        BY <1>2, <2>5, <3>2 DEF StillAt
      <4> QED
        BY <2>1, <2>5, <4>1 DEF BackupInv
    <3> QED
      BY <3>1, <3>2
  <2> QED
    BY <1>1, <2>2, <2>3, <2>4, <2>5
<1> QED
  BY <1>3, <1>4 DEF BackupInv, TextOf

LEMMA FileKinds ==
    ASSUME NEW s \in Stages
    PROVE  /\ FileOf(s) \in Files \cup {None}
           /\ FileOf(s) \in Files => s.kind \notin {"mark", "service", "unservice", "purge"}
           /\ FileOf(s) = "settings" => s.kind \in {"hook", "unhook"}
           /\ FileOf(s) = "ingest" => s.kind \in {"exclude", "include", "seed_ingest"}
           /\ s.kind = "unhook" => FileOf(s) = "settings"
<1>1. s.kind \in Kinds /\ None \notin Files
  BY MarksAssumption DEF Stages
<1>2. CASE s.kind \in {"add", "append", "seed_rules"}
  BY <1>1, <1>2 DEF FileOf, Files
<1>3. CASE s.kind \in {"exclude", "include", "seed_ingest"}
  BY <1>1, <1>3 DEF FileOf, Files
<1>4. CASE s.kind \in {"hook", "unhook"}
  BY <1>1, <1>4 DEF FileOf, Files
<1>5. CASE s.kind \in {"mark", "service", "unservice", "purge"}
  BY <1>1, <1>5 DEF FileOf, Files
<1> QED
  BY <1>1, <1>2, <1>3, <1>4, <1>5 DEF Kinds

LEMMA PlanStep ==
    ASSUME CliInv, NEW p \in Cli, job[p].at = "stage", NEW f \in Files, f = FileOf(Here(p)),
           NEW text \in Seq(LinesOf(f)), Sound(f, text, Settled),
           Here(p).kind \in {"seed_rules", "seed_ingest", "unhook"} /\ files[f] = Absent => text = <<>>,
           Plan(p, text), UNCHANGED <<learningVars, fileVars>>,
           excused' \in [Files -> SUBSET {"torn", "raced", "misread"}], ExcusesGrow,
           excused'[f] = {} => text = Text(f)
    PROVE  CliInv'
<1>1. FileTypes /\ LearningInv /\ JobsInv /\ TextsInv /\ BackupInv
  BY DEF CliInv
<1>2. PICK s, new : s = Here(p) /\ new = NewText(s, text)
  OBVIOUS
<1>3. LearningInv' /\ SuggestionsGrow /\ suggestions \in [Patterns -> Suggestion \cup {None}]
  BY <1>1, SameLearning, LearningTypes
<1>4. job[p] # Idle /\ job[p].at # "idle" /\ job[p].at # "fill" /\ job[p].at \notin Writing
  BY DEF Idle, Writing, InPlace, Renaming, Copied
<1>5. /\ s \in Stages /\ Fits(s) /\ (s.kind = "append" => s.arg \in Settled)
      /\ f = FileOf(s) /\ s.kind \notin {"mark", "service", "unservice", "purge"}
  BY <1>1, <1>2, <1>4, HereIs, FileKinds
<1>6. Means(s, f, text, new) /\ (s.kind = "unhook" /\ text = <<>> => new = None)
  BY <1>2, <1>3, <1>5, NewTextMeans
<1>7. UNCHANGED <<files, tmp, backup, service>>
  BY DEF fileVars
<1>8. ASSUME NEW g PROVE Text(g)' = Text(g)
  BY <1>7 DEF Text
<1>9. CASE new = None
  <2>1. Acknowledge(s, text) /\ Advance(p)
    BY <1>2, <1>5, <1>9 DEF Plan
  <2>2. Moved(p)
    BY <1>1, <1>2, <1>3, <1>4, <1>5, <2>1, AdvanceMoves
  <2>3. /\ acked' \in [Files -> SUBSET AllLines]
        /\ \A g \in Files : acked'[g] = acked[g] \cup
                              IF g = f THEN {line \in Reported(s) : Has(text, line)} ELSE {}
        /\ \A g \in Files : acked'[g] \subseteq LinesOf(g)
        /\ acked'["settings"] = acked["settings"]
    BY <1>1, <1>3, <1>5, <2>1, AcknowledgeMeans
  <2>4. FileTypes'
    BY <1>1, <1>7, <2>2, <2>3 DEF FileTypes, Moved
  <2>5. JobsInv'
    BY <1>1, <1>3, <1>4, <2>2, MovedKeeps
  <2>6. ASSUME NEW g \in Files, excused'[g] = {}, NEW line \in acked'[g]
        PROVE  Has(Text(g)', line) \/ InFlight(g, line)'
    <3>1. CASE line \in acked[g]
      <4>1. excused[g] = {}
        BY <2>6 DEF ExcusesGrow
      <4>2. Has(Text(g), line) \/ InFlight(g, line)
        BY <1>1, <3>1, <4>1, KeptMeans DEF TextsInv
      <4> QED
        BY <1>4, <1>8, <2>2, <4>2, FlightStays DEF Moved
    <3>2. CASE g = f /\ Has(text, line)
      BY <1>8, <2>6, <3>2
    <3> QED
      BY <2>3, <2>6, <3>1, <3>2
  <2>7. ASSUME NEW g \in Files
        PROVE  Sound(g, Text(g)', Settled') /\ Sound(g, TextOf(tmp'[g]), Settled')
    <3>1. Sound(g, Text(g), Settled) /\ Sound(g, TextOf(tmp[g]), Settled)
      BY <1>1 DEF TextsInv
    <3> QED
      BY <1>3, <1>7, <1>8, <3>1, SettledGrows, SoundGrows
  <2>8. TextsInv'
    <3>1. AcknowledgedKept'
      BY <2>6, KeptMeans
    <3>2. \A e \in acked'["settings"] : ~ Removable(e) /\ e # Odd
      BY <1>1, <2>3 DEF TextsInv
    <3> QED
      BY <2>7, <3>1, <3>2 DEF TextsInv, TextOf
  <2>9. BackupInv'
    <3>1. \A q \in Cli : StillAt(q)
      BY <2>2, StillAtMoved DEF Moved
    <3>2. EntriesStay
      BY <1>8 DEF EntriesStay
    <3> QED
      BY <1>1, <1>7, <3>1, <3>2, BackupKeeps
  <2> QED
    BY <1>3, <2>4, <2>5, <2>8, <2>9 DEF CliInv
<1>10. CASE new # None
  <2> DEFINE at == IF ~ ByRename(s) THEN "truncate" ELSE IF f = "settings" THEN "copy" ELSE "tmp"
  <2>1. job' = [job EXCEPT ![p].at = at, ![p].seen = files[f], ![p].text = new] /\ acked' = acked
    BY <1>2, <1>5, <1>10 DEF Plan
  <2>2. at \in {"truncate", "copy", "tmp"} /\ at \in Writing
    BY DEF Writing, InPlace, Renaming, Copied
  <2>3. /\ new \in Seq(LinesOf(f)) /\ files[f] \in Seq(LinesOf(f)) \cup {Absent, Blank}
        /\ new \in Seq(AllLines) /\ files[f] \in Seq(AllLines) \cup {Absent, Blank}
    BY <1>1, <1>6, <1>10, LinesAll, SeqWiden DEF Means, FileTypes
  <2>4. /\ at \in Renaming => s.kind \in {"append", "unhook", "hook"}
        /\ at = "truncate" => s.kind \notin {"append", "unhook"}
        /\ at = "copy" => f = "settings"
        /\ f = "settings" => \/ at = "copy" /\ files["settings"] # Absent
                             \/ at = "truncate" /\ files["settings"] = Absent
    <3>1. f = "settings" => s.kind \in {"hook", "unhook"}
      BY <1>5, FileKinds
    <3>2. s.kind = "unhook" => files[f] # Absent
      BY <1>2, <1>6, <1>10
    <3>3. files.settings = files["settings"]
      OBVIOUS
    <3> QED
      BY <3>1, <3>2, <3>3 DEF ByRename, Renaming, Copied
  <2> HIDE DEF at
  <2>5. /\ job' \in [Cli -> Job] /\ \A q \in Cli \ {p} : job'[q] = job[q]
        /\ job'[p].at = at /\ job'[p].seen = files[f] /\ job'[p].text = new /\ job'[p].todo = job[p].todo
    BY <1>1, <2>1, <2>2, <2>3, RewriteMeans
  <2>6. Reported(Here(p))' = Reported(s) /\ Here(p)' = s
    BY <1>1, <1>2, <1>3, <1>4, <2>5, ReportedStays
  <2>7. TodoInv(p)'
    BY <1>1, <1>3, <2>5, TodoStays
  <2>8. WriteInv(p)'
    <3>1. Sound(f, new, Settled')
      BY <1>3, <1>6, <1>10, SettledGrows, SoundGrows DEF Means
    <3>2. excused'[f] = {} =>
             /\ \A line \in LinesOf(f) : Has(TextOf(files[f]), line) => Has(new, line) \/ Dropped(s, line)
             /\ f = "settings" /\ Has(new, Odd) => Has(TextOf(files[f]), Odd)
      <4>1. TextOf(files[f]) = Text(f)
        BY DEF TextOf, Text
      <4> QED
        BY <1>6, <1>10, <4>1 DEF Means
    <3>3. \A line \in Reported(s) : Has(new, line)
      BY <1>6, <1>10 DEF Means
    <3>4. at # "fill"
      BY <2>2
    <3> QED
      BY <1>5, <2>2, <2>3, <2>4, <2>5, <2>6, <3>1, <3>2, <3>3, <3>4 DEF WriteInv, TextOf, InPlace
  <2>9. JobsInv'
    <3>1. /\ job'[p].at # "idle" /\ job'[p].todo # <<>> /\ (Purging(p)' => Purging(p))
      BY <1>1, <1>4, <2>2, <2>5, HereIs DEF Purging
    <3> QED
      BY <1>1, <1>3, <1>4, <2>5, <2>7, <2>8, <3>1, JobsKeep
  <2>10. FileTypes'
    BY <1>1, <1>7, <2>1, <2>5 DEF FileTypes
  <2>11. TextsInv'
    <3>1. \A q \in Cli : \/ job'[q] = job[q]
                         \/ job[q].at = "fill" => excused'[FileOf(Here(q))] # {}
      BY <1>4, <2>5
    <3>2. \A g \in Files : Sound(g, TextOf(tmp'[g]), Settled)
      BY <1>1, <1>7 DEF TextsInv
    <3> QED
      BY <1>1, <1>3, <1>7, <2>1, <3>1, <3>2, TextsKeep
  <2>12. BackupInv'
    <3>1. AtSettings(p)' => f = "settings"
      BY <1>5, <2>6 DEF AtSettings
    <3> QED
      BY <1>1, <1>7, <2>4, <2>5, <3>1, BackupPlans
  <2> QED
    BY <1>3, <2>9, <2>10, <2>11, <2>12 DEF CliInv
<1> QED
  BY <1>9, <1>10

LEMMA ReadStep == ASSUME CliInv, NEW p \in Cli, Read(p) PROVE CliInv'
<1>1. FileTypes /\ JobsInv /\ TextsInv
  BY DEF CliInv
<1>2. PICK f : f = FileOf(Here(p))
  OBVIOUS
<1>3. /\ job[p].at = "stage" /\ f # None /\ Plan(p, Text(f))
      /\ UNCHANGED <<learningVars, fileVars, excused>>
  BY <1>2 DEF Read
<1>4. Here(p) \in Stages
  BY <1>1, <1>3, HereIs
<1>5. f \in Files
  BY <1>2, <1>3, <1>4, FileKinds
<1>6. Text(f) \in Seq(LinesOf(f)) /\ (files[f] = Absent => Text(f) = <<>>)
  <2>1. files[f] \in Seq(LinesOf(f)) \cup {Absent, Blank}
    BY <1>1, <1>5 DEF FileTypes
  <2>2. <<>> \in Seq(LinesOf(f))
    OBVIOUS
  <2> QED
    BY <2>1, <2>2 DEF Text
<1>7. Sound(f, Text(f), Settled)
  BY <1>1, <1>5 DEF TextsInv
<1> QED
  BY <1>1, <1>2, <1>3, <1>5, <1>6, <1>7, NoneExcused, PlanStep

LEMMA MisreadStep == ASSUME CliInv, NEW p \in Cli, Misread(p) PROVE CliInv'
<1>1. FileTypes
  BY DEF CliInv
<1>2. PICK f : f = FileOf(Here(p))
  OBVIOUS
<1>3. /\ job[p].at = "stage" /\ Here(p).kind \in {"add", "append", "exclude"} /\ Plan(p, <<>>)
      /\ Excuse(f, "misread", TRUE) /\ UNCHANGED <<learningVars, fileVars>>
  BY <1>2 DEF Misread
<1>4. f \in Files
  BY <1>2, <1>3 DEF FileOf, Files
<1>5. /\ excused' \in [Files -> SUBSET {"torn", "raced", "misread"}] /\ ExcusesGrow /\ excused'[f] # {}
  BY <1>1, <1>3, <1>4, ExcuseMeans
<1>6. <<>> \in Seq(LinesOf(f)) /\ Sound(f, <<>>, Settled)
  BY SoundNothing
<1> QED
  BY <1>2, <1>3, <1>4, <1>5, <1>6, PlanStep

-----------------------------------------------------------------------------
(* The writes.                                                               *)

(* What a process that is writing holds.                                     *)
LEMMA HeldIs ==
    ASSUME FileTypes, JobsInv, NEW p \in Cli, job[p].at \in Writing, NEW f, f = FileOf(Here(p))
    PROVE  /\ f \in Files /\ Here(p) \in Stages /\ Fits(Here(p))
           /\ Here(p).kind = "append" => Here(p).arg \in Settled
           /\ Here(p).kind \notin {"mark", "service", "unservice", "purge"}
           /\ job[p].text \in Seq(LinesOf(f)) /\ job[p].text \notin {Absent, Blank}
           /\ job[p].seen \in Seq(LinesOf(f)) \cup {Absent, Blank}
           /\ job[p].at \in Renaming => Here(p).kind \in {"append", "unhook", "hook"}
           /\ job[p].at \in InPlace => Here(p).kind \notin {"append", "unhook"}
           /\ job[p].at = "copy" => f = "settings"
           /\ excused[f] = {} =>
              /\ \A line \in LinesOf(f) :
                    Has(TextOf(job[p].seen), line) => Has(job[p].text, line) \/ Dropped(Here(p), line)
              /\ f = "settings" /\ Has(job[p].text, Odd) => Has(TextOf(job[p].seen), Odd)
           /\ \A line \in Reported(Here(p)) : Has(job[p].text, line)
           /\ Sound(f, job[p].text, Settled)
           /\ job[p] # Idle /\ job[p].at # "idle"
<1>1. job[p] # Idle /\ job[p].at # "idle"
  BY DEF Idle, Writing, InPlace, Renaming, Copied
<1>2. WriteInv(p)
  BY DEF JobsInv
<1>3. f \in Files /\ job[p].text \in Seq(LinesOf(f))
  BY <1>2 DEF WriteInv
<1>4. job[p].text \notin {Absent, Blank}
  BY <1>3, MarksAssumption
<1>5. Here(p) \in Stages /\ Fits(Here(p)) /\ (Here(p).kind = "append" => Here(p).arg \in Settled)
  BY <1>1, HereIs
<1>6. Here(p).kind \notin {"mark", "service", "unservice", "purge"}
  BY <1>3, <1>5, FileKinds
<1> QED
  BY <1>1, <1>2, <1>3, <1>4, <1>5, <1>6 DEF WriteInv

(* The new text is in the file, and the stage is over: unless the file is    *)
(* excused, every line it had is still in it.                                *)
LEMMA LandStep ==
    ASSUME CliInv, NEW p \in Cli, job[p].at \in Writing, NEW f, f = FileOf(Here(p)),
           NEW new \in Seq(LinesOf(f)) \cup {Blank}, Sound(f, TextOf(new), Settled),
           files' = [files EXCEPT ![f] = new], Acknowledge(Here(p), job[p].text), Advance(p),
           \A g \in Files : tmp'[g] \in {tmp[g], Absent},
           tmp' \in [Files -> Seq(AllLines) \cup {Absent, Blank}],
           UNCHANGED <<learningVars, backup, service>>,
           excused' \in [Files -> SUBSET {"torn", "raced", "misread"}], ExcusesGrow,
           excused'[f] = {} =>
              /\ new = job[p].text
              /\ \A line \in LinesOf(f) : Has(Text(f), line) =>
                    Has(new, line) \/ (f = "settings" /\ (Removable(line) \/ line = Odd))
              /\ f = "settings" /\ Has(new, Odd) => Has(Text(f), Odd)
    PROVE  CliInv'
<1>1. FileTypes /\ LearningInv /\ JobsInv /\ TextsInv /\ BackupInv
  BY DEF CliInv
<1>2. PICK s : s = Here(p)
  OBVIOUS
<1>3. /\ f \in Files /\ s \in Stages /\ Fits(s) /\ (s.kind = "append" => s.arg \in Settled)
      /\ s.kind \notin {"mark", "service", "unservice", "purge"} /\ f = FileOf(s)
      /\ \A line \in Reported(s) : Has(job[p].text, line)
      /\ job[p] # Idle /\ job[p].at # "idle"
  BY <1>1, <1>2, HeldIs
<1>4. LearningInv' /\ SuggestionsGrow /\ suggestions \in [Patterns -> Suggestion \cup {None}]
  BY <1>1, SameLearning, LearningTypes
<1>5. Moved(p)
  BY <1>1, <1>2, <1>3, <1>4, AdvanceMoves
<1>6. /\ acked' \in [Files -> SUBSET AllLines]
      /\ \A g \in Files : acked'[g] = acked[g] \cup
                            IF g = f THEN {line \in Reported(s) : Has(job[p].text, line)} ELSE {}
      /\ \A g \in Files : acked'[g] \subseteq LinesOf(g)
      /\ acked'["settings"] = acked["settings"]
  BY <1>1, <1>2, <1>3, <1>4, AcknowledgeMeans
<1>7. files \in [Files -> Seq(AllLines) \cup {Absent, Blank}] /\ new \in Seq(AllLines) \cup {Blank}
  BY <1>1, <1>3, LinesAll, SeqWiden DEF FileTypes
<1>8. /\ files' \in [Files -> Seq(AllLines) \cup {Absent, Blank}] /\ files'[f] = new
      /\ \A g \in Files : g # f => files'[g] = files[g]
  BY <1>3, <1>7
<1>9. new # Absent /\ job[p].text \notin {Absent, Blank}
  BY <1>1, <1>2, <1>3, HeldIs, MarksAssumption
<1>10. /\ Text(f)' = TextOf(new) /\ \A g \in Files : g # f => Text(g)' = Text(g)
       /\ excused'[f] = {} => Text(f)' = new /\ new = job[p].text
  BY <1>8, <1>9 DEF Text, TextOf
<1>11. FileTypes'
  <2>1. \A g \in Files : files'[g] \in Seq(LinesOf(g)) \cup {Absent, Blank}
    BY <1>1, <1>8 DEF FileTypes
  <2>2. \A g \in Files : tmp'[g] \in Seq(LinesOf(g)) \cup {Absent, Blank}
    BY <1>1 DEF FileTypes
  <2> QED
    BY <1>1, <1>5, <1>6, <1>8, <2>1, <2>2 DEF FileTypes, Moved
<1>12. JobsInv'
  BY <1>1, <1>3, <1>4, <1>5, MovedKeeps
<1>13. ASSUME NEW g \in Files, excused'[g] = {}, NEW line \in acked'[g]
       PROVE  Has(Text(g)', line) \/ InFlight(g, line)'
  <2>1. CASE line \in acked[g]
    <3>1. excused[g] = {} /\ line \in LinesOf(g)
      BY <1>6, <1>13 DEF ExcusesGrow
    <3>2. Has(Text(g), line) \/ InFlight(g, line)
      BY <1>1, <2>1, <3>1, KeptMeans DEF TextsInv
    <3>3. CASE g # f
      <4>1. InFlight(g, line) => InFlight(g, line)'
        BY <1>5, <3>3, FlightStays DEF Moved
      <4> QED
        BY <1>10, <3>2, <3>3, <4>1
    <3>4. CASE g = f
      <4>1. CASE Has(Text(f), line)
        <5>1. ~ (f = "settings" /\ (Removable(line) \/ line = Odd))
          BY <1>1, <2>1, <3>4 DEF TextsInv
        <5> QED
          BY <1>10, <1>13, <3>1, <3>4, <4>1, <5>1
      <4>2. CASE InFlight(f, line)
        <5>1. PICK q \in Cli : job[q].at = "fill" /\ FileOf(Here(q)) = f /\ Has(job[q].text, line)
          BY <4>2 DEF InFlight
        <5>2. CASE q = p
          BY <1>10, <1>13, <3>4, <5>1, <5>2
        <5>3. CASE q # p
          <6>1. job'[q] = job[q]
            BY <1>5, <5>3 DEF Moved
          <6>2. FileOf(Here(q))' = FileOf(Here(q))
            BY <6>1 DEF FileOf, Here
          <6>3. InFlight(f, line)'
            BY <5>1, <6>1, <6>2 DEF InFlight
          <6> QED
            BY <3>4, <6>3
        <5> QED
          BY <5>2, <5>3
      <4> QED
        BY <3>2, <3>4, <4>1, <4>2
    <3> QED
      BY <3>3, <3>4
  <2>2. CASE g = f /\ Has(job[p].text, line)
    BY <1>10, <1>13, <2>2
  <2> QED
    BY <1>6, <1>13, <2>1, <2>2
<1>14. ASSUME NEW g \in Files
       PROVE  Sound(g, Text(g)', Settled') /\ Sound(g, TextOf(tmp'[g]), Settled')
  <2>1. Sound(g, Text(g), Settled) /\ Sound(g, TextOf(tmp[g]), Settled)
    BY <1>1 DEF TextsInv
  <2>2. Settled \subseteq Settled'
    BY <1>4, SettledGrows
  <2>3. Sound(g, Text(g)', Settled')
    BY <1>10, <2>1, <2>2, SoundGrows
  <2>4. tmp'[g] = tmp[g] \/ TextOf(tmp'[g]) = <<>>
    BY DEF TextOf
  <2>5. Sound(g, TextOf(tmp'[g]), Settled')
    BY <2>1, <2>2, <2>4, SoundGrows, SoundNothing
  <2> QED
    BY <2>3, <2>5
<1>15. TextsInv'
  <2>1. AcknowledgedKept'
    BY <1>13, KeptMeans
  <2>2. \A e \in acked'["settings"] : ~ Removable(e) /\ e # Odd
    BY <1>1, <1>6 DEF TextsInv
  <2> QED
    BY <1>14, <2>1, <2>2 DEF TextsInv, TextOf
<1>16. BackupInv'
  <2>1. \A q \in Cli : StillAt(q)
    BY <1>5, StillAtMoved DEF Moved
  <2>2. files["settings"] # Absent => files'["settings"] # Absent
    BY <1>8, <1>9 DEF Files
  <2>3. ASSUME excused'["settings"] = {} PROVE EntriesStay
    <3>1. CASE f = "settings"
      <4>1. \A e \in Entries : e \in LinesOf("settings")
        BY DEF LinesOf
      <4> QED
        BY <1>10, <2>3, <3>1, <4>1 DEF EntriesStay
    <3>2. CASE f # "settings"
      <4>1. Text("settings")' = Text("settings")
        BY <1>10, <3>2 DEF Files
      <4> QED
        BY <4>1 DEF EntriesStay
    <3> QED
      BY <3>1, <3>2
  <2> QED
    BY <1>1, <2>1, <2>2, <2>3, BackupKeeps
<1> QED
  BY <1>4, <1>11, <1>12, <1>15, <1>16 DEF CliInv

LEMMA FillStep == ASSUME CliInv, NEW p \in Cli, Fill(p) PROVE CliInv'
<1>1. FileTypes /\ JobsInv
  BY DEF CliInv
<1>2. PICK f : f = FileOf(Here(p))
  OBVIOUS
<1>3. /\ job[p].at = "fill" /\ files' = [files EXCEPT ![f] = job[p].text]
      /\ Acknowledge(Here(p), job[p].text) /\ Advance(p) /\ Excuse(f, "raced", files[f] # Blank)
      /\ UNCHANGED <<learningVars, tmp, backup, service>>
  BY <1>2 DEF Fill
<1>4. job[p].at \in Writing
  BY <1>3 DEF Writing, InPlace
<1>5. /\ f \in Files /\ job[p].text \in Seq(LinesOf(f)) /\ job[p].text \notin {Absent, Blank}
      /\ Sound(f, job[p].text, Settled)
      /\ excused[f] = {} /\ f = "settings" /\ Has(job[p].text, Odd) => Has(TextOf(job[p].seen), Odd)
  BY <1>1, <1>2, <1>4, HeldIs
<1>6. /\ excused' \in [Files -> SUBSET {"torn", "raced", "misread"}] /\ ExcusesGrow
      /\ excused'[f] = {} => files[f] = Blank /\ excused[f] = {}
  BY <1>1, <1>3, <1>5, ExcuseMeans DEF ExcusesGrow
<1>7. files[f] = Blank => \A line : ~ Has(Text(f), line)
  BY HasNothing DEF Text
<1>8. /\ tmp' \in [Files -> Seq(AllLines) \cup {Absent, Blank}]
      /\ \A g \in Files : tmp'[g] \in {tmp[g], Absent}
  BY <1>1, <1>3 DEF FileTypes
<1>9. excused'[f] = {} /\ f = "settings" => ~ Has(job[p].text, Odd)
  <2> SUFFICES ASSUME excused'[f] = {}, f = "settings" PROVE ~ Has(job[p].text, Odd)
    OBVIOUS
  <2>1. AtSettings(p) /\ job[p].at \in InPlace /\ excused["settings"] = {}
    BY <1>2, <1>3, <1>4, <1>6 DEF AtSettings, InPlace
  <2>2. job[p].seen = Absent
    BY <2>1 DEF CliInv, BackupInv
  <2>3. ~ Has(TextOf(job[p].seen), Odd)
    BY <2>2, HasNothing DEF TextOf
  <2> QED
    BY <1>5, <1>6, <2>3
<1>10. excused'[f] = {} =>
          /\ job[p].text = job[p].text
          /\ \A line \in LinesOf(f) : Has(Text(f), line) =>
                Has(job[p].text, line) \/ (f = "settings" /\ (Removable(line) \/ line = Odd))
          /\ f = "settings" /\ Has(job[p].text, Odd) => Has(Text(f), Odd)
  BY <1>6, <1>7, <1>9
<1>11. Sound(f, TextOf(job[p].text), Settled)
  BY <1>5 DEF TextOf
<1> QED
  BY <1>2, <1>3, <1>4, <1>5, <1>6, <1>8, <1>10, <1>11, LandStep

LEMMA RenameMeans ==
    ASSUME CliInv, NEW p \in Cli, Rename(p), NEW f, f = FileOf(Here(p))
    PROVE  /\ job[p].at = "rename" /\ job[p].at \in Writing /\ f \in Files
           /\ files' = [files EXCEPT ![f] = tmp[f]] /\ tmp' = [tmp EXCEPT ![f] = Absent]
           /\ Acknowledge(Here(p), job[p].text) /\ Advance(p) /\ UNCHANGED <<learningVars, backup, service>>
           /\ excused' \in [Files -> SUBSET {"torn", "raced", "misread"}] /\ ExcusesGrow
           /\ excused'[f] = {} => files[f] = job[p].seen /\ tmp[f] = job[p].text /\ excused[f] = {}
           /\ tmp[f] \in Seq(LinesOf(f)) \cup {Blank} /\ Sound(f, TextOf(tmp[f]), Settled)
<1>1. FileTypes /\ JobsInv /\ TextsInv
  BY DEF CliInv
<1>2. /\ job[p].at = "rename" /\ files' = [files EXCEPT ![f] = tmp[f]] /\ tmp' = [tmp EXCEPT ![f] = Absent]
      /\ Acknowledge(Here(p), job[p].text) /\ Advance(p) /\ tmp[f] # Absent
      /\ Excuse(f, "raced", files[f] # job[p].seen \/ tmp[f] # job[p].text)
      /\ UNCHANGED <<learningVars, backup, service>>
  BY DEF Rename
<1>3. job[p].at \in Writing
  BY <1>2 DEF Writing, InPlace, Renaming, Copied
<1>4. f \in Files
  BY <1>1, <1>3, HeldIs
<1>5. /\ excused' \in [Files -> SUBSET {"torn", "raced", "misread"}] /\ ExcusesGrow
      /\ files[f] # job[p].seen \/ tmp[f] # job[p].text => excused'[f] # {}
  BY <1>1, <1>2, <1>4, ExcuseMeans
<1>6. excused'[f] = {} => excused[f] = {}
  BY <1>4, <1>5 DEF ExcusesGrow
<1>7. tmp[f] \in Seq(LinesOf(f)) \cup {Blank} /\ Sound(f, TextOf(tmp[f]), Settled)
  BY <1>1, <1>2, <1>4 DEF FileTypes, TextsInv
<1> QED
  BY <1>2, <1>3, <1>4, <1>5, <1>6, <1>7

LEMMA RenameStep == ASSUME CliInv, NEW p \in Cli, Rename(p) PROVE CliInv'
<1>1. FileTypes /\ JobsInv
  BY DEF CliInv
<1>2. PICK f, new : f = FileOf(Here(p)) /\ new = tmp[f]
  OBVIOUS
<1>3. /\ job[p].at = "rename" /\ job[p].at \in Writing /\ f \in Files
      /\ files' = [files EXCEPT ![f] = new] /\ tmp' = [tmp EXCEPT ![f] = Absent]
      /\ Acknowledge(Here(p), job[p].text) /\ Advance(p) /\ UNCHANGED <<learningVars, backup, service>>
      /\ excused' \in [Files -> SUBSET {"torn", "raced", "misread"}] /\ ExcusesGrow
      /\ excused'[f] = {} => files[f] = job[p].seen /\ new = job[p].text /\ excused[f] = {}
      /\ new \in Seq(LinesOf(f)) \cup {Blank} /\ Sound(f, TextOf(new), Settled)
  BY <1>2, RenameMeans
<1>4. \A g \in Files : tmp'[g] \in {tmp[g], Absent}
  BY <1>1, <1>3 DEF FileTypes
<1>5. tmp' \in [Files -> Seq(AllLines) \cup {Absent, Blank}]
  BY <1>1, <1>3 DEF FileTypes
<1>6. ASSUME excused'[f] = {}
      PROVE  /\ new = job[p].text
             /\ \A line \in LinesOf(f) : Has(Text(f), line) =>
                   Has(new, line) \/ (f = "settings" /\ (Removable(line) \/ line = Odd))
             /\ f = "settings" /\ Has(new, Odd) => Has(Text(f), Odd)
  <2>1. new = job[p].text /\ Text(f) = TextOf(job[p].seen) /\ excused[f] = {}
    BY <1>3, <1>6 DEF Text, TextOf
  <2>2. /\ \A line \in LinesOf(f) :
              Has(TextOf(job[p].seen), line) => Has(job[p].text, line) \/ Dropped(Here(p), line)
        /\ f = "settings" /\ Has(job[p].text, Odd) => Has(TextOf(job[p].seen), Odd)
    BY <1>1, <1>2, <1>3, <2>1, HeldIs
  <2>3. Here(p) \in Stages /\ Here(p).kind \in {"append", "unhook", "hook"}
    BY <1>1, <1>2, <1>3, HeldIs DEF Renaming, Copied
  <2>4. \A line : Dropped(Here(p), line) => f = "settings" /\ (Removable(line) \/ line = Odd)
    BY <1>2, <2>3 DEF Dropped, FileOf
  <2> QED
    BY <2>1, <2>2, <2>4
<1> QED
  BY <1>2, <1>3, <1>4, <1>5, <1>6, LandStep

LEMMA AtMeans ==
    ASSUME FileTypes, NEW p \in Cli, NEW at \in Writing, job' = [job EXCEPT ![p].at = at]
    PROVE  /\ job' \in [Cli -> Job] /\ \A q \in Cli \ {p} : job'[q] = job[q]
           /\ job'[p] = [job[p] EXCEPT !.at = at] /\ job'[p].at = at /\ job'[p].seen = job[p].seen
           /\ job'[p].text = job[p].text /\ job'[p].todo = job[p].todo
<1>1. job \in [Cli -> Job] /\ job[p] \in Job
  BY DEF FileTypes
<1>2. PICK j \in Job : j = job[p]
  BY <1>1
<1> DEFINE k == [j EXCEPT !.at = at]
<1>3. k \in Job /\ k.at = at /\ k.seen = j.seen /\ k.text = j.text /\ k.todo = j.todo
  BY DEF Job
<1>4. job' = [job EXCEPT ![p] = k]
  BY <1>2
<1> HIDE DEF k
<1>5. job' \in [Cli -> Job] /\ job'[p] = k /\ \A q \in Cli \ {p} : job'[q] = job[q]
  BY <1>1, <1>3, <1>4
<1>6. k = [job[p] EXCEPT !.at = at]
  BY <1>2 DEF k
<1> QED
  BY <1>2, <1>3, <1>5, <1>6

(* A write goes on to its next part.                                         *)
LEMMA PartKeeps ==
    ASSUME CliInv, NEW p \in Cli, job[p].at \in Writing, NEW at \in Writing,
           job' = [job EXCEPT ![p].at = at], SuggestionsGrow, ExcusesGrow,
           at \in Renaming => job[p].at \in Renaming,
           at \in InPlace => job[p].at \in InPlace, at # "copy"
    PROVE  JobsInv'
<1>1. FileTypes /\ JobsInv
  BY DEF CliInv
<1>2. /\ \A q \in Cli \ {p} : job'[q] = job[q]
      /\ job'[p].at = at /\ job'[p].seen = job[p].seen
      /\ job'[p].text = job[p].text /\ job'[p].todo = job[p].todo
  BY <1>1, AtMeans
<1>3. WriteInv(p)'
  BY <1>1, <1>2, WriteMoves
<1>4. TodoInv(p)'
  BY <1>1, <1>2, TodoStays
<1>5. job[p] # Idle /\ job[p].at # "idle" /\ job'[p].at # "idle" /\ job[p].todo # <<>>
  <2>1. job[p].at # "idle" /\ at # "idle" /\ job[p] # Idle
    BY DEF Writing, InPlace, Renaming, Copied, Idle
  <2> QED
    BY <1>1, <1>2, <2>1, HereIs
<1>6. Purging(p)' => Purging(p)
  BY <1>2 DEF Purging
<1> QED
  BY <1>1, <1>2, <1>3, <1>4, <1>5, <1>6, JobsKeep

LEMMA TruncateStep == ASSUME CliInv, NEW p \in Cli, Truncate(p) PROVE CliInv'
<1>1. FileTypes /\ LearningInv /\ JobsInv /\ TextsInv /\ BackupInv
  BY DEF CliInv
<1>2. PICK f, s : f = FileOf(Here(p)) /\ s = Here(p)
  OBVIOUS
<1>3. /\ job[p].at = "truncate" /\ files' = [files EXCEPT ![f] = Blank]
      /\ job' = [job EXCEPT ![p].at = "fill"] /\ Excuse(f, "raced", files[f] # job[p].seen)
      /\ acked' = IF s.kind = "include"
                  THEN [acked EXCEPT !.ingest = {b \in acked.ingest : <<b.target, s.arg>> \notin StartsWith}]
                  ELSE acked
      /\ UNCHANGED <<learningVars, tmp, backup, service>>
  BY <1>2 DEF Truncate
<1>4. job[p].at \in Writing /\ "fill" \in Writing /\ job[p].at # "fill"
  BY <1>3 DEF Writing, InPlace
<1>5. /\ f \in Files /\ s.kind \notin {"append", "unhook"}
      /\ excused[f] = {} =>
            \A line \in LinesOf(f) :
               Has(TextOf(job[p].seen), line) => Has(job[p].text, line) \/ Dropped(s, line)
  BY <1>1, <1>2, <1>3, <1>4, HeldIs DEF InPlace
<1>6. /\ excused' \in [Files -> SUBSET {"torn", "raced", "misread"}] /\ ExcusesGrow
      /\ excused'[f] = {} => files[f] = job[p].seen
  BY <1>1, <1>3, <1>5, ExcuseMeans
<1>7. LearningInv' /\ SuggestionsGrow
  BY <1>1, <1>3, SameLearning
<1>8. /\ job' \in [Cli -> Job] /\ \A q \in Cli \ {p} : job'[q] = job[q]
      /\ job'[p].at = "fill" /\ job'[p].seen = job[p].seen
      /\ job'[p].text = job[p].text /\ job'[p].todo = job[p].todo
  BY <1>1, <1>3, <1>4, AtMeans
<1>9. Here(p)' = s /\ FileOf(Here(p))' = f
  BY <1>2, <1>8 DEF Here, FileOf
<1>10. /\ files' \in [Files -> Seq(AllLines) \cup {Absent, Blank}] /\ files'[f] = Blank
       /\ \A g \in Files : g # f => files'[g] = files[g]
  BY <1>1, <1>3, <1>5 DEF FileTypes
<1>11. Text(f)' = <<>> /\ \A g \in Files : g # f => Text(g)' = Text(g)
  BY <1>10 DEF Text
<1>12. /\ acked' \in [Files -> SUBSET AllLines] /\ \A g \in Files : acked'[g] \subseteq acked[g]
       /\ \A line \in acked'[f] : ~ (s.kind = "include" /\ <<line.target, s.arg>> \in StartsWith)
  <2>1. acked \in [Files -> SUBSET AllLines] /\ "ingest" \in Files /\ acked.ingest = acked["ingest"]
    BY <1>1 DEF FileTypes, Files
  <2>2. CASE s.kind # "include"
    BY <1>3, <2>1, <2>2
  <2>3. CASE s.kind = "include"
    <3> DEFINE rest == {b \in acked["ingest"] : <<b.target, s.arg>> \notin StartsWith}
    <3>1. acked' = [acked EXCEPT !["ingest"] = rest]
      BY <1>3, <2>1, <2>3
    <3>2. rest \subseteq acked["ingest"] /\ rest \in SUBSET AllLines
      BY <2>1
    <3>3. f = "ingest"
      BY <1>2, <2>3 DEF FileOf
    <3>4. acked' \in [Files -> SUBSET AllLines] /\ \A g \in Files : acked'[g] \subseteq acked[g]
      <4> HIDE DEF rest
      <4> QED
        BY <2>1, <3>1, <3>2
    <3>5. acked'[f] = rest
      BY <2>1, <3>1, <3>3
    <3> QED
      BY <3>4, <3>5
  <2> QED
    BY <2>2, <2>3
<1>13. FileTypes'
  <2>1. \A g \in Files : files'[g] \in Seq(LinesOf(g)) \cup {Absent, Blank}
    BY <1>1, <1>10 DEF FileTypes
  <2>2. \A g \in Files : acked'[g] \subseteq LinesOf(g)
    BY <1>1, <1>12 DEF FileTypes
  <2> QED
    BY <1>1, <1>3, <1>6, <1>8, <1>10, <1>12, <2>1, <2>2 DEF FileTypes
<1>14. JobsInv'
  BY <1>1, <1>3, <1>4, <1>6, <1>7, PartKeeps DEF InPlace, Renaming, Copied
<1>15. ASSUME NEW g \in Files, excused'[g] = {}, NEW line \in acked'[g]
       PROVE  Has(Text(g)', line) \/ InFlight(g, line)'
  <2>1. excused[g] = {} /\ line \in acked[g] /\ line \in LinesOf(g)
    BY <1>1, <1>6, <1>12, <1>15 DEF ExcusesGrow, FileTypes
  <2>2. Has(Text(g), line) \/ InFlight(g, line)
    BY <1>1, <2>1, KeptMeans DEF TextsInv
  <2>3. InFlight(g, line) => InFlight(g, line)'
    BY <1>4, <1>8, FlightStays
  <2>4. CASE g # f
    BY <1>11, <2>2, <2>3, <2>4
  <2>5. CASE g = f /\ Has(Text(f), line)
    <3>1. Has(TextOf(job[p].seen), line)
      BY <1>6, <1>15, <2>5 DEF Text, TextOf
    <3>2. ~ Dropped(s, line)
      <4>1. s.kind = "hook" => line # Odd
        BY <1>1, <1>2, <2>1, <2>5 DEF TextsInv, FileOf
      <4> QED
        BY <1>5, <1>12, <1>15, <2>5, <4>1 DEF Dropped
    <3>3. Has(job'[p].text, line)
      BY <1>5, <1>8, <2>1, <2>5, <3>1, <3>2
    <3>4. InFlight(f, line)'
      BY <1>8, <1>9, <3>3 DEF InFlight
    <3> QED
      BY <2>5, <3>4
  <2> QED
    BY <2>2, <2>3, <2>4, <2>5
<1>16. ASSUME NEW g \in Files
       PROVE  Sound(g, Text(g)', Settled') /\ Sound(g, TextOf(tmp'[g]), Settled')
  <2>1. Sound(g, Text(g), Settled) /\ Sound(g, TextOf(tmp[g]), Settled)
    BY <1>1 DEF TextsInv
  <2>2. Settled \subseteq Settled'
    BY <1>7, SettledGrows
  <2>3. Sound(g, Text(g)', Settled')
    BY <1>11, <2>1, <2>2, SoundGrows, SoundNothing
  <2>4. Sound(g, TextOf(tmp'[g]), Settled')
    BY <1>3, <2>1, <2>2, SoundGrows
  <2> QED
    BY <2>3, <2>4
<1>17. TextsInv'
  <2>1. AcknowledgedKept'
    BY <1>15, KeptMeans
  <2>2. \A e \in acked'["settings"] : ~ Removable(e) /\ e # Odd
    BY <1>1, <1>12 DEF TextsInv, Files
  <2> QED
    BY <1>16, <2>1, <2>2 DEF TextsInv, TextOf
<1>18. BackupInv'
  <2>1. StillAt(p)
    BY <1>2, <1>3, <1>4, <1>8, <1>9 DEF StillAt, AtSettings, InPlace, Renaming, Copied
  <2>2. \A q \in Cli : StillAt(q)
    BY <1>8, <2>1, StillAtSame
  <2>3. files["settings"] # Absent => files'["settings"] # Absent
    BY <1>10, MarksAssumption DEF Files
  <2>4. ASSUME excused'["settings"] = {} PROVE EntriesStay
    <3>1. CASE f = "settings"
      <4>1. AtSettings(p) /\ excused["settings"] = {} /\ files["settings"] = job[p].seen
        BY <1>2, <1>4, <1>5, <1>6, <2>4, <3>1 DEF AtSettings, ExcusesGrow
      <4>2. files["settings"] = Absent
        BY <1>1, <1>3, <4>1 DEF BackupInv, InPlace
      <4>3. Text("settings") = <<>> /\ Text("settings")' = <<>>
        BY <1>11, <3>1, <4>2 DEF Text
      <4> QED
        BY <4>3, HasNothing DEF EntriesStay
    <3>2. CASE f # "settings"
      <4>1. Text("settings")' = Text("settings")
        BY <1>11, <3>2 DEF Files
      <4> QED
        BY <4>1 DEF EntriesStay
    <3> QED
      BY <3>1, <3>2
  <2> QED
    BY <1>1, <1>3, <1>6, <2>2, <2>3, <2>4, BackupKeeps
<1> QED
  BY <1>7, <1>13, <1>14, <1>17, <1>18 DEF CliInv

(* A write of the temporary file, or by its old name of the file itself.     *)
LEMMA OpenTmpStep == ASSUME CliInv, NEW p \in Cli, OpenTmp(p) PROVE CliInv'
<1>1. FileTypes /\ LearningInv /\ JobsInv /\ TextsInv /\ BackupInv
  BY DEF CliInv
<1>2. PICK f : f = FileOf(Here(p))
  OBVIOUS
<1>3. /\ job[p].at = "tmp" /\ tmp' = [tmp EXCEPT ![f] = Blank]
      /\ job' = [job EXCEPT ![p].at = "tmp_fill"]
      /\ UNCHANGED <<learningVars, files, backup, service, acked, excused>>
  BY <1>2 DEF OpenTmp
<1>4. job[p].at \in Writing /\ "tmp_fill" \in Writing
  BY <1>3 DEF Writing, InPlace, Renaming, Copied
<1>5. f \in Files
  BY <1>1, <1>2, <1>4, HeldIs
<1>6. LearningInv' /\ SuggestionsGrow
  BY <1>1, <1>3, SameLearning
<1>7. /\ job' \in [Cli -> Job] /\ \A q \in Cli \ {p} : job'[q] = job[q]
      /\ job'[p] = [job[p] EXCEPT !.at = "tmp_fill"]
  BY <1>1, <1>3, <1>4, AtMeans
<1>8. ExcusesGrow
  BY <1>1, <1>3, NoneExcused
<1>9. JobsInv'
  BY <1>3, <1>4, <1>6, <1>8, PartKeeps DEF InPlace, Renaming, Copied
<1>10. /\ tmp' \in [Files -> Seq(AllLines) \cup {Absent, Blank}] /\ tmp'[f] = Blank
       /\ \A g \in Files : g # f => tmp'[g] = tmp[g]
  BY <1>1, <1>3, <1>5 DEF FileTypes
<1>11. FileTypes'
  <2>1. \A g \in Files : tmp'[g] \in Seq(LinesOf(g)) \cup {Absent, Blank}
    BY <1>1, <1>10 DEF FileTypes
  <2> QED
    BY <1>1, <1>3, <1>7, <1>10, <2>1 DEF FileTypes
<1>12. \A q \in Cli : Quiet(q)
  BY <1>3, <1>7 DEF Quiet, Copied
<1>13. \A g \in Files : Sound(g, TextOf(tmp'[g]), Settled)
  <2>1. TextOf(tmp'[f]) = <<>>
    BY <1>10 DEF TextOf
  <2> QED
    BY <1>1, <1>10, <2>1, SoundNothing DEF TextsInv
<1>14. TextsInv' /\ BackupInv'
  BY <1>1, <1>3, <1>6, <1>8, <1>12, <1>13, QuietKeeps
<1> QED
  BY <1>6, <1>9, <1>11, <1>14 DEF CliInv

LEMMA WriteTmpStep == ASSUME CliInv, NEW p \in Cli, WriteTmp(p) PROVE CliInv'
<1>1. FileTypes /\ LearningInv /\ JobsInv /\ TextsInv /\ BackupInv
  BY DEF CliInv
<1>2. PICK f, text : f = FileOf(Here(p)) /\ text = job[p].text
  OBVIOUS
<1>3. /\ job[p].at = "tmp_fill" /\ job' = [job EXCEPT ![p].at = "rename"]
      /\ IF tmp[f] # Absent THEN tmp' = [tmp EXCEPT ![f] = text] /\ files' = files
                            ELSE files' = [files EXCEPT ![f] = text] /\ tmp' = tmp
      /\ Excuse(f, "raced", tmp[f] = Absent)
      /\ UNCHANGED <<learningVars, backup, service, acked>>
  BY <1>2 DEF WriteTmp
<1>4. job[p].at \in Writing /\ "rename" \in Writing
  BY <1>3 DEF Writing, InPlace, Renaming, Copied
<1>5. /\ f \in Files /\ text \in Seq(LinesOf(f)) /\ text \notin {Absent, Blank}
      /\ Sound(f, text, Settled)
  BY <1>1, <1>2, <1>4, HeldIs
<1>6. LearningInv' /\ SuggestionsGrow
  BY <1>1, <1>3, SameLearning
<1>7. /\ job' \in [Cli -> Job] /\ \A q \in Cli \ {p} : job'[q] = job[q]
      /\ job'[p] = [job[p] EXCEPT !.at = "rename"]
  BY <1>1, <1>3, <1>4, AtMeans
<1>8. /\ excused' \in [Files -> SUBSET {"torn", "raced", "misread"}] /\ ExcusesGrow
      /\ tmp[f] = Absent => excused'[f] # {}
  BY <1>1, <1>3, <1>5, ExcuseMeans
<1>9. JobsInv'
  BY <1>3, <1>4, <1>6, <1>8, PartKeeps DEF InPlace, Renaming, Copied
<1>10. text \in Seq(AllLines)
  BY <1>1, <1>2, JobTypes
<1>11. /\ tmp' \in [Files -> Seq(AllLines) \cup {Absent, Blank}]
       /\ tmp'[f] \in {tmp[f], text} /\ \A g \in Files : g # f => tmp'[g] = tmp[g]
       /\ files' \in [Files -> Seq(AllLines) \cup {Absent, Blank}]
       /\ \A g \in Files : g # f => files'[g] = files[g]
       /\ IF tmp[f] # Absent THEN files' = files ELSE files'[f] = text
  BY <1>1, <1>3, <1>5, <1>10 DEF FileTypes
<1>12. FileTypes'
  <2>1. \A g \in Files : /\ tmp'[g] \in Seq(LinesOf(g)) \cup {Absent, Blank}
                         /\ files'[g] \in Seq(LinesOf(g)) \cup {Absent, Blank}
    BY <1>1, <1>5, <1>11 DEF FileTypes
  <2> QED
    BY <1>1, <1>3, <1>7, <1>8, <1>11, <2>1 DEF FileTypes
<1>13. \A q \in Cli : Quiet(q)
  BY <1>3, <1>7 DEF Quiet, Copied
<1>14. \A g \in Files : Sound(g, TextOf(tmp'[g]), Settled)
  <2>1. TextOf(text) = text
    BY <1>5 DEF TextOf
  <2> QED
    BY <1>1, <1>5, <1>11, <2>1 DEF TextsInv
<1>15. CASE tmp[f] # Absent
  <2>1. TextsInv' /\ BackupInv'
    BY <1>1, <1>3, <1>6, <1>8, <1>11, <1>13, <1>14, <1>15, QuietKeeps
  <2> QED
    BY <1>6, <1>9, <1>12, <2>1 DEF CliInv
<1>16. CASE tmp[f] = Absent
  <2>1. files'[f] = text /\ excused'[f] # {}
    BY <1>8, <1>11, <1>16
  <2>2. Text(f)' = text /\ \A g \in Files : g # f => Text(g)' = Text(g)
    BY <1>5, <1>11, <2>1 DEF Text
  <2>3. ASSUME NEW g \in Files, excused'[g] = {}, NEW line \in acked'[g]
        PROVE  Has(Text(g)', line) \/ InFlight(g, line)'
    <3>1. g # f /\ excused[g] = {} /\ line \in acked[g]
      BY <1>3, <1>8, <2>1, <2>3 DEF ExcusesGrow
    <3>2. Has(Text(g), line) \/ InFlight(g, line)
      BY <1>1, <2>3, <3>1, KeptMeans DEF TextsInv
    <3>3. InFlight(g, line) => InFlight(g, line)'
      BY <1>3, <1>7, FlightStays
    <3> QED
      BY <2>2, <2>3, <3>1, <3>2, <3>3
  <2>4. ASSUME NEW g \in Files
        PROVE  Sound(g, Text(g)', Settled') /\ Sound(g, TextOf(tmp'[g]), Settled')
    <3>1. Settled \subseteq Settled'
      BY <1>6, SettledGrows
    <3>2. Sound(g, Text(g), Settled)
      BY <1>1 DEF TextsInv
    <3> QED
      BY <1>5, <1>14, <2>2, <3>1, <3>2, SoundGrows
  <2>5. TextsInv'
    <3>1. AcknowledgedKept'
      BY <2>3, KeptMeans
    <3>2. \A e \in acked'["settings"] : ~ Removable(e) /\ e # Odd
      BY <1>1, <1>3 DEF TextsInv
    <3> QED
      BY <2>4, <3>1, <3>2 DEF TextsInv, TextOf
  <2>6. BackupInv'
    <3>1. FileOf(Here(p))' = f /\ job'[p].seen = job[p].seen
      <4>1. job'[p].todo = job[p].todo /\ job'[p].seen = job[p].seen
        BY <1>1, <1>3, <1>4, AtMeans
      <4> QED
        BY <1>2, <4>1 DEF Here, FileOf
    <3>2. job'[p].at = "rename"
      BY <1>1, <1>3, <1>4, AtMeans
    <3>3. StillAt(p)
      BY <1>2, <1>3, <1>4, <3>1, <3>2 DEF StillAt, AtSettings, InPlace, Renaming, Copied
    <3>4. \A q \in Cli : StillAt(q)
      BY <1>7, <3>3, StillAtSame
    <3>5. files["settings"] # Absent => files'["settings"] # Absent
      BY <1>5, <1>11, <2>1 DEF Files
    <3>6. ASSUME excused'["settings"] = {} PROVE EntriesStay
      <4>1. Text("settings")' = Text("settings")
        BY <2>1, <2>2, <3>6 DEF Files
      <4> QED
        BY <4>1 DEF EntriesStay
    <3> QED
      BY <1>1, <1>3, <1>8, <3>4, <3>5, <3>6, BackupKeeps
  <2> QED
    BY <1>6, <1>9, <1>12, <2>5, <2>6 DEF CliInv
<1> QED
  BY <1>15, <1>16

(* The copy adds the file to the backups and drops at most one that the file *)
(* still stands for.                                                         *)
LEMMA CopyMeans ==
    ASSUME NEW X, NEW b \in Seq(X), NEW c \in X, NEW after,
           after = Append(b, c) \/ (b # <<>> /\ after = [b EXCEPT ![Len(b)] = c])
    PROVE  /\ after \in Seq(X) /\ \E i \in DOMAIN after : after[i] = c
           /\ \A i \in DOMAIN after : after[i] = c \/ (i \in DOMAIN b /\ after[i] = b[i])
           /\ \A i \in DOMAIN b : i \in DOMAIN after
<1>1. PICK n \in Nat : n = Len(b) /\ DOMAIN b = 1 .. n
  OBVIOUS
<1>2. CASE after = Append(b, c)
  <2>1. /\ after \in Seq(X) /\ DOMAIN after = 1 .. n + 1 /\ after[n + 1] = c
        /\ \A i \in 1 .. n : after[i] = b[i]
    BY <1>1, <1>2
  <2> HIDE <1>2
  <2>2. n + 1 \in 1 .. n + 1 /\ \A i \in 1 .. n + 1 : i = n + 1 \/ i \in 1 .. n
    OBVIOUS
  <2>3. \A i \in 1 .. n : i \in 1 .. n + 1
    OBVIOUS
  <2> QED
    BY <1>1, <2>1, <2>2, <2>3
<1>3. CASE b # <<>> /\ after = [b EXCEPT ![Len(b)] = c]
  <2>1. n # 0
    BY <1>1, <1>3
  <2>2. n \in 1 .. n
    BY <2>1
  <2>3. after \in Seq(X) /\ DOMAIN after = DOMAIN b
    BY <1>3
  <2>4. after[n] = c /\ \A i \in DOMAIN b : i # n => after[i] = b[i]
    BY <1>1, <1>3, <2>2
  <2> QED
    BY <1>1, <2>2, <2>3, <2>4
<1> QED
  BY <1>2, <1>3

LEMMA CopyStep == ASSUME CliInv, NEW p \in Cli, Copy(p) PROVE CliInv'
<1>1. FileTypes /\ LearningInv /\ JobsInv /\ TextsInv /\ BackupInv
  BY DEF CliInv
<1> DEFINE X == Seq(Entries) \cup {Blank}
           now == files["settings"]
<1>2. /\ job[p].at = "copy" /\ job' = [job EXCEPT ![p].at = "tmp"]
      /\ backup' = Append(backup, now) \/ (backup # <<>> /\ backup' = [backup EXCEPT ![Len(backup)] = now])
      /\ UNCHANGED <<learningVars, files, tmp, service, acked, excused>>
  BY DEF Copy
<1>3. job[p].at \in Writing /\ job[p].at \in Renaming /\ "tmp" \in Writing
  BY <1>2 DEF Writing, InPlace, Renaming, Copied
<1>4. FileOf(Here(p)) = "settings" /\ AtSettings(p)
  BY <1>1, <1>2, <1>3, HeldIs DEF AtSettings
<1>5. now # Absent /\ now \in X
  <2>1. now # Absent
    BY <1>1, <1>3, <1>4 DEF BackupInv
  <2>2. now \in Seq(Entries) \cup {Absent, Blank}
    BY <1>1 DEF FileTypes, Files, LinesOf
  <2> QED
    BY <2>1, <2>2
<1>6. backup \in Seq(X)
  BY <1>1 DEF FileTypes
<1> HIDE DEF X
<1>7. /\ backup' \in Seq(X) /\ \E i \in DOMAIN backup' : backup'[i] = now
      /\ \A i \in DOMAIN backup' : backup'[i] = now \/ (i \in DOMAIN backup /\ backup'[i] = backup[i])
      /\ \A i \in DOMAIN backup : i \in DOMAIN backup'
  <2>1. PICK after : after = backup'
    OBVIOUS
  <2>2. after = Append(backup, now) \/ (backup # <<>> /\ after = [backup EXCEPT ![Len(backup)] = now])
    BY <1>2, <2>1
  <2> HIDE DEF now
  <2> QED
    BY <1>5, <1>6, <2>1, <2>2, CopyMeans
<1>8. LearningInv' /\ SuggestionsGrow
  BY <1>1, <1>2, SameLearning
<1>9. /\ job' \in [Cli -> Job] /\ \A q \in Cli \ {p} : job'[q] = job[q]
      /\ job'[p].at = "tmp" /\ job'[p].seen = job[p].seen /\ job'[p].todo = job[p].todo
  BY <1>1, <1>2, <1>3, AtMeans
<1>10. ExcusesGrow
  BY <1>1, <1>2, NoneExcused
<1>11. JobsInv'
  BY <1>1, <1>2, <1>3, <1>8, <1>10, PartKeeps DEF InPlace, Renaming, Copied
<1>12. FileTypes'
  BY <1>1, <1>2, <1>7, <1>9 DEF FileTypes, X
<1>13. TextsInv'
  <2>1. \A q \in Cli : job'[q] = job[q] \/ (job[q].at = "fill" => excused'[FileOf(Here(q))] # {})
    BY <1>2, <1>9
  <2>2. \A f \in Files : Sound(f, TextOf(tmp'[f]), Settled)
    BY <1>1, <1>2 DEF TextsInv
  <2> QED
    BY <1>1, <1>2, <1>8, <1>10, <2>1, <2>2, TextsKeep
<1>14. ASSUME NEW e, Has(Text("settings"), e) PROVE Saved(e)'
  <2>1. now # Blank /\ Has(now, e)
    BY <1>14, HasNothing DEF Text
  <2> HIDE DEF now
  <2> QED
    BY <1>7, <2>1 DEF Saved
<1>15. BackupInv'
  <2>1. Text("settings")' = Text("settings")
    BY <1>2 DEF Text
  <2>2. ASSUME NEW q \in Cli, AtSettings(q)'
        PROVE  /\ AtSettings(q) /\ job'[q].seen = job[q].seen
               /\ job'[q].at \in Renaming => job[q].at \in Renaming
               /\ job'[q].at \in InPlace => job[q].at \in InPlace
    <3>1. CASE q = p
      BY <1>3, <1>4, <1>9, <3>1 DEF InPlace
    <3>2. CASE q # p
      BY <1>9, <2>2, <3>2, StillAtSame DEF StillAt
    <3> QED
      BY <3>1, <3>2
  <2>3. ASSUME NEW q \in Cli, AtSettings(q)', job'[q].at \in Renaming PROVE files'["settings"] # Absent
    BY <1>1, <1>2, <2>2, <2>3 DEF BackupInv
  <2>4. ASSUME excused'["settings"] = {}, NEW e \in Entries, ~ Removable(e)
        PROVE  \A q \in Cli : AtSettings(q)' /\ Has(TextOf(job'[q].seen), e) =>
                     /\ e # Odd => Has(Text("settings")', e)
                     /\ job'[q].at \in Copied /\ Has(Text("settings")', e) => Saved(e)'
    <3>1. \A q \in Cli : AtSettings(q) /\ Has(TextOf(job[q].seen), e) /\ e # Odd => Has(Text("settings"), e)
      BY <1>1, <1>2, <2>4 DEF BackupInv
    <3> QED
      BY <1>14, <2>1, <2>2, <3>1
  <2>5. ASSUME excused'["settings"] = {}, NEW q \in Cli, AtSettings(q)', job'[q].at \in InPlace
        PROVE  job'[q].seen = Absent
    BY <1>1, <1>2, <2>2, <2>5 DEF BackupInv
  <2> QED
    BY <2>3, <2>4, <2>5 DEF BackupInv, TextOf
<1> QED
  BY <1>8, <1>11, <1>12, <1>13, <1>15 DEF CliInv

LEMMA PurgeStep == ASSUME CliInv, NEW p \in Cli, Purge(p) PROVE CliInv'
<1>1. FileTypes /\ LearningInv /\ JobsInv /\ TextsInv /\ BackupInv
  BY DEF CliInv
<1>2. /\ job[p].at = "stage" /\ Here(p).kind = "purge"
      /\ files' = [files EXCEPT !["rules"] = Absent, !["ingest"] = Absent]
      /\ tmp' = [tmp EXCEPT !["rules"] = Absent]
      /\ acked' = [acked EXCEPT !["rules"] = {}, !["ingest"] = {}]
      /\ observed' = <<>> /\ recording' = [r \in Recorders |-> None]
      /\ suggestions' = [q \in Patterns |-> None]
      /\ Advance(p) /\ UNCHANGED <<backup, service, excused>>
  BY DEF Purge
<1>3. job[p] # Idle /\ job[p].at # "idle" /\ job[p].at # "fill"
  BY <1>2 DEF Idle
<1>4. Purging(p)
  BY <1>1, <1>2, <1>3, HereIs DEF Purging
<1>5. \A q \in Cli \ {p} : job[q] = Idle
  BY <1>1, <1>4 DEF JobsInv, PlaceInv
<1>6. Moved(p)
  BY <1>1, <1>2, <1>3, <1>4, AdvanceMoves
<1>7. LearningInv'
  <2>1. LearningTypeOK'
    BY <1>2 DEF LearningTypeOK
  <2> QED
    BY <1>2, <2>1 DEF LearningInv, InFlightInv, SuggestedInv
<1>8. /\ files' \in [Files -> Seq(AllLines) \cup {Absent, Blank}]
      /\ files'["rules"] = Absent /\ files'["ingest"] = Absent /\ files'["settings"] = files["settings"]
  <2>1. files \in [Files -> Seq(AllLines) \cup {Absent, Blank}]
    BY <1>1 DEF FileTypes
  <2>2. files' = [[files EXCEPT !["rules"] = Absent] EXCEPT !["ingest"] = Absent]
    BY <1>2
  <2> QED
    BY <2>1, <2>2 DEF Files
<1>9. /\ acked' \in [Files -> SUBSET AllLines]
      /\ acked'["rules"] = {} /\ acked'["ingest"] = {} /\ acked'["settings"] = acked["settings"]
  <2>1. acked \in [Files -> SUBSET AllLines]
    BY <1>1 DEF FileTypes
  <2>2. acked' = [[acked EXCEPT !["rules"] = {}] EXCEPT !["ingest"] = {}]
    BY <1>2
  <2> QED
    BY <2>1, <2>2 DEF Files
<1>10. /\ tmp' \in [Files -> Seq(AllLines) \cup {Absent, Blank}] /\ tmp'["rules"] = Absent
       /\ tmp'["ingest"] = tmp["ingest"] /\ tmp'["settings"] = tmp["settings"]
  <2>1. tmp \in [Files -> Seq(AllLines) \cup {Absent, Blank}]
    BY <1>1 DEF FileTypes
  <2> QED
    BY <1>2, <2>1 DEF Files
<1>11. FileTypes'
  <2>1. ASSUME NEW g \in Files
        PROVE  /\ files'[g] \in Seq(LinesOf(g)) \cup {Absent, Blank}
               /\ tmp'[g] \in Seq(LinesOf(g)) \cup {Absent, Blank}
               /\ acked'[g] \subseteq LinesOf(g)
    <3>1. /\ files[g] \in Seq(LinesOf(g)) \cup {Absent, Blank}
          /\ tmp[g] \in Seq(LinesOf(g)) \cup {Absent, Blank} /\ acked[g] \subseteq LinesOf(g)
      BY <1>1 DEF FileTypes
    <3> QED
      BY <1>8, <1>9, <1>10, <3>1 DEF Files
  <2> QED
    BY <1>1, <1>2, <1>6, <1>8, <1>9, <1>10, <2>1 DEF FileTypes, Moved
<1>12. JobsInv'
  <2>1. ASSUME NEW q \in Cli, q # p PROVE TodoInv(q)' /\ PlaceInv(q)' /\ WriteInv(q)'
    <3>1. job'[q] = Idle
      BY <1>5, <1>6, <2>1 DEF Moved
    <3>2. DOMAIN job'[q].todo = {} /\ job'[q].at = "idle" /\ job'[q].at \notin Writing
      BY <3>1, IdleType DEF Writing, InPlace, Renaming, Copied
    <3>3. TodoInv(q)' /\ WriteInv(q)'
      BY <3>2 DEF TodoInv, WriteInv
    <3>4. PlaceInv(q)'
      BY <3>1, <3>2 DEF PlaceInv, Purging, Idle
    <3> QED
      BY <3>3, <3>4
  <2>2. WriteInv(p)' /\ TodoInv(p)'
    BY <1>6 DEF Moved, WriteInv
  <2>3. PlaceInv(p)'
    <3>1. \A q \in Cli \ {p} : job'[q] = Idle
      BY <1>5, <1>6 DEF Moved
    <3> QED
      BY <1>6, <3>1 DEF Moved, PlaceInv, Idle
  <2> QED
    BY <2>1, <2>2, <2>3 DEF JobsInv
<1>13. Text("rules")' = <<>> /\ Text("ingest")' = <<>> /\ Text("settings")' = Text("settings")
  BY <1>8 DEF Text
<1>14. TextsInv'
  <2>1. ASSUME NEW g \in Files
        PROVE  Sound(g, Text(g)', Settled') /\ Sound(g, TextOf(tmp'[g]), Settled')
    <3>1. CASE g = "rules"
      BY <1>10, <1>13, <3>1, SoundNothing DEF TextOf
    <3>2. CASE g = "ingest"
      BY <3>2 DEF Sound
    <3>3. CASE g = "settings"
      <4>1. Sound("settings", Text("settings"), Settled)
            /\ Sound("settings", TextOf(tmp["settings"]), Settled)
        BY <1>1 DEF TextsInv, Files
      <4>2. \A t : Sound("settings", t, Settled) => Sound("settings", t, Settled')
        BY DEF Sound
      <4> QED
        BY <1>10, <1>13, <3>3, <4>1, <4>2
    <3> QED
      BY <3>1, <3>2, <3>3 DEF Files
  <2>2. ASSUME NEW g \in Files, excused'[g] = {}, NEW line \in acked'[g]
        PROVE  Has(Text(g)', line) \/ InFlight(g, line)'
    <3>1. g = "settings" /\ line \in acked["settings"] /\ excused["settings"] = {}
      BY <1>2, <1>9, <2>2 DEF Files
    <3>2. Has(Text("settings"), line) \/ InFlight("settings", line)
      BY <1>1, <2>2, <3>1, KeptMeans DEF TextsInv
    <3>3. ~ InFlight("settings", line)
      BY <1>3, <1>5, IdleType DEF InFlight
    <3> QED
      BY <1>13, <3>1, <3>2, <3>3
  <2>3. AcknowledgedKept'
    BY <2>2, KeptMeans
  <2>4. \A e \in acked'["settings"] : ~ Removable(e) /\ e # Odd
    BY <1>1, <1>9 DEF TextsInv
  <2> QED
    BY <2>1, <2>3, <2>4 DEF TextsInv, TextOf
<1>15. BackupInv'
  <2>1. \A q \in Cli : StillAt(q)
    BY <1>6, StillAtMoved DEF Moved
  <2>2. EntriesStay
    BY <1>13 DEF EntriesStay
  <2>3. ExcusesGrow
    BY <1>1, <1>2, NoneExcused
  <2> QED
    BY <1>1, <1>2, <1>8, <2>1, <2>2, <2>3, BackupKeeps
<1> QED
  BY <1>7, <1>11, <1>12, <1>14, <1>15 DEF CliInv

(* Of the marked hooks a text has, what is kept of it has no more.           *)
LEMMA OnlyOneHook ==
    ASSUME NEW X, NEW s \in Seq(X), NEW T, OneHook(s)
    PROVE  OneHook(Only(s, T))
<1> DEFINE w == Only(s, T)
<1>1. w \in Seq(X) /\ \E p : Places(p, w, s, Len(s), T)
  BY OnlyPlaces
<1> HIDE DEF w
<1>2. PICK p : Places(p, w, s, Len(s), T)
  BY <1>1
<1>3. /\ DOMAIN w = 1 .. Len(w) /\ DOMAIN s = 1 .. Len(s) /\ Len(w) \in Nat /\ Len(s) \in Nat
  BY <1>1
<1>4. \A k \in 1 .. Len(w) : p[k] \in 1 .. Len(s) /\ w[k] = s[p[k]]
  BY <1>2 DEF Places
<1>5. ASSUME NEW i \in 1 .. Len(w), NEW j \in 1 .. Len(w), IsHomnEntry(w[i]), IsHomnEntry(w[j])
      PROVE  i = j
  <2>1. p[i] = p[j]
    BY <1>3, <1>4, <1>5 DEF OneHook
  <2>2. \A x, y \in 1 .. Len(w) : x < y => p[x] < p[y]
    BY <1>2 DEF Places
  <2>3. ~ (i < j) /\ ~ (j < i)
    BY <1>3, <1>4, <2>1, <2>2
  <2> QED
    BY <1>3, <2>3
<1> QED
  BY <1>3, <1>5 DEF OneHook, w

LEMMA UserStep == ASSUME CliInv, NEW e \in UserEntries, UserAddsEntry(e) PROVE CliInv'
<1>1. FileTypes /\ LearningInv /\ JobsInv /\ TextsInv /\ BackupInv
  BY DEF CliInv
<1> DEFINE old == Text("settings")
           kept == Only(old, Entries \ {Odd})
           new == Append(kept, e)
<1>2. /\ files' = [files EXCEPT !["settings"] = new]
      /\ acked' = IF Removable(e) THEN acked ELSE [acked EXCEPT !["settings"] = acked["settings"] \cup {e}]
      /\ UNCHANGED <<learningVars, tmp, backup, service, job, excused>>
  BY DEF UserAddsEntry
<1>3. e \in Entries /\ ~ IsHomnEntry(e) /\ LinesOf("settings") = Entries /\ Entries \subseteq AllLines
  BY LinesAssumption DEF Entries, IsHomnEntry, LinesOf, AllLines
<1>4. old \in Seq(Entries)
  <2>1. files["settings"] \in Seq(Entries) \cup {Absent, Blank}
    BY <1>1, <1>3 DEF FileTypes, Files
  <2>2. <<>> \in Seq(Entries)
    OBVIOUS
  <2> QED
    BY <2>1, <2>2 DEF Text
<1> HIDE DEF old
<1>4a. kept \in Seq(Entries) /\ \A y : Has(kept, y) <=> Has(old, y) /\ y \in Entries \ {Odd}
  BY <1>4, OnlyHas
<1>4b. OneHook(kept)
  <2>1. OneHook(old)
    BY <1>1 DEF TextsInv, Sound, Files, old
  <2> QED
    BY <1>4, <2>1, OnlyOneHook
<1> HIDE DEF kept
<1>5. new \in Seq(Entries) /\ \A y : Has(new, y) <=> Has(kept, y) \/ y = e
  BY <1>3, <1>4a, HasAppend
<1>6. OneHook(new)
  <2>2. /\ DOMAIN new = 1 .. Len(kept) + 1 /\ Len(kept) \in Nat /\ DOMAIN kept = 1 .. Len(kept)
        /\ new[Len(kept) + 1] = e /\ \A i \in 1 .. Len(kept) : new[i] = kept[i]
    BY <1>3, <1>4a
  <2> HIDE DEF new
  <2>3. \A i \in DOMAIN new : IsHomnEntry(new[i]) => i \in DOMAIN kept /\ IsHomnEntry(kept[i])
    <3> SUFFICES ASSUME NEW i \in 1 .. Len(kept) + 1, IsHomnEntry(new[i])
                 PROVE  i \in DOMAIN kept /\ IsHomnEntry(kept[i])
      BY <2>2
    <3>1. i # Len(kept) + 1
      BY <1>3, <2>2
    <3>2. i \in 1 .. Len(kept)
      BY <2>2, <3>1
    <3> QED
      BY <2>2, <3>2
  <2>4. \A i \in 1 .. Len(kept) : new[i] = kept[i]
    BY <2>2
  <2> QED
    BY <1>4b, <2>2, <2>3, <2>4 DEF OneHook
<1> HIDE DEF new
<1>7. new \notin {Absent, Blank} /\ new \in Seq(AllLines)
  BY <1>3, <1>5, SeqWiden, MarksAssumption DEF Files
<1>8. /\ files' \in [Files -> Seq(AllLines) \cup {Absent, Blank}] /\ files'["settings"] = new
      /\ files'["rules"] = files["rules"] /\ files'["ingest"] = files["ingest"]
  BY <1>1, <1>2, <1>7 DEF FileTypes, Files
<1>9. Text("settings")' = new /\ Text("rules")' = Text("rules") /\ Text("ingest")' = Text("ingest")
  BY <1>7, <1>8 DEF Text
<1>10. /\ acked' \in [Files -> SUBSET AllLines]
       /\ acked'["rules"] = acked["rules"] /\ acked'["ingest"] = acked["ingest"]
       /\ acked["settings"] \subseteq acked'["settings"]
       /\ \A y \in acked'["settings"] : y \in acked["settings"] \/ (y = e /\ ~ Removable(e))
  <2>1. acked \in [Files -> SUBSET AllLines] /\ acked["settings"] \cup {e} \in SUBSET AllLines
    BY <1>1, <1>3 DEF FileTypes, Files
  <2> QED
    BY <1>2, <2>1 DEF Files
<1>11. FileTypes'
  <2>1. ASSUME NEW g \in Files
        PROVE  /\ files'[g] \in Seq(LinesOf(g)) \cup {Absent, Blank}
               /\ tmp'[g] \in Seq(LinesOf(g)) \cup {Absent, Blank}
               /\ acked'[g] \subseteq LinesOf(g)
    <3>1. /\ files[g] \in Seq(LinesOf(g)) \cup {Absent, Blank}
          /\ tmp[g] \in Seq(LinesOf(g)) \cup {Absent, Blank} /\ acked[g] \subseteq LinesOf(g)
      BY <1>1 DEF FileTypes
    <3> QED
      BY <1>2, <1>3, <1>5, <1>8, <1>10, <3>1 DEF Files
  <2> QED
    BY <1>1, <1>2, <1>8, <1>10, <2>1 DEF FileTypes
<1>12. LearningInv' /\ SuggestionsGrow
  BY <1>1, <1>2, SameLearning
<1>13. ExcusesGrow
  BY <1>1, <1>2, NoneExcused
<1>14. JobsInv'
  BY <1>1, <1>2, <1>12, <1>13, JobsStay
<1>15. ASSUME NEW g \in Files, excused'[g] = {}, NEW line \in acked'[g]
       PROVE  Has(Text(g)', line) \/ InFlight(g, line)'
  <2>1. InFlight(g, line) => InFlight(g, line)'
    BY <1>2 DEF InFlight, FileOf, Here
  <2>2. CASE line \in acked[g]
    <3>1. Has(Text(g), line) \/ InFlight(g, line)
      BY <1>1, <1>2, <1>15, <2>2, KeptMeans DEF TextsInv
    <3>2. g = "settings" => line \in Entries \ {Odd}
      BY <1>1, <1>3, <2>2 DEF TextsInv, FileTypes, Files
    <3> QED
      BY <1>4a, <1>5, <1>9, <2>1, <3>1, <3>2 DEF Files, old
  <2>3. CASE g = "settings" /\ line = e
    BY <1>5, <1>9, <2>3
  <2> QED
    BY <1>10, <1>15, <2>2, <2>3 DEF Files
<1>16. TextsInv'
  <2>1. ASSUME NEW g \in Files
        PROVE  Sound(g, Text(g)', Settled') /\ Sound(g, TextOf(tmp'[g]), Settled')
    <3>1. Sound(g, Text(g), Settled) /\ Sound(g, TextOf(tmp[g]), Settled)
      BY <1>1 DEF TextsInv
    <3>2. Settled \subseteq Settled'
      BY <1>12, SettledGrows
    <3>3. Sound(g, Text(g)', Settled')
      <4>1. CASE g = "settings"
        BY <1>6, <1>9, <4>1 DEF Sound
      <4>2. CASE g # "settings"
        <5>1. Text(g)' = Text(g)
          BY <1>9, <4>2 DEF Files
        <5> QED
          BY <3>1, <3>2, <5>1, SoundGrows
      <4> QED
        BY <4>1, <4>2
    <3> QED
      BY <1>2, <3>1, <3>2, <3>3, SoundGrows
  <2>2. AcknowledgedKept'
    BY <1>15, KeptMeans
  <2>3. \A y \in acked'["settings"] : ~ Removable(y) /\ y # Odd
    BY <1>1, <1>10, LinesAssumption DEF TextsInv
  <2> QED
    BY <2>1, <2>2, <2>3 DEF TextsInv, TextOf
<1>17. BackupInv'
  <2>1. \A q \in Cli : StillAt(q)
    BY <1>2, StillAtSame
  <2>2. EntriesStay
    BY <1>4a, <1>5, <1>9, LinesAssumption DEF EntriesStay, old
  <2> QED
    BY <1>1, <1>2, <1>7, <1>8, <1>13, <2>1, <2>2, BackupKeeps
<1> QED
  BY <1>11, <1>12, <1>14, <1>16, <1>17 DEF CliInv

(* The file is left in another shape; what that drops is acknowledged no     *)
(* longer.                                                                   *)
LEMMA SpoilStep == ASSUME CliInv, UserSpoils PROVE CliInv'
<1>1. FileTypes /\ LearningInv /\ JobsInv /\ TextsInv /\ BackupInv
  BY DEF CliInv
<1> DEFINE busy == \E p \in Cli : job[p].at \notin {"idle", "stage"} /\ FileOf(Here(p)) = "settings"
           new == <<Odd>>
<1>2. /\ files' = [files EXCEPT !["settings"] = new] /\ acked' = [acked EXCEPT !["settings"] = {}]
      /\ Excuse("settings", "raced", busy)
      /\ UNCHANGED <<learningVars, tmp, backup, service, job>>
  BY DEF UserSpoils
<1>3. "settings" \in Files /\ LinesOf("settings") = Entries /\ Entries \subseteq AllLines /\ Odd \in Entries
  BY DEF Entries, LinesOf, AllLines, Files
<1>4. new \in Seq(Entries) /\ DOMAIN new = {1}
  BY <1>3
<1>5. OneHook(new)
  BY <1>4 DEF OneHook
<1> HIDE DEF new
<1>6. new \notin {Absent, Blank} /\ new \in Seq(AllLines)
  BY <1>3, <1>4, SeqWiden, MarksAssumption
<1>7. /\ files' \in [Files -> Seq(AllLines) \cup {Absent, Blank}] /\ files'["settings"] = new
      /\ \A g \in Files : g # "settings" => files'[g] = files[g]
  BY <1>1, <1>2, <1>3, <1>6 DEF FileTypes
<1>8. /\ acked' \in [Files -> SUBSET AllLines] /\ acked'["settings"] = {}
      /\ \A g \in Files : g # "settings" => acked'[g] = acked[g]
  BY <1>1, <1>2, <1>3 DEF FileTypes
<1>9. Text("settings")' = new /\ \A g \in Files : g # "settings" => Text(g)' = Text(g)
  BY <1>6, <1>7 DEF Text
<1>10. /\ excused' \in [Files -> SUBSET {"torn", "raced", "misread"}] /\ ExcusesGrow
       /\ busy => excused'["settings"] # {}
  <2>1. busy \in BOOLEAN
    OBVIOUS
  <2> HIDE DEF busy
  <2> QED
    BY <1>1, <1>2, <1>3, <2>1, ExcuseMeans
<1>11. FileTypes'
  <2>1. \A g \in Files : /\ files'[g] \in Seq(LinesOf(g)) \cup {Absent, Blank}
                         /\ acked'[g] \subseteq LinesOf(g)
    BY <1>1, <1>3, <1>4, <1>7, <1>8 DEF FileTypes
  <2> QED
    BY <1>1, <1>2, <1>7, <1>8, <1>10, <2>1 DEF FileTypes
<1>12. LearningInv' /\ SuggestionsGrow
  BY <1>1, <1>2, SameLearning
<1>13. JobsInv'
  BY <1>1, <1>2, <1>10, <1>12, JobsStay
<1>14. ASSUME NEW g \in Files, excused'[g] = {}, NEW line \in acked'[g]
       PROVE  Has(Text(g)', line) \/ InFlight(g, line)'
  <2>1. g # "settings" /\ line \in acked[g] /\ excused[g] = {}
    BY <1>8, <1>10, <1>14 DEF ExcusesGrow
  <2>2. Has(Text(g), line) \/ InFlight(g, line)
    BY <1>1, <1>14, <2>1, KeptMeans DEF TextsInv
  <2>3. InFlight(g, line) => InFlight(g, line)'
    BY <1>2 DEF InFlight, FileOf, Here
  <2> QED
    BY <1>9, <2>1, <2>2, <2>3
<1>15. TextsInv'
  <2>1. ASSUME NEW g \in Files
        PROVE  Sound(g, Text(g)', Settled') /\ Sound(g, TextOf(tmp'[g]), Settled')
    <3>1. Sound(g, Text(g), Settled) /\ Sound(g, TextOf(tmp[g]), Settled)
      BY <1>1 DEF TextsInv
    <3>2. Settled \subseteq Settled'
      BY <1>12, SettledGrows
    <3>3. Sound(g, Text(g)', Settled')
      <4>1. CASE g = "settings"
        BY <1>5, <1>9, <4>1 DEF Sound
      <4>2. CASE g # "settings"
        BY <1>9, <3>1, <3>2, <4>2, SoundGrows
      <4> QED
        BY <4>1, <4>2
    <3> QED
      BY <1>2, <3>1, <3>2, <3>3, SoundGrows
  <2>2. AcknowledgedKept'
    BY <1>14, KeptMeans
  <2> QED
    BY <1>8, <2>1, <2>2 DEF TextsInv, TextOf
<1>16. BackupInv'
  <2>1. ASSUME excused'["settings"] = {}, NEW q \in Cli PROVE ~ AtSettings(q)'
    <3>1. ~ AtSettings(q)
      BY <1>10, <2>1 DEF AtSettings, Writing, InPlace, Renaming, Copied
    <3> QED
      BY <1>2, <3>1, StillAtSame DEF StillAt
  <2> QED
    BY <1>6, <1>7, <2>1 DEF BackupInv
<1> QED
  BY <1>11, <1>12, <1>13, <1>15, <1>16 DEF CliInv

-----------------------------------------------------------------------------
(* The invariant.                                                            *)

LEMMA InitHolds == Init => CliInv
<1> SUFFICES ASSUME Init PROVE CliInv
  OBVIOUS
<1>1. /\ LearningInit /\ files = [f \in Files |-> Absent] /\ tmp = [f \in Files |-> Absent]
      /\ backup = <<>> /\ service = FALSE /\ job = [p \in Cli |-> Idle]
      /\ acked = [f \in Files |-> {}] /\ excused = [f \in Files |-> {}]
  BY DEF Init
<1>2. LearningInv
  <2>1. LearningTypeOK
    BY <1>1 DEF LearningInit, LearningTypeOK
  <2> QED
    BY <1>1, <2>1 DEF LearningInit, LearningInv, InFlightInv, SuggestedInv
<1>3. \A p \in Cli : job[p] = Idle
  BY <1>1
<1>4. FileTypes
  <2>1. backup \in Seq(Seq(Entries) \cup {Blank})
    BY <1>1
  <2>2. job \in [Cli -> Job]
    BY <1>1, IdleType
  <2> QED
    BY <1>1, <2>1, <2>2 DEF FileTypes
<1>5. JobsInv
  <2> SUFFICES ASSUME NEW p \in Cli PROVE TodoInv(p) /\ PlaceInv(p) /\ WriteInv(p)
    BY DEF JobsInv
  <2>1. DOMAIN job[p].todo = {} /\ job[p].at = "idle" /\ job[p].at \notin Writing
    BY <1>3, IdleType DEF Writing, InPlace, Renaming, Copied
  <2> QED
    BY <1>3, <2>1 DEF TodoInv, PlaceInv, WriteInv, Purging
<1>6. \A f \in Files : Text(f) = <<>> /\ tmp[f] = Absent /\ files[f] = Absent /\ acked[f] = {}
  BY <1>1 DEF Text
<1>7. TextsInv
  <2>1. AcknowledgedKept
    BY <1>6 DEF AcknowledgedKept
  <2> QED
    BY <1>6, <2>1, SoundNothing DEF TextsInv, Files, TextOf
<1>8. BackupInv
  <2>1. \A p \in Cli : ~ AtSettings(p)
    BY <1>3, IdleType DEF AtSettings, Writing, InPlace, Renaming, Copied
  <2>2. \A e : ~ Saved(e)
    <3>1. DOMAIN backup = {}
      BY <1>1
    <3> QED
      BY <3>1 DEF Saved
  <2> QED
    BY <2>1, <2>2 DEF BackupInv
<1> QED
  BY <1>2, <1>4, <1>5, <1>7, <1>8 DEF CliInv

LEMMA StandStill == ASSUME CliInv, UNCHANGED cliVars PROVE CliInv'
<1>1. FileTypes /\ LearningInv /\ JobsInv /\ TextsInv /\ BackupInv
  BY DEF CliInv
<1>2. UNCHANGED <<learningVars, files, tmp, backup, service, job, acked, excused>>
  BY DEF cliVars, fileVars
<1>3. LearningInv' /\ SuggestionsGrow
  BY <1>1, <1>2, SameLearning
<1>4. FileTypes'
  BY <1>1, <1>2 DEF FileTypes
<1>5. ExcusesGrow
  BY <1>1, <1>2, NoneExcused
<1>6. JobsInv'
  BY <1>1, <1>2, <1>3, <1>5, JobsStay
<1>7. TextsInv' /\ BackupInv'
  <2>1. \A q \in Cli : Quiet(q)
    BY <1>2 DEF Quiet
  <2>2. \A f \in Files : Sound(f, TextOf(tmp'[f]), Settled)
    BY <1>1, <1>2 DEF TextsInv
  <2> QED
    BY <1>1, <1>2, <1>3, <1>5, <2>1, <2>2, QuietKeeps
<1> QED
  BY <1>3, <1>4, <1>6, <1>7 DEF CliInv

LEMMA NextKeeps == ASSUME CliInv, [Next]_cliVars PROVE CliInv'
<1>1. ASSUME NEW p \in Cli, Step(p) PROVE CliInv'
  <2>1. CASE \E c \in Commands : Issue(p, c)
    BY <2>1, IssueStep
  <2>2. CASE Read(p)
    BY <2>2, ReadStep
  <2>3. CASE ReadFails(p)
    BY <2>3, ReadFailsStep
  <2>4. CASE Misread(p)
    BY <2>4, MisreadStep
  <2>5. CASE Truncate(p)
    BY <2>5, TruncateStep
  <2>6. CASE Fill(p)
    BY <2>6, FillStep
  <2>7. CASE Copy(p)
    BY <2>7, CopyStep
  <2>8. CASE OpenTmp(p) \/ WriteTmp(p)
    BY <2>8, OpenTmpStep, WriteTmpStep
  <2>9. CASE Rename(p)
    BY <2>9, RenameStep
  <2>10. CASE RenameFails(p)
    BY <2>10, RenameFailsStep
  <2>11. CASE Mark(p)
    BY <2>11, MarkStep
  <2>12. CASE InstallService(p) \/ RemoveService(p)
    BY <2>12, ServiceStep
  <2>13. CASE Purge(p)
    BY <2>13, PurgeStep
  <2>14. CASE Kill(p)
    BY <2>14, KillStep
  <2> QED
    BY <1>1, <2>1, <2>2, <2>3, <2>4, <2>5, <2>6, <2>7, <2>8, <2>9, <2>10, <2>11, <2>12, <2>13,
       <2>14 DEF Step
<1>2. CASE Learn
  BY <1>2, LearnStep
<1>3. CASE \E e \in UserEntries : UserAddsEntry(e)
  BY <1>3, UserStep
<1>4. CASE UserSpoils
  BY <1>4, SpoilStep
<1>5. CASE UNCHANGED cliVars
  BY <1>5, StandStill
<1> QED
  BY <1>1, <1>2, <1>3, <1>4, <1>5 DEF Next

LEMMA Invariant == Spec => []CliInv
<1>1. CliInv /\ [Next]_cliVars => CliInv'
  BY NextKeeps
<1> QED
  BY <1>1, InitHolds, PTL DEF Spec

(* What is suggested rests on a run of Threshold equal answers, whatever is  *)
(* observed by other recorders, answered or purged between the three         *)
(* transactions of record_observation, at whatever times the clock says, and *)
(* is their answer wherever the call's own is one of them; and a learned     *)
(* rule is in the policy only behind an answered suggestion, whatever        *)
(* commands overlap or are killed (normalize, record_observation, accept,    *)
(* append_rule_to_policy).                                                   *)
THEOREM RulesAreEarned == Spec => []LearnedRulesAreEarned
<1>1. CliInv => LearnedRulesAreEarned
  <2> SUFFICES ASSUME CliInv PROVE LearnedRulesAreEarned
    OBVIOUS
  <2>1. SuggestionsAreEarned
    <3> SUFFICES ASSUME NEW p \in Patterns, suggestions[p] # None
                 PROVE  LET s == suggestions[p]
                        IN \E S \in Newest(observed, p, s.upto, Threshold) :
                              /\ Cardinality(S) = Threshold
                              /\ \A i, j \in S : observed[i].verb = observed[j].verb
                              /\ s.row \in S => \A i \in S : observed[i].verb = s.verb
      BY DEF SuggestionsAreEarned
    <3> DEFINE row == suggestions[p].row
               n == suggestions[p].upto
    <3>1. Earned(observed, p, n, row) /\ observed[row].verb = suggestions[p].verb
      BY DEF CliInv, LearningInv, SuggestedInv
    <3> HIDE DEF row, n
    <3>2. PICK S \in Newest(observed, p, n, Threshold) :
            Cardinality(S) = Threshold /\ \A i, j \in S : observed[i].verb = observed[j].verb
      BY <3>1 DEF Earned
    <3>3. row \in S => \A i \in S : observed[i].verb = suggestions[p].verb
      BY <3>1, <3>2
    <3> QED
      BY <3>2, <3>3 DEF row, n
  <2>2. PromotedOnlyIfAccepted
    <3>1. Promoted(Text("rules"), Settled)
      BY DEF CliInv, TextsInv, Sound, Files
    <3> QED
      BY <3>1 DEF Promoted, Settled, PromotedOnlyIfAccepted
  <2> QED
    BY <2>1, <2>2 DEF LearnedRulesAreEarned
<1> QED
  BY <1>1, Invariant, PTL

(* A line that was reported in a file, or that the user put in it, is in it  *)
(* until a command asked to takes it out, and the hook stands once, for any  *)
(* number of commands at once: a file has lost a line only when a write was  *)
(* cut off, two writers overlapped, or it could not be read (rule_command,   *)
(* append_rule_to_policy, add_exclude, remove_exclude, run_install,          *)
(* run_uninstall, run_setup).                                                *)
THEOREM LinesAreKept == Spec => []FilesKeepTheirLines
<1>1. CliInv => FilesKeepTheirLines
  <2> SUFFICES ASSUME CliInv PROVE FilesKeepTheirLines
    OBVIOUS
  <2>1. FileTypes /\ LearningInv /\ TextsInv
    BY DEF CliInv
  <2>2. TypeOK
    <3>1. \A p \in Cli : job[p].at \in {"idle", "stage", "truncate", "fill", "copy", "tmp", "tmp_fill", "rename"}
      BY <2>1, JobTypes DEF Writing, InPlace, Renaming, Copied
    <3>2. \A f \in Files : excused[f] \subseteq {"torn", "raced", "misread"}
      BY <2>1 DEF FileTypes
    <3> QED
      BY <2>1, <3>1, <3>2 DEF FileTypes, LearningInv, TypeOK
  <2>3. HookedOnce
    <3> DEFINE text == Text("settings")
               D == DOMAIN text
               ours == {i \in D : IsHomnEntry(text[i])}
    <3>1. OneHook(text)
      BY <2>1 DEF TextsInv, Sound, Files
    <3>2. Cardinality(ours) <= 1
      <4>1. CASE ours = {}
        <5>1. Cardinality({}) = 0
          BY FS_EmptySet
        <5> QED
          BY <4>1, <5>1
      <4>2. CASE ours # {}
        <5>1. PICK i : i \in ours
          BY <4>2
        <5>2. ours = {i}
          BY <3>1, <5>1 DEF OneHook
        <5> HIDE DEF ours
        <5>3. Cardinality({i}) = 1
          BY FS_Singleton
        <5> QED
          BY <5>2, <5>3
      <4> QED
        BY <4>1, <4>2
    <3> QED
      BY <3>2 DEF HookedOnce
  <2> QED
    BY <2>1, <2>2, <2>3 DEF TextsInv, FilesKeepTheirLines
<1> QED
  BY <1>1, Invariant, PTL

(* A rename over settings.json that is not excused by an overlap leaves a    *)
(* backup with every entry of others that it replaced (run_install and       *)
(* run_uninstall copy before they write, also when two copies fall into one  *)
(* second).                                                                  *)
THEOREM ReplacedIsBackedUp == Spec => BackedUp
<1> DEFINE Replaces(p) ==
             /\ job[p].at = "rename" /\ job'[p].at # "rename" /\ FileOf(Here(p)) = "settings"
             /\ files'.settings # files.settings /\ excused'.settings = {}
           Leaves == \A j \in DOMAIN Text("settings") :
                        \/ Removable(Text("settings")[j])
                        \/ \E i \in DOMAIN backup :
                               backup[i] # Blank /\ Has(backup[i], Text("settings")[j])
<1>1. CliInv /\ [Next]_cliVars => [\A p \in Cli : Replaces(p) => Leaves]_cliVars
  <2> SUFFICES ASSUME CliInv, Next, NEW p \in Cli, Replaces(p) PROVE Leaves
    OBVIOUS
  <2>1. FileTypes /\ BackupInv
    BY DEF CliInv
  <2>2. Rename(p)
    <3>1. ASSUME NEW q \in Cli, Step(q), ~ Rename(p) PROVE FALSE
      <4>1. files' # files /\ job'[p].at # "rename" /\ job[p].at = "rename"
        OBVIOUS
      <4>2. Truncate(q) \/ Fill(q) \/ Rename(q) \/ WriteTmp(q) \/ Purge(q)
        BY <3>1, <4>1 DEF Step, Issue, Read, ReadFails, Misread, Copy, OpenTmp, RenameFails, Mark,
                          InstallService, RemoveService, Kill, fileVars
      <4>3. q # p
        BY <3>1, <4>1, <4>2 DEF Truncate, Fill, WriteTmp, Purge
      <4>4. job'[p] = job[p]
        <5>1. job \in [Cli -> Job]
          BY <2>1 DEF FileTypes
        <5> QED
          BY <4>2, <4>3, <5>1 DEF Truncate, Fill, Rename, WriteTmp, Purge, Advance
      <4> QED
        BY <4>1, <4>4
    <3>2. ~ Learn
      BY DEF Learn, fileVars
    <3>3. ~ (\E e \in UserEntries : UserAddsEntry(e)) /\ ~ UserSpoils
      BY DEF UserAddsEntry, UserSpoils
    <3> QED
      BY <3>1, <3>2, <3>3 DEF Next
  <2>3. /\ job[p].at \in Writing /\ "settings" \in Files /\ AtSettings(p)
        /\ excused["settings"] = {} /\ files["settings"] = job[p].seen
    BY <2>2, RenameMeans DEF AtSettings
  <2>4. ASSUME NEW j \in DOMAIN Text("settings"), ~ Removable(Text("settings")[j])
        PROVE  Saved(Text("settings")[j])
    <3>1. PICK e : e = Text("settings")[j]
      OBVIOUS
    <3>2. e \in Entries
      <4>1. files["settings"] \in Seq(Entries) \cup {Absent, Blank}
        <5>1. LinesOf("settings") = Entries
          BY DEF LinesOf
        <5> QED
          BY <2>1, <2>3, <5>1 DEF FileTypes
      <4>2. Text("settings") \in Seq(Entries)
        <5>1. <<>> \in Seq(Entries)
          OBVIOUS
        <5> QED
          BY <4>1, <5>1 DEF Text
      <4> QED
        BY <2>4, <3>1, <4>2
    <3>3. Has(TextOf(job[p].seen), e)
      <4>1. TextOf(job[p].seen) = Text("settings")
        BY <2>3 DEF Text, TextOf
      <4> QED
        BY <2>4, <3>1, <4>1 DEF Has
    <3>4. Has(Text("settings"), e) /\ job[p].at \in Copied
      BY <2>2, <2>4, <3>1 DEF Has, Rename, Copied
    <3> QED
      BY <2>1, <2>3, <2>4, <3>1, <3>2, <3>3, <3>4 DEF BackupInv
  <2> QED
    BY <2>4 DEF Saved
<1>2. Spec => [][\A p \in Cli : Replaces(p) => Leaves]_cliVars
  BY <1>1, Invariant, PTL DEF Spec
<1> QED
  BY <1>2 DEF BackedUp
=============================================================================
