---------------------------- MODULE EvalHarness ----------------------------
(***************************************************************************)
(* `homn eval` (homn-eval): a capture database that is still being written *)
(* is replayed into a brain chunk by chunk, and a question set is scored   *)
(* against what the brain recalls; the score picks the brain that the      *)
(* project goes on with.  Nothing marks what has been replayed.  External: *)
(* agidb (it keeps an episode with its time, forgets what was not flushed  *)
(* when a run ends early, and ranks as it likes) and Screenpipe's tables.  *)
(***************************************************************************)
EXTENDS Integers, Sequences, FiniteSets, SequencesExt, FiniteSetsExt, Listing

CONSTANTS Inputs,            \* what is captured: source, app, text, a sequence of characters,
                             \* and how the timestamp is written
          Shapes,            \* what the capture database may look like
          Characters,        \* what a text is made of
          Newline, Blank,    \* two of them
          AllKinds,          \* QuestionKind::ALL
          RequiredPerKind,   \* REQUIRED_PER_KIND
          QuestionSets,      \* files of questions
          PerMinute,         \* instants in a minute
          Shift,             \* instants between local time and UTC
          None,
          EpisodeRef(_),     \* how an episode is referred to: "ep-" and its id, as a text
          MaxRows, MaxNow, MaxIngests, MaxK, MaxScored   \* bounds

Sources == <<"ocr", "audio", "dictation">>

Kinds == ToSet(AllKinds)

Stamps == [form : {"iso", "integer", "local", "short", "odd", "split"}, at : Nat]

ASSUME HarnessAssumption ==
    /\ RequiredPerKind \in Nat \ {0} /\ PerMinute \in Nat \ {0} /\ Shift \in Nat
    /\ MaxNow \in Nat /\ MaxIngests \in Nat
    /\ {Newline, Blank} \subseteq Characters

ASSUME InputsAssumption ==
    \A c \in Inputs : /\ c.label \in ToSet(Sources) /\ c.text \in Seq(Characters)
                      /\ [form |-> c.form, at |-> 0] \in Stamps

(* There are three kinds of questions, and every question is of one of them. *)
ASSUME KindsAssumption ==
    /\ Len(AllKinds) = 3 /\ AllKinds \in Seq(Kinds)
    /\ \A m, n \in DOMAIN AllKinds : AllKinds[m] = AllKinds[n] => m = n
    /\ \A set \in QuestionSets : DOMAIN set = 1 .. Len(set) /\ Len(set) \in Nat
    /\ \A set \in QuestionSets : \A i \in DOMAIN set : set[i].kind \in Kinds

VARIABLES
    now,       \* the time, in parts of a minute
    shape,     \* tables of the database, and whether there is a dictation file
    captured,  \* the rows of each source, in the order of their ids
    brain,     \* the episodes, in the order they were observed
    pc,        \* "idle", "read" or "store"
    left,      \* sources still to read
    read,      \* rows read so far, by source
    todo,      \* chunks still to observe, with their source
    began,     \* history: episodes the brain held when the run began
    report,    \* what the last run that ended well reports, or None
    result,    \* the last score, or None
    runs       \* how many runs have begun

vars == <<now, shape, captured, brain, pc, left, read, todo, began, report, result, runs>>

-----------------------------------------------------------------------------
(* Text.                                                                     *)

Trim(s) ==
    LET solid == {i \in DOMAIN s : s[i] \notin {Newline, Blank}}
    IN IF solid = {} THEN <<>> ELSE SubSeq(s, Min(solid), Max(solid))

ContainsText(s, part) ==
    \E i \in 1 .. Len(s) - Len(part) + 1 : SubSeq(s, i, i + Len(part) - 1) = part

LinesOf(s) ==
    LET ends == {0, Len(s) + 1} \cup {i \in DOMAIN s : s[i] = Newline}
    IN {SubSeq(s, b[1] + 1, b[2] - 1) :
          b \in {e \in ends \X ends : e[1] < e[2] /\ ~\E c \in ends : e[1] < c /\ c < e[2]}}

(* minute_key: a text of 16 bytes or more is cut to its minute, whatever it  *)
(* says and in whatever zone; seconds and millis are told apart by size.     *)
OddMinute == -1

MinuteKey(ts) ==
    CASE ts.form \in {"iso", "integer"} -> ts.at \div PerMinute
      [] ts.form = "local"              -> (ts.at + Shift) \div PerMinute
      [] ts.form = "odd"                -> OddMinute
      [] OTHER                          -> None

(* parse_minute, or the time of the replay for what is no minute.            *)
ValidTime_NoFallback(minute) == minute * PerMinute     \* mutant: what is no minute as well

ValidTime(minute) == IF minute = OddMinute THEN now ELSE minute * PerMinute

-----------------------------------------------------------------------------
(* chunk_rows.                                                               *)

SameRun_App(chunk, row) == chunk.app = row.app         \* mutant: whatever the minute

SameRun(chunk, row) == chunk.app = row.app /\ chunk.minute = row.minute

AlreadyPresent_Swapped(text, part) ==                  \* mutant: the line inside the text
    \E line \in LinesOf(text) : ContainsText(part, line)

(* text_already_present.                                                     *)
AlreadyPresent(text, part) == part \in LinesOf(text)

Folded(chunks, row) ==
    LET text == Trim(row.text)
        last == Last(chunks)
    IN IF text = <<>> THEN chunks
       ELSE IF chunks # <<>> /\ SameRun(last, row)
       THEN IF IsSuffix(text, last.text) \/ AlreadyPresent(last.text, text) THEN chunks
            ELSE Append(Front(chunks), [last EXCEPT !.text = @ \o <<Newline>> \o text])
       ELSE Append(chunks, [row EXCEPT !.text = text])

ChunkRows(rows) ==
    LET upto[n \in 0 .. Len(rows)] ==
            IF n = 0 THEN <<>> ELSE Folded(upto[n - 1], rows[n])
    IN upto[Len(rows)]

(* read_ocr, read_audio, read_dictation with no override: what there is of a *)
(* source, or None.  SQL leaves out empty texts except in the joined shape.  *)
Keeps(label, row) ==
    CASE label = "ocr"       -> shape.ocr = "joined" \/ row.text # <<>>
      [] label = "audio"     -> row.text # <<>>
      [] label = "dictation" -> Trim(row.text) # <<>> /\ row.ts.form # "integer"

(* The cut falls inside a character: the slice panics.                       *)
Panics(label) ==
    \E i \in DOMAIN captured[label] :
        captured[label][i].ts.form = "split" /\ Keeps(label, captured[label][i])

Present(label) ==
    CASE label = "ocr"       -> shape.ocr # "none"
      [] label = "audio"     -> shape.audio
      [] label = "dictation" -> shape.dictation

RawRow(label, row) ==
    [app |-> IF label = "dictation" THEN "dictation" ELSE row.app,
     minute |-> MinuteKey(row.ts), text |-> row.text, ts |-> row.ts]

Rows(label) ==
    LET good == {row \in ToSet(captured[label]) : Keeps(label, row) /\ MinuteKey(row.ts) # None}
        kept == Only(captured[label], good)
    IN [i \in DOMAIN kept |-> RawRow(label, kept[i])]

-----------------------------------------------------------------------------
(* The world.                                                                *)

Capture(c) ==
    /\ Present(c.label)
    /\ Len(captured["ocr"]) + Len(captured["audio"]) + Len(captured["dictation"]) < MaxRows
    /\ captured' = [captured EXCEPT ![c.label] =
                        Append(@, [app |-> c.app, ts |-> [form |-> c.form, at |-> now], text |-> c.text])]
    /\ UNCHANGED <<now, shape, brain, pc, left, read, todo, began, report, runs>>
    /\ result' = None

Tick ==
    /\ now < MaxNow
    /\ now' = now + 1
    /\ UNCHANGED <<shape, captured, brain, pc, left, read, todo, began, report, runs>>
    /\ result' = None

-----------------------------------------------------------------------------
(* `homn eval ingest`: replay_ingest.                                        *)

IngestStart ==
    /\ pc = "idle" /\ runs < MaxIngests
    /\ pc' = "read" /\ left' = Sources /\ read' = <<>> /\ todo' = <<>>
    /\ began' = Len(brain) /\ runs' = runs + 1 /\ report' = None
    /\ UNCHANGED <<now, shape, captured, brain>>
    /\ result' = None

(* The chunks of a source, each with its label, and of all the sources in     *)
(* their order.                                                              *)
Items(part) ==
    LET chunks == ChunkRows(part.rows)
    IN [j \in DOMAIN chunks |-> [label |-> part.label, chunk |-> chunks[j]]]

ItemsOf(parts) ==
    LET upto[n \in 0 .. Len(parts)] ==
            IF n = 0 THEN <<>> ELSE upto[n - 1] \o Items(parts[n])
    IN upto[Len(parts)]

Quit ==
    /\ pc' = "idle" /\ left' = <<>> /\ read' = <<>> /\ todo' = <<>>

(* read_rows, one source; the statements share no transaction.  With no      *)
(* source at all the run fails, and an unlucky timestamp ends the process.   *)
ReadSource ==
    LET label == Head(left)
        got == IF Present(label) THEN Append(read, [label |-> label, rows |-> Rows(label)])
               ELSE read
    IN /\ pc = "read"
       /\ IF \/ Present(label) /\ Panics(label)
             \/ Len(left) = 1 /\ got = <<>>
          THEN Quit
          ELSE /\ left' = Tail(left) /\ read' = got
               /\ pc' = IF Len(left) = 1 THEN "store" ELSE "read"
               /\ todo' = IF Len(left) > 1 THEN <<>> ELSE ItemsOf(got)
       /\ UNCHANGED <<now, shape, captured, brain, began, report, runs>>
       /\ result' = None

Episode(item) ==
    [label |-> item.label, at |-> ValidTime(item.chunk.minute), text |-> item.chunk.text]

Store ==
    /\ pc = "store" /\ todo # <<>>
    /\ brain' = Append(brain, Episode(Head(todo)))
    /\ todo' = Tail(todo)
    /\ UNCHANGED <<now, shape, captured, pc, left, read, began, report, runs>>
    /\ result' = None

(* observe fails or the process ends: what was not flushed may be gone.      *)
Fail ==
    /\ pc = "store"
    /\ \E n \in began .. Len(brain) : brain' = SubSeq(brain, 1, n)
    /\ Quit
    /\ UNCHANGED <<now, shape, captured, began, report, runs>>
    /\ result' = None

RowsRead_Chunks(parts) == Len(brain) - began           \* mutant: counted after chunking

RowsRead(parts) == Total([i \in DOMAIN parts |-> Len(parts[i].rows)])

(* flush, and the report.                                                    *)
Finish ==
    /\ pc = "store" /\ todo = <<>>
    /\ report' = [rows_read |-> RowsRead(read), chunks_stored |-> Len(brain) - began,
                  parts |-> read]
    /\ Quit
    /\ UNCHANGED <<now, shape, captured, brain, began, runs>>
    /\ result' = None

-----------------------------------------------------------------------------
(* `homn eval run`: validate, score, gate_verdict.                           *)

Validate_AnyBalance(set) ==                            \* mutant: the counts are not checked
    /\ \A i, j \in DOMAIN set : set[i].id = set[j].id => i = j
    /\ set # <<>> /\ \A i \in DOMAIN set : Trim(set[i].expected) # <<>>

Validate(set) ==
    /\ \A i, j \in DOMAIN set : set[i].id = set[j].id => i = j
    /\ \A kind \in Kinds :
          Cardinality({i \in DOMAIN set : set[i].kind = kind}) = RequiredPerKind
    /\ \A i \in DOMAIN set : Trim(set[i].expected) # <<>>

Top(matches, k) == SubSeq(matches, 1, Min({k, Len(matches)}))

(* The episodes, by their places in the brain, recall may answer with.       *)
Candidates(window) ==
    {n \in DOMAIN brain :
        window = None \/ (window.from <= brain[n].at /\ brain[n].at <= window.to)}

(* What agidb may find for a cue: any episodes in any order, none when it    *)
(* fails.  A query over a window is told k and answers with its first k.     *)
Rankings ==
    {r \in UNION {[1 .. n -> DOMAIN brain] : n \in 0 .. Len(brain)} :
        \A i, j \in DOMAIN r : r[i] = r[j] => i = j}

Recalled(window, ranking, k) ==
    LET matches == Only(ranking, Candidates(window))
    IN IF window = None THEN matches ELSE Top(matches, k)

Hit(n) == [reference |-> EpisodeRef(n), text |-> brain[n].text]

ToHits(matches, k) ==
    LET kept == Top(matches, k) IN [i \in DOMAIN kept |-> Hit(kept[i])]

IsHit(expected, hits, k) ==
    LET needle == Trim(expected)
    IN /\ needle # <<>>
       /\ \E hit \in ToSet(Top(hits, k)) :
             hit.reference = needle \/ ContainsText(hit.text, needle)

Verdict(hits, total) ==
    IF 10 * hits >= 7 * total THEN "AgidbAsIs"
    ELSE IF 10 * hits >= 4 * total THEN "RetrievalMerge" ELSE "StoreSwap"

(* Questions of set that are hits, recall cut to k and looked at up to upTo, *)
(* when found has the ranking agidb makes for each cue.                      *)
HitsAmong(set, found, k, upTo) ==
    {i \in DOMAIN set :
        IsHit(set[i].expected, ToHits(Recalled(set[i].window, found[set[i].cue], k), k), upTo)}

Cues(set) == {set[i].cue : i \in DOMAIN set}

ScoreOf(set, found, k) ==
    LET atK == HitsAmong(set, found, k, k)
    IN [k |-> k, set |-> set, found |-> found, total |-> Len(set),
        at_1 |-> Cardinality(HitsAmong(set, found, k, 1)),
        at_k |-> Cardinality(atK),
        per_kind |-> [kind \in Kinds |-> Cardinality({i \in atK : set[i].kind = kind})],
        verdict |-> Verdict(Cardinality(atK), Len(set))]

(* The verdict is about recall at 3 and is drawn at whatever k was asked.    *)
Score(set, k) ==
    /\ pc = "idle" /\ result = None /\ Len(brain) <= MaxScored
    /\ Validate(set)
    /\ \E found \in [Cues(set) -> Rankings] : result' = ScoreOf(set, found, k)
    /\ UNCHANGED <<now, shape, captured, brain, pc, left, read, todo, began, report, runs>>

Init ==
    /\ now = 0 /\ shape \in Shapes
    /\ captured = [label \in ToSet(Sources) |-> <<>>]
    /\ brain = <<>> /\ pc = "idle" /\ left = <<>> /\ read = <<>> /\ todo = <<>>
    /\ began = 0 /\ report = None /\ result = None /\ runs = 0

Next ==
    \/ Tick \/ IngestStart \/ ReadSource \/ Store \/ Fail \/ Finish
    \/ \E c \in Inputs : Capture(c)
    \/ \E set \in QuestionSets, k \in 0 .. MaxK : Score(set, k)

Spec == Init /\ [][Next]_vars

-----------------------------------------------------------------------------
(* Every variable has its type.                                              *)
TypeOK ==
    /\ now \in 0 .. MaxNow /\ shape \in Shapes /\ pc \in {"idle", "read", "store"}
    /\ began \in 0 .. Len(brain) /\ runs \in 0 .. MaxIngests
    /\ \A i \in DOMAIN brain :
          brain[i].label \in ToSet(Sources) /\ brain[i].at \in Nat /\ Trim(brain[i].text) # <<>>
    /\ pc # "idle" => report = None

(* Nothing that was read is lost by chunking: when a run reports, the text   *)
(* of every row that says something is whole in an episode of its source     *)
(* that this run stored (chunk_rows: folding, repeats, replay_ingest).       *)
EveryRowIsFound ==
    report # None =>
        \A i \in DOMAIN report.parts : \A j \in DOMAIN report.parts[i].rows :
            LET text == Trim(report.parts[i].rows[j].text)
            IN text # <<>> =>
                 \E e \in began + 1 .. Len(brain) :
                     brain[e].label = report.parts[i].label /\ ContainsText(brain[e].text, text)

(* A question whose window is made of whole minutes can reach everything     *)
(* that was captured in it, where the timestamp says when that was           *)
(* (minute_key, chunk_rows, parse_minute, recall_with_window).               *)
WindowFindsWhatItCovers ==
    report # None =>
        \A i \in DOMAIN report.parts : \A j \in DOMAIN report.parts[i].rows :
            LET row == report.parts[i].rows[j]
            IN row.ts.form \in {"iso", "integer"} /\ Trim(row.text) # <<>> =>
                 \A from \in {m * PerMinute : m \in 0 .. row.ts.at \div PerMinute} :
                     \E n \in Candidates([from |-> from, to |-> row.ts.at]) :
                         ContainsText(brain[n].text, Trim(row.text))

(* The report counts what the run did: one chunk at least for each app and   *)
(* minute that says something, and never more chunks than rows.              *)
ReportAccounts ==
    report # None =>
        LET Row(p)  == report.parts[p[1]].rows[p[2]]
            pairs   == UNION {{i} \X DOMAIN report.parts[i].rows : i \in DOMAIN report.parts}
            spoken  == {p \in pairs : Trim(Row(p).text) # <<>>}
            minutes == {<<p[1], Row(p).app, Row(p).minute>> : p \in spoken}
        IN /\ report.chunks_stored \in Cardinality(minutes) .. Cardinality(spoken)
           /\ Cardinality(spoken) <= report.rows_read

(* The brain is adopted as it is only when it has answered something of      *)
(* every kind: 70 % of a balanced set cannot come from two kinds             *)
(* (QuestionSet::validate, score, gate_verdict).                             *)
GateNeedsEveryKind ==
    result # None /\ result.verdict = "AgidbAsIs" => \A kind \in Kinds : result.per_kind[kind] > 0

(* A longer list never scores lower, the first place does not depend on its  *)
(* length, and the kinds add up to the whole, if agidb ranks the same        *)
(* whatever k it is told (score, recall_with_window, to_hits, is_hit).       *)
ScoreIsMonotone ==
    result # None =>
        LET wider == ScoreOf(result.set, result.found, result.k + 1)
        IN /\ result.at_1 <= result.at_k /\ result.at_k <= wider.at_k
           /\ result.k > 0 => result.at_1 = wider.at_1
           /\ Total([n \in DOMAIN AllKinds |-> result.per_kind[AllKinds[n]]]) = result.at_k

-----------------------------------------------------------------------------

(* Ingestion: what was captured is in the brain, in a minute a window over   *)
(* it finds, and the report adds up.                                         *)
EpisodesCoverTheCapture == TypeOK /\ EveryRowIsFound /\ WindowFindsWhatItCovers /\ ReportAccounts

(* Scoring: the gate adopts only a brain that answers every kind of          *)
(* question, and recall is monotone in k.                                    *)
GateIsSound == GateNeedsEveryKind /\ ScoreIsMonotone
=============================================================================
