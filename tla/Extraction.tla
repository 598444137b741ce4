----------------------------- MODULE Extraction -----------------------------
(***************************************************************************)
(* What ExtractingStore finds in a stored text (crates/homnd/src/          *)
(* extract.rs): promises and opinions by regular expressions, the day a    *)
(* promise names, and the object in a language model's reply (llm.rs).  A  *)
(* text is a sequence of words, full stops and line ends: no space stands  *)
(* before a full stop, one stands between words.                           *)
(***************************************************************************)
EXTENDS Integers, Sequences, FiniteSets, FiniteSetsExt, SequencesExt

CONSTANTS Absent, NL,
          Names,        \* the words of two letters or more: all the regexes take for names
          Tails,        \* the words that end in such a word
          Day,          \* what a word behind "by" may name: a function from words
          TopicWords,   \* topic_of takes so many
          DayLength,    \* ticks of a day; noon is in the middle
          Moments, Zones,
          Vocabularies, MaxLen,     \* the texts: words, and how many of them
          Open, Shut, Quote, Escape \* the bytes of a reply that matter

(* A name has two letters or more and nothing else.  A line end is no word.  *)
ASSUME WordsAssumption ==
    /\ Names \subseteq Tails /\ "I'll" \notin Names /\ "I" \notin Tails
    /\ NL \notin Tails \cup {".", "I", "I'll", "I'm", "actually:", "on", "second", "thought:"}
    /\ Absent \notin Int

ASSUME DaysAssumption ==
    /\ DayLength \in Nat \ {0} /\ Moments \subseteq Int /\ Zones \subseteq Int
    /\ DOMAIN Day \cap {".", NL} = {}
    /\ \A w \in DOMAIN Day :
           \/ Day[w].kind = "unknown"
           \/ Day[w].kind = "weekday" /\ Day[w].day \in 0 .. 6
           \/ Day[w].kind \in {"date", "offset"} /\ Day[w].day \in Nat

ASSUME TextsAssumption ==
    /\ MaxLen \in [Vocabularies -> Nat]
    /\ TopicWords \in Nat /\ TopicWords >= 2
    /\ Open \notin {Shut, Quote, Escape} /\ Shut \notin {Quote, Escape} /\ Quote # Escape

VARIABLES vocabulary, text

written == <<vocabulary, text>>

-----------------------------------------------------------------------------
(* RegexExtractor::new and RegexBeliefExtractor::new.  A pattern opens in    *)
(* one of several ways, each a sequence of classes of words; its body is     *)
(* lazy and stays in its line; it closes with "by" and a day, or a stop.     *)
(* "name" is the place of the other party among the opening words.           *)

Way(opens, owner, name) == [opens |-> opens, owner |-> owner, name |-> name]
Mine(opens) == Way(opens, "user", Absent)
Theirs(opens) == Way(opens, "them", 1)

IllBy      == [close |-> "by", ways |-> <<Mine(<<{"I'll"}>>)>>]
IWillBy    == [close |-> "by", ways |-> <<Mine(<<{"I"}, {"will"}>>)>>]
PromisedBy == [close |-> "by", ways |-> <<Theirs(<<Tails, {"promised"}>>)>>]
NameWillBy == [close |-> "by", ways |-> <<Theirs(<<Tails, {"will"}>>)>>]
Owes       == [close |-> "stop", ways |-> <<Way(<<{"I"}, {"owe"}, Names>>, "user", 3),
                                            Theirs(<<Tails, {"owes"}, {"me"}>>)>>]

Promises == <<IllBy, IWillBy, PromisedBy, NameWillBy, Owes>>

IThink   == [close |-> "stop", ways |-> <<Mine(<<{"I"}, {"think"}>>)>>]
IBelieve == [close |-> "stop", ways |-> <<Mine(<<{"I"}, {"believe"}>>),
                                          Mine(<<{"I'm"}, {"convinced"}>>)>>]
NotSure  == [close |-> "stop", ways |-> <<Mine(<<{"I'm"}, {"not"}, {"sure"}, {"about"}>>),
                                          Mine(<<{"I'm"}, {"not"}, {"sure"}>>)>>]
Revision == [close |-> "stop", ways |-> <<Mine(<<{"actually:"}>>),
                                          Mine(<<{"on"}, {"second"}, {"thought:"}>>)>>]

Opinions == <<IThink, IBelieve, NotSure, Revision>>

-----------------------------------------------------------------------------
(* One match, from a given word.                                             *)

(* White space includes line ends.                                           *)
Skip(t, i) == Min({j \in i .. Len(t) + 1 : j = Len(t) + 1 \/ t[j] # NL} \cup {Len(t) + 1})

PlacesOf(t, i, opens) ==
    LET at[k \in DOMAIN opens] == IF k = 1 THEN i ELSE Skip(t, at[k - 1] + 1) IN at

(* Where the body begins; a colon needs no space behind it.                  *)
Colons == {{"actually:"}, {"thought:"}}

BodyFrom(t, i, opens) ==
    LET at == PlacesOf(t, i, opens)  after == at[Len(opens)] + 1
    IN IF (\A k \in DOMAIN opens : at[k] <= Len(t) /\ t[at[k]] \in opens[k])
          /\ (after <= Len(t) /\ t[after] = "." => opens[Len(opens)] \in Colons)
       THEN Skip(t, after) ELSE Absent

(* Where the words that close a body before e end, or Absent.                *)
CloseEnd(t, e, close) ==
    LET by == Skip(t, e)  day == Skip(t, by + 1)
    IN IF close = "stop" THEN (IF t[e] \in {".", NL} THEN e ELSE Absent)
       ELSE IF day <= Len(t) /\ t[by] = "by" /\ t[day] \in DOMAIN Day THEN day ELSE Absent

Ends(t, from, close) ==
    {e \in from + 1 .. Len(t) : NL \notin ToSet(SubSeq(t, from, e - 1))
                                 /\ CloseEnd(t, e, close) # Absent}

Lazy_Greedy(ends) == Max(ends)                         \* mutant: .+ for .+?

Lazy(ends) == Min(ends)

Matching(t, i, p) ==
    {w \in DOMAIN p.ways :
        LET from == BodyFrom(t, i, p.ways[w].opens)
        IN from # Absent /\ Ends(t, from, p.close) # {}}

MatchAt(t, i, p) ==
    LET w    == Min(Matching(t, i, p))
        from == BodyFrom(t, i, p.ways[w].opens)
        to   == Lazy(Ends(t, from, p.close))
    IN [start |-> i, way |-> w, from |-> from, to |-> to, last |-> CloseEnd(t, to, p.close)]

Onwards_NextWord(m) == m.start + 1                     \* mutant: matches may overlap

Onwards(m) == m.last + 1

(* captures_iter: from the left, and on behind each match.                   *)
Found(t, p) ==
    LET from[i \in 1 .. Len(t) + 1] ==
            IF i = Len(t) + 1 THEN <<>>
            ELSE IF Matching(t, i, p) = {} THEN from[i + 1]
            ELSE <<MatchAt(t, i, p)>> \o from[Onwards(MatchAt(t, i, p))]
    IN from[1]

-----------------------------------------------------------------------------
(* What becomes of a match.                                                  *)

Body(t, m) == SubSeq(t, m.from, m.to - 1)

Weekday(date) == date % 7
Noon(date) == date * DayLength + DayLength \div 2

DaysUntil_Back(from, weekday) == weekday - Weekday(from)   \* mutant: without rem_euclid

DaysUntil(from, weekday) == (weekday - Weekday(from)) % 7

(* resolve_date: the day is the user's, the noon is UTC's.                   *)
ResolveDate(word, at, zone) ==
    LET local == (at + zone) \div DayLength
        named == Day[word]
    IN CASE named.kind = "date"     -> Noon(named.day)
         [] named.kind = "offset"   -> Noon(local + named.day)
         [] named.kind = "weekday"  -> Noon(local + DaysUntil(local, named.day))
         [] named.kind = "unknown"  -> Absent

Commitment(t, p, m, at, zone) ==
    LET way   == p.ways[m.way]
        other == IF way.name = Absent THEN Absent ELSE t[PlacesOf(t, m.start, way.opens)[way.name]]
    IN [owner |-> IF way.owner = "user" THEN "user" ELSE other,
        counterpart |-> IF way.owner = "user" THEN other ELSE "user",
        due |-> IF p.close = "by" THEN ResolveDate(t[m.last], at, zone) ELSE Absent,
        body |-> Body(t, m)]

Position(t, p, m) == (IF p = NotSure THEN <<"not", "sure:">> ELSE <<>>) \o Body(t, m)

TopicOf(position) == SubSeq(position, 1, Min({TopicWords, Len(position)}))

Belief(t, p, m) ==
    [topic |-> TopicOf(Position(t, p, m)), position |-> Position(t, p, m), sure |-> p # NotSure]

-----------------------------------------------------------------------------
(* first_json_object: a scan from the first brace that counts braces outside *)
(* strings.                                                                  *)

Scanned_AnyQuote(s, b) ==                              \* mutant: the escape is not looked at
    [s EXCEPT !.inside = IF b = Quote THEN ~s.inside ELSE s.inside,
              !.depth = @ + (IF s.inside THEN 0 ELSE IF b = Open THEN 1
                             ELSE IF b = Shut THEN -1 ELSE 0)]

Scanned(s, b) ==
    CASE ~s.inside /\ b = Quote              -> [s EXCEPT !.inside = TRUE]
      [] s.inside /\ s.escaped               -> [s EXCEPT !.escaped = FALSE]
      [] s.inside /\ ~s.escaped /\ b = Quote  -> [s EXCEPT !.inside = FALSE]
      [] s.inside /\ ~s.escaped /\ b = Escape -> [s EXCEPT !.escaped = TRUE]
      [] ~s.inside /\ b = Open                -> [s EXCEPT !.depth = @ + 1]
      [] ~s.inside /\ b = Shut                -> [s EXCEPT !.depth = @ - 1]
      [] OTHER                                -> s

FirstOpen(t) == Min({i \in DOMAIN t : t[i] = Open} \cup {Len(t) + 1})

FirstObject(t) ==
    LET start == FirstOpen(t)
        state[i \in start - 1 .. Len(t)] ==
            IF i = start - 1 THEN [depth |-> 0, inside |-> FALSE, escaped |-> FALSE]
            ELSE Scanned(state[i - 1], t[i])
        shuts == {i \in start .. Len(t) : t[i] = Shut /\ state[i].depth = 0 /\ ~state[i].inside}
    IN IF shuts = {} THEN Absent ELSE SubSeq(t, start, Min(shuts))

-----------------------------------------------------------------------------
(* A text grows word by word.                                                *)

TextInit == vocabulary \in Vocabularies /\ text = <<>>

Write(word) ==
    /\ Len(text) < MaxLen[vocabulary]
    /\ text' = Append(text, word) /\ UNCHANGED vocabulary

TextNext == \E word \in vocabulary : Write(word)

TextSpec == TextInit /\ [][TextNext]_written

-----------------------------------------------------------------------------
TextTypeOK == vocabulary \in Vocabularies /\ text \in Seq(vocabulary) /\ Len(text) <= MaxLen[vocabulary]

(* No promise and no opinion of the text is passed over, none is found       *)
(* twice, and none runs past the first day or full stop that can end it: a   *)
(* sentence that opens inside another's match belongs to that one            *)
(* (RegexExtractor::extract, extract_beliefs).                               *)
MatchesAreExact ==
    \A p \in ToSet(Promises \o Opinions) :
        LET found == Found(text, p)
        IN /\ \A j \in DOMAIN found :
                 /\ j > 1 => found[j].start > found[j - 1].last
                 /\ \A e \in found[j].from + 1 .. found[j].to - 1 : CloseEnd(text, e, p.close) = Absent
           /\ \A i \in DOMAIN text :
                 Matching(text, i, p) # {} =>
                     \E j \in DOMAIN found : i \in found[j].start .. found[j].last

(* One thing said is recorded once: no two patterns take the same words for  *)
(* what was promised or meant ("I will" is not a name that "will"), but for  *)
(* a debt to somebody called Will, or Promised, which ends its line before a *)
(* "by" (RegexExtractor::extract, extract_beliefs).                          *)
SaidOnce ==
    \A ps \in {Promises, Opinions} :
        LET found == [k \in DOMAIN ps |-> ToSet(Found(text, ps[k]))]
        IN \A l \in DOMAIN ps : \A k \in 1 .. l - 1 : \A m \in found[k], n \in found[l] :
               m.from = n.from /\ m.to = n.to =>
                   /\ ps[l] = Owes /\ text[m.to] = NL
                   /\ Commitment(text, Owes, n, 0, 0).counterpart \in {"will", "promised"}

(* What was found stays found, as it was, when the text goes on: a longer    *)
(* capture of the same screen says what the shorter one said.  "not sure     *)
(* about" at the end of a line is the exception: it waits for its object.    *)
MatchesStand ==
    text # <<>> => \A p \in ToSet(Promises \o Opinions) \ {NotSure} :
        IsPrefix(Found(Front(text), p), Found(text, p))

(* A promise for a day of the week is due on the first such day from the     *)
(* user's today on, and no date but a written one lies further back than the *)
(* noon of the day it was captured on (resolve_date, next_weekday).          *)
DatesAreRight ==
    \A k \in DOMAIN Promises :
        LET found == Found(text, Promises[k])
        IN found # <<>> /\ Last(found).last = Len(text) /\ Last(text) \in DOMAIN Day =>
            \A at \in Moments, zone \in Zones :
                LET named == Day[Last(text)]
                    local == (at + zone) \div DayLength
                    due   == Commitment(text, Promises[k], Last(found), at, zone).due
                IN /\ named.kind = "unknown" <=> due = Absent
                   /\ named.kind = "weekday" => \E date \in local .. local + 6 :
                          /\ due = Noon(date) /\ Weekday(date) = named.day
                          /\ \A e \in local .. date - 1 : Weekday(e) # named.day
                   /\ named.kind = "offset" => due >= Noon(local)

(* A doubt has a topic of its own: it does not supersede what it doubts,     *)
(* unless the text writes "not sure:" itself (extract_beliefs, topic_of).    *)
DoubtsStandApart ==
    LET doubts == {Belief(text, NotSure, n).topic : n \in ToSet(Found(text, NotSure))}
    IN "sure:" \notin ToSet(text) =>
        \A p \in ToSet(Opinions) \ {NotSure} : \A m \in ToSet(Found(text, p)) :
            Belief(text, p, m).topic \notin doubts

(* The grammar of an object: what may stand between two quotes, and between  *)
(* two braces.  A span is a place and the one it ends at.                    *)
Stretches(t) == (1 .. Len(t) + 2) \X (0 .. Len(t))

Quotable(t) ==
    LET inside[s \in Stretches(t)] ==
            LET i == s[1]  j == s[2]
            IN \/ i = j + 1
               \/ i < j /\ t[i] = Escape /\ inside[<<i + 2, j>>]
               \/ i <= j /\ t[i] \notin {Escape, Quote} /\ inside[<<i + 1, j>>]
    IN inside

Balanced(t) ==
    LET inside == Quotable(t)
        String(i, j) == t[i] = Quote /\ t[j] = Quote /\ inside[<<i + 1, j - 1>>]
        items[s \in Stretches(t)] ==
            LET i == s[1]  j == s[2]
            IN \/ i = j + 1
               \/ i <= j /\ t[i] \notin {Open, Shut, Quote} /\ items[<<i + 1, j>>]
               \/ \E k \in i + 1 .. j :
                     /\ String(i, k) \/ (t[i] = Open /\ t[k] = Shut /\ items[<<i + 1, k - 1>>])
                     /\ items[<<k + 1, j>>]
    IN items

(* The object found in a reply is one, and the first one: braces in a string *)
(* count for nothing, and an escaped quote does not end it                   *)
(* (first_json_object, against the grammar of strings and braces).           *)
ObjectIsFirst ==
    LET start    == FirstOpen(text)
        balanced == Balanced(text)
        whole    == {j \in start + 1 .. Len(text) :
                        text[j] = Shut /\ balanced[<<start + 1, j - 1>>]}
    IN Open \in vocabulary =>
        /\ whole = {} => FirstObject(text) = Absent
        /\ whole # {} => \E j \in whole : FirstObject(text) = SubSeq(text, start, j)

(* Extraction finds what the text says, all of it and no more, and reads its *)
(* days and a reply's object as they are meant.                              *)
ExtractionIsExact ==
    TextTypeOK /\ MatchesAreExact /\ SaidOnce /\ MatchesStand /\ DatesAreRight
           /\ DoubtsStandApart /\ ObjectIsFirst
=============================================================================
