---------------------------- MODULE MCExtraction ----------------------------
(***************************************************************************)
(* Texts for Extraction: one vocabulary for each family of patterns, and   *)
(* the bytes of a reply.  A day has four ticks.                            *)
(***************************************************************************)
EXTENDS Extraction

MCDay == [w \in {"friday", "today", "tomorrow", "someday", "written"} |->
    CASE w = "friday"   -> [kind |-> "weekday", day |-> 4]
      [] w = "today"    -> [kind |-> "offset", day |-> 0]
      [] w = "tomorrow" -> [kind |-> "offset", day |-> 1]
      [] w = "written"  -> [kind |-> "date", day |-> 3]
      [] w = "someday"  -> [kind |-> "unknown"]]

Dated  == {"I'll", "will", "Sarah", "by", "friday", "/"}
Spoken == {"I", "will", "Sarah", "promised", "by", "tomorrow"}
Days   == {"I'll", "call", "by", "today", "someday", "written"}
Owing  == {"I", "owe", "Sarah", "owes", "me", ".", "/"}
Saying == {"I", "think", "I'm", "convinced", "actually:", ".", "/"}
Doubts == {"I'm", "not", "sure", "about", "."}
Afresh == {"on", "second", "thought:", "actually:", ".", "/"}
Bytes  == {"{", "}", "q", "e", "x"}

MCVocabularies == {Dated, Spoken, Days, Owing, Saying, Doubts, Afresh, Bytes}
MCMaxLen == [v \in MCVocabularies |-> IF v \in {Doubts, Bytes} THEN 6 ELSE 5]

MCNames == {"will", "Sarah", "promised", "by", "call", "friday", "today", "someday", "tomorrow",
              "owe", "owes", "me", "think", "convinced", "not", "sure", "about",
              "on", "second"}
MCTails == MCNames \cup {"I'll"}

(* Every hour of the model's day, on every day of a week.                    *)
MCMoments == 28 .. 55
MCZones == {-2, 0, 3}
=============================================================================
