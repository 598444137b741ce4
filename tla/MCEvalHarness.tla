--------------------------- MODULE MCEvalHarness ---------------------------
(* An instance of EvalHarness for TLC: two instants to the minute, texts of  *)
(* up to three characters, two questions of each of three kinds.             *)
EXTENDS EvalHarness

MCShapes ==
    {[ocr |-> "joined", audio |-> FALSE, dictation |-> FALSE],
     [ocr |-> "flat", audio |-> TRUE, dictation |-> FALSE],
     [ocr |-> "none", audio |-> FALSE, dictation |-> TRUE]}

Input(label, app, text, form) == [label |-> label, app |-> app, text |-> text, form |-> form]

MCInputs ==
    {Input("ocr", "vim", <<"a">>, "iso"), Input("ocr", "vim", <<"b", "a">>, "iso"),
     Input("ocr", "vim", <<" ", "c">>, "integer"), Input("ocr", "vim", <<"a", "/", "b">>, "iso"),
     Input("ocr", "mail", <<" ">>, "local"), Input("ocr", "mail", <<"b">>, "split"),
     Input("audio", "mic", <<"b", "c">>, "integer"),
     Input("dictation", None, <<"c">>, "short"), Input("dictation", None, <<"a", "b">>, "odd")}

MCKinds == <<"factual", "temporal", "commitment">>
MCCharacters == {"a", "b", "c", " ", "/"}

(* The second episode is "ep-2", in a word.                                  *)
MCEpisodeRef(n) == IF n = 2 THEN <<"2">> ELSE <<"n">>

(* The questions about time ask with a cue of their own.                     *)
Question(kind, n, expected, window) ==
    [id |-> <<kind, n>>, kind |-> kind, cue |-> kind = "temporal", expected |-> expected, window |-> window]

FirstMinute == [from |-> 0, to |-> 1]

Balanced ==
    <<Question("factual", 1, <<"a">>, None), Question("factual", 2, <<"b", " ">>, None),
      Question("temporal", 1, <<"a">>, FirstMinute), Question("temporal", 2, <<"c">>, None),
      Question("commitment", 1, <<"2">>, None), Question("commitment", 2, <<"a">>, None)>>

OneSided == <<Question("factual", 1, <<"a">>, None), Question("factual", 2, <<"a">>, None)>>
Blanks   == [Balanced EXCEPT ![1].expected = <<" ">>]
Twice    == [Balanced EXCEPT ![1].id = Balanced[2].id]

MCQuestionSets == {Balanced, OneSided, Blanks, Twice}
=============================================================================
