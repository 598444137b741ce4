------------------------------ MODULE MCPtyTap ------------------------------
(***************************************************************************)
(* Small instances of PtyTap for TLC: a prompt of two bytes in a window of *)
(* four, in outputs that repeat it, cut it, and put a character of two     *)
(* bytes before, between and behind it, or are no text.                    *)
(***************************************************************************)
EXTENDS PtyTap

MCBytes == {"p", "q", "x", "h", "t"}
MCPattern == <<"p", "q">>
MCStreams == {<<"p", "q", "p", "q", "x">>,
              <<"x", "p", "x", "x", "p", "q">>,
              <<"h", "t", "x", "p", "q", "p", "q">>,
              <<"p", "q", "h", "t", "p", "q">>,
              <<"t", "p", "q">>}
=============================================================================
