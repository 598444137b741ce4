------------------------- MODULE MCDictationSource -------------------------
(* An instance of DictationSource for TLC: three kinds of secret, captures   *)
(* of four characters with up to two matches, and six policies.              *)
EXTENDS DictationSource

MCKinds == {"card", "token", "email_addr", "phone"}
MCAlwaysOn == {"card", "token"}
MCDetectorAt == [k \in MCKinds |-> CASE k = "token" -> 1 [] k = "card" -> 2
                                      [] k = "email_addr" -> 3 [] k = "phone" -> 4]
MCPlaceholderLen == [k \in MCKinds |-> IF k = "card" THEN 2 ELSE 3]

Text == [i \in 1 .. 4 |-> <<"text", i>>]

Valid   == <<4, 2, 2, 2, 2, 2, 2, 2, 2, 2, 2, 2, 2>>
Invalid == [Valid EXCEPT ![13] = 3]

Match(kind, from, to, digits) == [kind |-> kind, from |-> from, to |-> to, digits |-> digits]

Matches ==
    {Match("card", f, f + 2, Valid) : f \in 0 .. 2}
        \cup {Match("card", 0, 2, Invalid), Match("token", 0, 3, <<>>), Match("token", 2, 4, <<>>)}
        \cup {Match("email_addr", 0, 3, <<>>), Match("email_addr", 2, 4, <<>>),
               Match("phone", 0, 1, <<>>)}

Editor == <<"v", "i", "m">>
Vault  == <<"k", "p">>

Capture(app, source, matches) ==
    [app |-> app, source |-> source, text |-> Text, matches |-> matches]

MCLines == {Capture(None, "dictation", {Match("card", 0, 2, Valid), Match("email_addr", 1, 3, <<>>)})}

Apart(a, b) == a = b \/ a.kind # b.kind \/ a.to <= b.from \/ b.to <= a.from

MCOthers ==
    {Capture(Editor, "screen_ocr", {p[1], p[2]}) : p \in {q \in Matches \X Matches : Apart(q[1], q[2])}}
        \cup {Capture(Vault, "screen_ocr", {}), Capture(None, "ambient_audio", {})}

MCSensitive == {Vault}

Rule(on, pattern, verb, arg, rule) ==
    [guard |-> [on |-> on, pattern |-> pattern],
     call  |-> [verb |-> verb, arg |-> arg, rule |-> rule]]

Word(w, padded) == [word |-> w, padded |-> padded]

DenyVault   == Rule("app", <<"k", "*">>, "deny", None, "vault")
RedactVoice == Rule("source_kind", "dictation", "redact",
                    [form |-> "string", words |-> <<Word("email_addr", TRUE), Word("emial", FALSE)>>],
                    None)
RedactAll   == Rule("always", <<>>, "redact",
                    [form |-> "array", words |-> <<Word("email_addr", TRUE), Word("phone", FALSE)>>],
                    "pii")
Cloud       == Rule("app", <<"v", "?", "m">>, "allow_cloud", None, None)
Fails       == Rule("source_kind", "dictation", "error", None, None)
Private     == Rule("incognito", <<>>, "deny", None, "private")

MCScripts == {<<>>, <<DenyVault, Private, RedactVoice>>, <<DenyVault, RedactAll>>, <<Cloud, Fails>>}

MCPermissive == <<Rule("always", <<>>, "allow", None, None)>>

MCPatterns == {<<"v", "*">>, <<"*", "m">>, <<"k", "?">>, <<"?">>, <<"*", "i", "*">>, <<"*", "v", "i", "m">>}
=============================================================================
