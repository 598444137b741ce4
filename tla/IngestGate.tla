---------------------------- MODULE IngestGate ----------------------------
(***************************************************************************)
(* The gate of the capture daemon (homn-gate) as a function of a policy    *)
(* and a capture: the policy script picks an action, the redaction bank    *)
(* rewrites the text, and what comes out is an observation or a reason.    *)
(* External: rhai (a script is a list of guarded outcome calls, each of    *)
(* which may raise an error) and the regular expressions of the detectors  *)
(* (a capture carries the matches they find in it).                        *)
(***************************************************************************)
EXTENDS Integers, Sequences, FiniteSets, SequencesExt, FiniteSetsExt, Listing

CONSTANTS Kinds,           \* RedactionKind
          AlwaysOn,        \* the kinds of the always-on scan
          DetectorAt,      \* the place of a kind's detector in the bank
          Card,            \* the kind that is checked by its sum
          Sensitive,       \* apps and titles with one of the sensitive words
          PlaceholderLen,  \* the length of [REDACTED:kind]
          None

ASSUME KindsAssumption ==
    /\ AlwaysOn \subseteq Kinds /\ Card \in Kinds
    /\ PlaceholderLen \in [Kinds -> Nat \ {0}]
    /\ DetectorAt \in [Kinds -> Nat]
    /\ \A j, k \in Kinds : DetectorAt[j] = DetectorAt[k] => j = k

-----------------------------------------------------------------------------
(* glob_match: `*` any run, `?` one character.                               *)

StarStops_One(s, i) == i + 1 .. Len(s) + 1             \* mutant: zero is no run

StarStops(s, i) == i .. Len(s) + 1

(* Where s may go on with c, then with one of the places.                    *)
Leading(s, c, places) ==
    {i \in 1 .. Len(s) + 1 :
       IF c = "*" THEN \E k \in StarStops(s, i) : k \in places
       ELSE i <= Len(s) /\ c \in {"?", s[i]} /\ i + 1 \in places}

(* The rest of s from each place of fits[n] matches the last n of p.         *)
Glob(s, p) ==
    LET fits[n \in 0 .. Len(p)] ==
            IF n = 0 THEN {Len(s) + 1} ELSE Leading(s, p[Len(p) - n + 1], fits[n - 1])
    IN 1 \in fits[Len(p)]

(* A guard of the script, over the scope that evaluate pushes.               *)
Holds(guard, ctx) ==
    \/ guard.on = "always"
    \/ guard.on = "app" /\ Glob(ctx.app, guard.pattern)
    \/ guard.on = "source_kind" /\ ctx.source = guard.pattern
    \/ guard.on = "incognito" /\ ctx.incognito

(* parse_kinds: the words of a string are trimmed, those of an array are     *)
(* not; a word that is no kind is left out without a sign.                   *)
ParseKinds(arg) ==
    {w.word : w \in {v \in ToSet(arg.words) : v.word \in Kinds /\ (v.padded => arg.form = "string")}}

Decision(verb, kinds, rule) == [verb |-> verb, kinds |-> kinds, rule |-> rule]

(* default_decision.                                                         *)
DefaultDecision(ctx) ==
    IF ctx.incognito \/ ctx.title \in Sensitive \/ ctx.app \in Sensitive
    THEN Decision("deny", {}, "default.sensitive")
    ELSE Decision("allow", {}, "default.allow")

Called(call) ==
    Decision(call.verb, IF call.verb = "redact" THEN ParseKinds(call.arg) ELSE {}, call.rule)

Slot_First(script, fired) == script[Min(fired)].call   \* mutant: the first call counts

(* Every outcome call writes the slot again: the last one counts.            *)
Slot(script, fired) == script[Max(fired)].call

(* IngestPolicy::evaluate.  A runtime error is a deny with no rule, whatever *)
(* was called before it.                                                     *)
Evaluate(script, ctx) ==
    LET fired == {i \in DOMAIN script : Holds(script[i].guard, ctx)}
    IN IF \E i \in fired : script[i].call.verb = "error" THEN Decision("deny", {}, None)
       ELSE IF fired = {} THEN DefaultDecision(ctx)
       ELSE Called(Slot(script, fired))

-----------------------------------------------------------------------------
(* luhn_valid: 13 to 19 digits, every second one from the right doubled.     *)

Doubled_Whole(d) == 2 * d                              \* mutant: the carry is not folded

Doubled(d) == IF 2 * d > 9 THEN 2 * d - 9 ELSE 2 * d

Worth(digits, i) == IF (Len(digits) - i) % 2 = 0 THEN digits[i] ELSE Doubled(digits[i])

LuhnValid(digits) ==
    /\ Len(digits) \in 13 .. 19
    /\ Total([i \in 1 .. Len(digits) |-> Worth(digits, i)]) % 10 = 0

Active(m, requested) ==
    /\ m.kind \in AlwaysOn \cup requested
    /\ m.kind = Card => LuhnValid(m.digits)

(* By start, the longest first; the sort is stable and the matches come      *)
(* detector by detector.  A match covers the characters from + 1 .. to.      *)
Precedes(a, b) ==
    \/ a.from < b.from
    \/ a.from = b.from /\ a.to > b.to
    \/ a.from = b.from /\ a.to = b.to /\ DetectorAt[a.kind] < DetectorAt[b.kind]

Sorted(matches) ==
    Listed(matches, {pair \in matches \X matches : Precedes(pair[1], pair[2])})

StartsInside_Touching(m, coveredEnd) == m.from <= coveredEnd /\ coveredEnd > 0   \* mutant: <=

StartsInside(m, coveredEnd) == m.from < coveredEnd

(* A match that starts inside one that is kept is dropped.                   *)
Taken(acc, m) ==
    IF StartsInside(m, acc.end) THEN acc ELSE [kept |-> Append(acc.kept, m), end |-> m.to]

Kept(matches) ==
    LET sorted == Sorted(matches)
        taken[n \in 0 .. Len(sorted)] ==
            IF n = 0 THEN [kept |-> <<>>, end |-> 0] ELSE Taken(taken[n - 1], sorted[n])
    IN taken[Len(sorted)].kept

Placeholder(kind) == [i \in 1 .. PlaceholderLen[kind] |-> <<kind, i>>]

Offset_Original(before, m) == m.from                   \* mutant: where the match was

Offset(before, m) == Len(before)

(* The text up to a match, and a placeholder for the match.                  *)
Replaced(text, acc, m) ==
    LET before == acc.text \o SubSeq(text, acc.cursor + 1, m.from)
    IN [text   |-> before \o Placeholder(m.kind),
        spans  |-> Append(acc.spans, [kind |-> m.kind, offset |-> Offset(before, m),
                                      len |-> PlaceholderLen[m.kind]]),
        cursor |-> m.to]

(* RedactionBank::redact.                                                    *)
Redact(capture, requested) ==
    LET text == capture.text
        kept == Kept({m \in capture.matches : Active(m, requested)})
        built[n \in 0 .. Len(kept)] ==
            IF n = 0 THEN [text |-> <<>>, spans |-> <<>>, cursor |-> 0]
            ELSE Replaced(text, built[n - 1], kept[n])
        last == built[Len(kept)]
    IN [text  |-> last.text \o SubSeq(text, last.cursor + 1, Len(text)), spans |-> last.spans]

-----------------------------------------------------------------------------
(* ingest_ctx: no window title, never incognito, whatever the capture was.   *)
IngestCtx(capture) ==
    [app |-> IF capture.app = None THEN <<>> ELSE capture.app, source |-> capture.source,
     title |-> None, incognito |-> FALSE]

Dropped(rule) == [verdict |-> "deny", rule |-> rule, text |-> None, spans |-> <<>>,
                  cloud |-> FALSE]

(* pass_redact.                                                              *)
PassRedact(capture, decision) ==
    LET r == Redact(capture, decision.kinds)
    IN [verdict |-> "allow", rule |-> None, text |-> r.text, spans |-> r.spans,
        cloud |-> decision.verb = "allow_cloud"]

(* Gate::run.  decision_receipt tells allow from deny and no more: an error  *)
(* reads as a deny, a redaction as an allow, and an allow has no rule.       *)
Run(script, capture) ==
    LET decision == Evaluate(script, IngestCtx(capture))
    IN IF decision.verb = "deny" THEN Dropped(decision.rule)
       ELSE PassRedact(capture, decision)
=============================================================================
