-------------------------- MODULE DictationSource --------------------------
(***************************************************************************)
(* Dictation (homn-sources) in front of the gate: writers push lines into  *)
(* a bounded buffer, a drain fetches what lies after the durable cursor,   *)
(* gates it item by item and advances the cursor; captures of another      *)
(* source take their turn at the same gate.  The process ends anywhere,    *)
(* with its buffer and its sequence numbers.  The policy file is edited    *)
(* beside it: a reloader follows the file, the gate keeps the policy it    *)
(* was built with.  The drain is Pipeline::tick cut down to what the gate  *)
(* and the cursor see of it; IngestPipeline has the rest.                  *)
(***************************************************************************)
EXTENDS IngestGate

CONSTANTS Lines,        \* captures a writer may dictate
          Others,       \* captures of the other source
          Scripts,      \* policies the file may hold
          Broken,       \* a file that does not compile
          Permissive,   \* the policy of a daemon that finds no file
          Patterns,     \* patterns of `homn exclude`
          MaxBuffered,  \* MAX_BUFFERED_LINES
          MaxPushes, MaxOthers, MaxRestarts, MaxEdits   \* bounds

ASSUME BufferAssumption == MaxBuffered \in Nat \ {0} /\ None \notin Scripts \cup {Broken}
(* A character stands for its place in the text; the matches of one detector *)
(* lie apart (find_iter).                                                    *)
ASSUME CapturesAssumption ==
    \A c \in Lines \cup Others :
        /\ c.text \in Seq(ToSet(c.text)) /\ \A i, j \in DOMAIN c.text : c.text[i] = c.text[j] => i = j
        /\ \A kind \in Kinds : ToSet(c.text) \cap ToSet(Placeholder(kind)) = {}
        /\ IsFiniteSet(c.matches)
        /\ \A m \in c.matches :
              /\ m.kind \in Kinds /\ m.from \in Nat /\ m.to \in m.from + 1 .. Len(c.text)
              /\ m.digits \in Seq(0 .. 9)
        /\ \A m, o \in c.matches :
              m.kind = o.kind => m = o \/ m.to <= o.from \/ o.to <= m.from
(* A script is a list of guarded calls, a name a list of characters.         *)
ASSUME PolicyAssumption ==
    /\ \A script \in Scripts \cup {Permissive} : script \in Seq(ToSet(script))
    /\ \A p \in Patterns : p \in Seq(STRING)
    /\ \A c \in Lines \cup Others : c.app = None \/ c.app \in Seq(STRING)

VARIABLES
    seq,      \* the last sequence number handed out
    lines,    \* the buffer: <<sequence number, capture>>
    cursor,   \* the watermark of the source, durable
    file,     \* the policy file: a script, Broken or None
    handle,   \* the policy of the reloader, None without one
    changed,  \* an event of the file waits for the reloader
    policy,   \* the policy in the gate
    pc,       \* "down", "idle", "gate" or "mark"
    batch,    \* items of the batch still to gate
    next,     \* the cursor of the batch
    out,      \* the item gated by the last step, and what the gate made of it
    born,     \* history: the cursor the process found
    gated,    \* history: sequence numbers gated by the process
    evicted,  \* history: sequence numbers dropped at the cap
    used      \* what the bounds have let happen

pipe == <<seq, lines, born, gated, evicted>>
policies == <<file, handle, changed, policy>>
vars == <<pipe, policies, cursor, pc, batch, next, out, used>>

Nothing == [item |-> None, made |-> None]

-----------------------------------------------------------------------------
(* The process: bind, and the policy as run_capture_daemon loads it.         *)

(* A file that does not compile stops the start; a missing one is permissive,*)
(* and nothing follows it.                                                   *)
Start ==
    /\ pc = "down" /\ file # Broken
    /\ policy' = IF file = None THEN Permissive ELSE file
    /\ handle' = file
    /\ seq' = 0 /\ lines' = <<>> /\ born' = cursor /\ gated' = {} /\ evicted' = {}
    /\ pc' = "idle"
    /\ out' = Nothing
    /\ UNCHANGED <<file, changed, cursor, batch, next, used>>

Stop ==
    /\ pc # "down" /\ used.restarts < MaxRestarts
    /\ used' = [used EXCEPT !.restarts = @ + 1]
    /\ pc' = "down" /\ batch' = <<>> /\ next' = 0 /\ out' = Nothing /\ changed' = FALSE
    /\ lines' = <<>>
    /\ UNCHANGED <<seq, born, gated, evicted, file, handle, policy, cursor>>

(* pump_lines, one line of any writer; a blank line is nothing, and a line   *)
(* that is not UTF-8 ends its connection.                                    *)
Capped_Never(longer) == longer                         \* mutant: no cap

Capped_Early(longer) ==                                \* mutant: >= for >
    IF Len(longer) >= MaxBuffered THEN Tail(longer) ELSE longer

Capped(longer) == IF Len(longer) > MaxBuffered THEN Tail(longer) ELSE longer

Push(line) ==
    LET longer == Append(lines, <<seq + 1, line>>)
        lost   == IF Len(longer) > MaxBuffered THEN {Head(longer)[1]} \ gated ELSE {}
    IN /\ pc # "down" /\ used.pushes < MaxPushes
       /\ used' = [used EXCEPT !.pushes = @ + 1]
       /\ seq' = seq + 1
       /\ lines' = Capped(longer)
       /\ evicted' = evicted \cup lost
       /\ out' = Nothing
       /\ UNCHANGED <<born, gated, policies, cursor, pc, batch, next>>

-----------------------------------------------------------------------------
(* The drain.                                                                *)

After == {entry \in ToSet(lines) : entry[1] > cursor}

(* Never below the cursor that came in.                                      *)
NextCursor(items) == IF items = <<>> THEN cursor ELSE Last(items)[1]

(* fetch_since, under the lock of the buffer.                                *)
Fetch ==
    LET items == Only(lines, After)
    IN /\ pc = "idle" /\ items # <<>>
       /\ batch' = items
       /\ next' = NextCursor(items)
       /\ pc' = "gate"
       /\ out' = Nothing
       /\ UNCHANGED <<pipe, policies, cursor, used>>

GateNext ==
    /\ pc = "gate"
    /\ out' = [item |-> Head(batch)[2], made |-> Run(policy, Head(batch)[2])]
    /\ gated' = gated \cup {Head(batch)[1]}
    /\ batch' = Tail(batch)
    /\ pc' = IF Len(batch) = 1 THEN "mark" ELSE "gate"
    /\ UNCHANGED <<seq, lines, born, evicted, policies, cursor, next, used>>

Marked_Newest == seq                                   \* mutant: what has been pushed by now

Marked == next

Mark ==
    /\ pc = "mark"
    /\ cursor' = Marked
    /\ pc' = "idle" /\ next' = 0 /\ out' = Nothing
    /\ UNCHANGED <<pipe, policies, batch, used>>

(* A capture of the other source at the same gate.                           *)
GateOther(c) ==
    /\ pc = "idle" /\ used.others < MaxOthers
    /\ used' = [used EXCEPT !.others = @ + 1]
    /\ out' = [item |-> c, made |-> Run(policy, c)]
    /\ UNCHANGED <<pipe, policies, cursor, pc, batch, next>>

-----------------------------------------------------------------------------
(* The policy file and its reloader (spawn_reloader).                        *)

Edit ==
    /\ used.edits < MaxEdits
    /\ used' = [used EXCEPT !.edits = @ + 1]
    /\ \E content \in Scripts \cup {Broken, None} : content # file /\ file' = content
    /\ changed' = (pc # "down" /\ handle # None)
    /\ out' = Nothing
    /\ UNCHANGED <<handle, policy, pipe, cursor, pc, batch, next>>

Reloaded_Clears == IF file \in Scripts THEN file ELSE Permissive   \* mutant: an empty policy

Reloaded == IF file \in Scripts THEN file ELSE handle

Reload ==
    /\ changed /\ handle # None
    /\ handle' = Reloaded
    /\ changed' = FALSE
    /\ out' = Nothing
    /\ UNCHANGED <<file, policy, pipe, cursor, pc, batch, next, used>>

Init ==
    /\ seq = 0 /\ lines = <<>> /\ born = 0 /\ gated = {} /\ evicted = {}
    /\ file \in Scripts /\ handle = file /\ changed = FALSE /\ policy = file
    /\ cursor = 0 /\ pc = "down" /\ batch = <<>> /\ next = 0 /\ out = Nothing
    /\ used = [pushes |-> 0, others |-> 0, restarts |-> 0, edits |-> 0]

Next ==
    \/ Start \/ Stop \/ Fetch \/ GateNext \/ Mark \/ Edit \/ Reload
    \/ \E line \in Lines : Push(line)
    \/ \E c \in Others : GateOther(c)

Spec == Init /\ [][Next]_vars

-----------------------------------------------------------------------------
Gating == out # Nothing

Requested == Evaluate(policy, IngestCtx(out.item)).kinds

Counting == {m \in out.item.matches : Active(m, Requested)}

(* Every variable has its type.                                              *)
TypeOK ==
    /\ seq \in Nat /\ cursor \in Nat /\ next \in Nat /\ born \in 0 .. cursor
    /\ Len(lines) <= MaxBuffered
    /\ \A i \in DOMAIN lines : lines[i][1] \in 1 .. seq /\ lines[i][2] \in Lines
    /\ gated \subseteq 1 .. seq /\ evicted \subseteq 1 .. seq
    /\ file \in Scripts \cup {Broken, None}
    /\ handle \in Scripts \cup {Permissive, None} /\ policy \in Scripts \cup {Permissive}
    /\ pc \in {"down", "idle", "gate", "mark"}

(* No line is passed over: what this process was sent, and the cursor says   *)
(* is done, has been gated, or dropped at the cap, or carries a number the   *)
(* cursor had passed before the process began, for numbers start over while  *)
(* the cursor is durable (fetch_since, pump_lines, bind).                    *)
NothingPassedOver ==
    pc # "down" =>
        \A i \in 1 .. seq :
            i <= cursor => i \in gated \cup evicted \/ i <= born

(* What is not done yet is still there to fetch, or was dropped at the cap.  *)
RestIsBuffered ==
    pc # "down" =>
        \A i \in cursor + 1 .. seq :
            i \in evicted \cup gated \/ \E j \in DOMAIN lines : lines[j][1] = i

(* No secret survives the gate whole: of every match that counts at least    *)
(* the beginning is gone, and one that nothing else overlaps from the left   *)
(* is gone to its end; what no match covers is still there, in order         *)
(* (RedactionBank::redact).                                                  *)
SecretsAreGone ==
    Gating /\ out.made.verdict = "allow" =>
        LET text   == out.item.text
            left   == Only(out.made.text, ToSet(text))
            Cut(m) == {text[i] : i \in m.from + 1 .. m.to}
            open   == ToSet(text) \ UNION {Cut(m) : m \in Counting}
        IN /\ \A m \in Counting :
                 /\ text[m.from + 1] \notin ToSet(left)
                 /\ (\A o \in Counting : o.from < m.from => o.to <= m.from)
                       => Cut(m) \cap ToSet(left) = {}
           /\ Only(text, open) = Only(left, open)

(* Every span locates its placeholder in the text that is stored, and they   *)
(* follow one another without overlap (RedactionSpan).                       *)
SpansLocate ==
    Gating /\ out.made.verdict = "allow" =>
        \A i \in DOMAIN out.made.spans :
            LET s == out.made.spans[i]
            IN /\ SubSeq(out.made.text, s.offset + 1, s.offset + s.len) = Placeholder(s.kind)
               /\ i > 1 => out.made.spans[i - 1].offset + out.made.spans[i - 1].len <= s.offset

(* A rule `homn exclude` appends drops whatever it matches, no matter what   *)
(* the script has called before, and drops nothing else (evaluate,           *)
(* build_engine: every outcome call writes the slot again).                  *)
ExcludeWins ==
    Gating =>
        \A p \in Patterns :
            LET rule == [guard |-> [on |-> "app", pattern |-> p],
                         call  |-> [verb |-> "deny", rule |-> "exclude.cli", arg |-> None]]
                made == Run(Append(policy, rule), out.item)
            IN IF Holds(rule.guard, IngestCtx(out.item)) THEN made.verdict = "deny"
               ELSE made = out.made

(* A string is one a pattern stands for: there is a way to cut it into one   *)
(* piece for each character of the pattern.                                  *)
StandsFor(p, s) ==
    \E cut \in [1 .. Len(p) + 1 -> 0 .. Len(s)] :
        /\ cut[1] = 0 /\ cut[Len(p) + 1] = Len(s)
        /\ \A j \in 1 .. Len(p) :
              \/ p[j] = "*" /\ cut[j] <= cut[j + 1]
              \/ cut[j + 1] = cut[j] + 1 /\ p[j] \in {"?", s[cut[j + 1]]}

(* A glob matches the strings it stands for and no others (glob_match).      *)
GlobMatches ==
    Gating /\ out.item.app # None =>
        \A p \in Patterns : Glob(out.item.app, p) <=> StandsFor(p, out.item.app)

(* A reloader never holds anything but a policy that has been in the file    *)
(* and compiled, and once it has seen every event the one that is in it now  *)
(* if that compiles (spawn_reloader).                                        *)
ReloaderKeepsGood ==
    handle # None =>
        /\ handle \in Scripts
        /\ pc # "down" /\ ~changed /\ file \in Scripts => handle = file

(* A card number that counts stops counting when one of its digits is        *)
(* misread (luhn_valid).                                                     *)
LuhnCatchesSlips ==
    Gating =>
        \A m \in out.item.matches :
            LuhnValid(m.digits) =>
                \A i \in DOMAIN m.digits, d \in 0 .. 9 :
                    LuhnValid([m.digits EXCEPT ![i] = d]) => d = m.digits[i]

-----------------------------------------------------------------------------

(* The dictation buffer: a line is dropped at the cap, passed by an old      *)
(* cursor, gated, or still there, and nothing else happens to it.            *)
NoLineIsLost == TypeOK /\ NothingPassedOver /\ RestIsBuffered

(* Redaction: no counted match survives, its span says where it stood, and a *)
(* card number is counted by a checksum that notices a slip.                 *)
RedactionIsExact == SecretsAreGone /\ SpansLocate /\ LuhnCatchesSlips

(* The policy: an appended exclude wins, a glob means what it says, and a    *)
(* reload never leaves a policy nobody wrote.                                *)
PolicyIsApplied == ExcludeWins /\ GlobMatches /\ ReloaderKeepsGood
=============================================================================
