---------------------------- MODULE RuleLearning ----------------------------
(***************************************************************************)
(* crates/homn-learning: answers to asks, observed per normalised pattern, *)
(* and the rules it suggests after Threshold consistent answers in a row.  *)
(* No code of this commit calls record_observation: the recorders are the  *)
(* tasks of the caller its documentation names.  The connection takes their*)
(* three transactions in turn, so another task's may fall between two of   *)
(* one call.  A call is a tool and the words of its argument: the tokens of*)
(* a command, the segments of a path, the host and the rest of a URL.      *)
(***************************************************************************)
EXTENDS Integers, Sequences, FiniteSets

CONSTANTS Calls,           \* tool calls that are asked about
          Flags,           \* words that start with a dash
          Threshold,       \* DEFAULT_THRESHOLD
          None,
          Recorders,       \* tasks that record an observation
          Times,           \* what unix_millis_now may say
          MaxObservations  \* bound: rows of pattern_observations

FileTools == {"Read", "Edit", "Write"}
Rest == "*"   \* the end of a glob
Humans == {"allow", "always_allow", "deny", "always_deny"}   \* HumanAnswer

ASSUME CallsAssumption ==
    \A c \in Calls : c.words \in Seq(STRING) /\ \A i \in DOMAIN c.words : c.words[i] # Rest
ASSUME ThresholdAssumption == Threshold \in Nat \ {0}
ASSUME TimesAssumption == Times \subseteq Nat
ASSUME BoundAssumption == MaxObservations \in Nat

VARIABLES observed,     \* pattern_observations, in the order of their ids
          suggestions,  \* the suggestions row of each pattern, or None
          recording     \* each recorder's record_observation in flight, or None

learningVars == <<observed, suggestions, recording>>

-----------------------------------------------------------------------------
(* normalize.rs.                                                             *)

(* The first two words; a flag in second place is dropped.                   *)
CommandGlob(w) ==
    IF w = <<>> THEN <<>>
    ELSE IF Len(w) >= 2 /\ w[2] \notin Flags THEN <<w[1], w[2], Rest>> ELSE <<w[1], Rest>>

(* The parent directory.                                                     *)
PathGlob(w) == IF w = <<>> THEN <<>> ELSE Append(SubSeq(w, 1, Len(w) - 1), Rest)

UrlHost(w) == SubSeq(w, 1, 1)

Pattern(c) ==
    [tool |-> c.tool,
     glob |-> CASE c.tool = "Bash"        -> CommandGlob(c.words)
                [] c.tool \in FileTools   -> PathGlob(c.words)
                [] c.tool = "WebFetch"    -> UrlHost(c.words)
                [] OTHER                  -> <<>>]

Patterns == {Pattern(c) : c \in Calls}

(* generate_rule.                                                            *)
RuleFor(p, verb) == [verb |-> verb, tool |-> p.tool, glob |-> p.glob]

(* What the policy engine makes of such a rule: matches is anchored at both  *)
(* ends and the glob ends in a separator and a star; contains wants the host.*)
Fires(rule, c) ==
    /\ rule.tool = c.tool
    /\ LET n == Len(rule.glob) - 1
       IN CASE c.tool \in FileTools \cup {"Bash"} ->
                 IF rule.glob = <<>> THEN c.words = <<>>
                 ELSE n > 0 => Len(c.words) > n /\ SubSeq(c.words, 1, n) = SubSeq(rule.glob, 1, n)
            [] c.tool = "WebFetch" -> SubSeq(c.words, 1, n + 1) = rule.glob
            [] OTHER -> TRUE

Verb_Raw(human) == human                     \* mutant: the always answers as they are

Verb(human) == IF human \in {"allow", "always_allow"} THEN "allow" ELSE "deny"

-----------------------------------------------------------------------------
(* record_observation: the insert, then the count, then the upsert.          *)

RowsOf(rows, p, n) == {i \in 1 .. n : rows[i].pattern = p}

(* ORDER BY ts DESC LIMIT k, over the first n rows: ts is read from the wall *)
(* clock before the insert, so it may step back or be another row's, and the *)
(* rows of one ts come in any order.                                         *)
Newest(rows, p, n, k) ==
    {S \in SUBSET RowsOf(rows, p, n) :
        /\ Cardinality(S) = k \/ (S = RowsOf(rows, p, n) /\ Cardinality(S) < k)
        /\ \A i \in S, j \in RowsOf(rows, p, n) \ S : rows[j].ts <= rows[i].ts}

SameCount_Total(S, last) ==                              \* mutant: over all the rows
    Cardinality({i \in RowsOf(observed, observed[last].pattern, Len(observed)) :
                    observed[i].verb = observed[last].verb})

SameCount(S, last) == Cardinality({i \in S : observed[i].verb = observed[last].verb})

InsertObservation(r, c, human, ts) ==
    /\ recording[r] = None
    /\ Len(observed) < MaxObservations
    /\ observed' = Append(observed, [pattern |-> Pattern(c), verb |-> Verb(human),
                                     call |-> c, ts |-> ts])
    /\ recording' = [recording EXCEPT ![r] =
                        [row |-> Len(observed) + 1, at |-> "count", upto |-> Len(observed) + 1]]
    /\ UNCHANGED suggestions

(* One statement: the newest rows, and among them those that answer as the   *)
(* last one does; whether that is the caller's own is not looked at.         *)
CheckThreshold(r) ==
    /\ recording[r] # None /\ recording[r].at = "count"
    /\ LET p == observed[recording[r].row].pattern
           n == Len(observed)
       IN \E S \in Newest(observed, p, n, Threshold), L \in Newest(observed, p, n, 1) : \E last \in L :
             recording' = [recording EXCEPT ![r] =
                 IF SameCount(S, last) < Threshold
                 THEN None ELSE [@ EXCEPT !.at = "upsert", !.upto = n]]
    /\ UNCHANGED <<observed, suggestions>>

(* The verb is the caller's own answer.  An open, rejected or snoozed row    *)
(* stays as it is.  An accepted one, or another process's in between, makes  *)
(* the insert fail on pattern_hash's UNIQUE: an error to the caller, the     *)
(* observation stays.                                                        *)
Upsert(r) ==
    /\ recording[r] # None /\ recording[r].at = "upsert"
    /\ recording' = [recording EXCEPT ![r] = None]
    /\ LET own == observed[recording[r].row]
       IN suggestions' =
            IF suggestions[own.pattern] = None
            THEN [suggestions EXCEPT ![own.pattern] =
                    [state |-> "open", verb |-> own.verb,
                     row |-> recording[r].row, upto |-> recording[r].upto]]
            ELSE suggestions
    /\ UNCHANGED observed

(* A statement fails, or the caller ends.                                    *)
RecorderStops(r) ==
    /\ recording[r] # None
    /\ recording' = [recording EXCEPT ![r] = None]
    /\ UNCHANGED <<observed, suggestions>>

Record ==
    \E r \in Recorders :
        \/ \E c \in Calls, human \in Humans, ts \in Times : InsertObservation(r, c, human, ts)
        \/ CheckThreshold(r) \/ Upsert(r) \/ RecorderStops(r)

(* Db::reject, for reject and for snooze: any row, whatever its state; its   *)
(* expiry date is read by nothing.                                           *)
Reject(p) ==
    /\ suggestions[p] # None
    /\ suggestions' = [suggestions EXCEPT ![p].state = "rejected"]
    /\ UNCHANGED <<observed, recording>>

(* Db::accept: any row, too.                                                 *)
MarkAccepted(p) ==
    /\ suggestions[p] # None
    /\ suggestions' = [suggestions EXCEPT ![p].state = "accepted"]

LearningInit ==
    /\ observed = <<>>
    /\ suggestions = [p \in Patterns |-> None]
    /\ recording = [r \in Recorders |-> None]

Observation == [pattern : Patterns, verb : {"allow", "deny"}, call : Calls, ts : Times]

Suggestion == [state : {"open", "accepted", "rejected"}, verb : {"allow", "deny"},
               row : Nat, upto : Nat]

Recording == [row : Nat, at : {"count", "upsert"}, upto : Nat]

LearningTypeOK ==
    /\ observed \in Seq(Observation)
    /\ suggestions \in [Patterns -> Suggestion \cup {None}]
    /\ recording \in [Recorders -> Recording \cup {None}]

-----------------------------------------------------------------------------
(* A suggestion rests on a run of Threshold equal answers: at the count of   *)
(* the call that made it, the newest Threshold observations of its pattern   *)
(* had one answer.  It is the answer suggested wherever the call's own       *)
(* observation is one of them; the statement does not look for it, so a call *)
(* overtaken by Threshold others no older than its own may suggest against   *)
(* them, and answers after the count are not seen (record_observation over   *)
(* the insert, the count and the upsert, three transactions other recorders  *)
(* may come between).                                                        *)
SuggestionsAreEarned ==
    \A p \in Patterns : suggestions[p] # None =>
        LET s == suggestions[p]
        IN \E S \in Newest(observed, p, s.upto, Threshold) :
              /\ Cardinality(S) = Threshold
              /\ \A i, j \in S : observed[i].verb = observed[j].verb
              /\ s.row \in S => \A i \in S : observed[i].verb = s.verb
=============================================================================
