---------------------------- MODULE HookDecision ----------------------------
(***************************************************************************)
(* A coding agent's permission requests, end to end.  One hook process per *)
(* request (crates/homn-hook/src/lib.rs) calls the decision daemon         *)
(* (crates/homn-daemon), which serves every connection in a task of its    *)
(* own, evaluates the rules in force, records the decision in the audit    *)
(* table (crates/homn-audit/src/lib.rs) and answers; when the rules say    *)
(* ask, the hook prompts the human and reports the answer in a second      *)
(* call.                                                                   *)
(*                                                                         *)
(* hook[h] is the place in handle_permission_request:                      *)
(*    start      not run yet                                               *)
(*    creating   decisions.create sent, under DAEMON_TIMEOUT               *)
(*    prompt     in homn_tui::prompt_user                                  *)
(*    answered   prompt closed, decisions.resolve not sent                 *)
(*    resolving  decisions.resolve sent, under no timeout                  *)
(*    done       response written; panicked, killed: no response           *)
(* conn[h] is the connection task serving it: create, insert (evaluated,   *)
(* row not written), resolve, replied, closed.                             *)
(***************************************************************************)
EXTENDS Integers, RulePolicy

CONSTANTS Hooks,       \* permission requests, one hook process each
          CallOf,      \* the tool call each asks about
          Wide,        \* calls whose preview is cut inside a character
          Rulesets,    \* rules the daemon may have in force
          None,        \* no answer, no decision yet
          MaxFaults,   \* bound: audit writes that fail
          MaxCrashes   \* bound: daemon crashes

ASSUME CallOfAssumption == CallOf \in [Hooks -> Calls] /\ Wide \subseteq Calls
ASSUME RulesetsAssumption == Rulesets \subseteq Seq(Rule) /\ Rulesets # {}
ASSUME BoundsAssumption == MaxFaults \in Nat /\ MaxCrashes \in Nat

Answers == {"allow", "deny", "always_allow", "always_deny"}
Ended == {"done", "panicked", "killed"}

ASSUME NoneAssumption == None \notin Verbs \cup Answers \cup {"hook-direct", "tui"}

VARIABLES
    (* The daemon. *)
    up,         \* the process is running
    rules,      \* DaemonState::rules
    conn,       \* the connection task of each hook
    decisions,  \* the audit table; a row's id is its index
    (* The hooks. *)
    hook,
    ticket,     \* decision_id, once the daemon said ask
    answer,     \* what prompt_user returned
    out,        \* the behavior written for Claude Code, None before
    (* History and bounds. *)
    offered,    \* decisions the rules in force gave a hook while it asked
    faults, crashes

daemonVars == <<up, rules, conn, decisions>>
hookVars == <<hook, ticket, answer, out>>
boundVars == <<faults, crashes>>
vars == <<daemonVars, hookVars, boundVars, offered>>

Row == [hook : Hooks, decision : Verbs, answer : Answers \cup {None},
        surface : {"hook-direct", "tui", None}]

Closed == [st |-> "closed", decision |-> None, id |-> 0, ok |-> FALSE]
Creating == [Closed EXCEPT !.st = "create"]
Resolving(id) == [Closed EXCEPT !.st = "resolve", !.id = id]
Evaluated(c, verdict) == [c EXCEPT !.st = "insert", !.decision = verdict]
Failed(c) == [c EXCEPT !.st = "replied", !.ok = FALSE]
Done(c, id) == [c EXCEPT !.st = "replied", !.ok = TRUE, !.id = id]

Verdict(h) == Eval(rules, CallOf[h]).decision

Respond(h, behavior) ==
    /\ hook' = [hook EXCEPT ![h] = "done"]
    /\ out' = [out EXCEPT ![h] = behavior]

-----------------------------------------------------------------------------
(* The daemon's tasks.                                                      *)

(* handle_decisions_create up to its only await: the rules are loaded once.  *)
(* The timestamp it takes is PtyWrapper's, the module that reads it.         *)
Evaluate(h) ==
    /\ conn[h].st = "create"
    /\ conn' = [conn EXCEPT ![h] = Evaluated(@, Verdict(h))]
    /\ UNCHANGED <<up, rules, decisions, hookVars, boundVars, offered>>

NewRow(h) ==
    [hook |-> h, decision |-> conn[h].decision, answer |-> None,
     surface |-> IF conn[h].decision = "ask" THEN None ELSE "hook-direct"]

Insert(h) ==
    /\ conn[h].st = "insert"
    /\ decisions' = Append(decisions, NewRow(h))
    /\ conn' = [conn EXCEPT ![h] = Done(@, Len(decisions) + 1)]
    /\ UNCHANGED <<up, rules, hookVars, boundVars, offered>>

InsertFails_BestEffort(h) ==                                  \* mutant: answer anyway
    /\ conn[h].st = "insert"
    /\ faults < MaxFaults
    /\ faults' = faults + 1
    /\ conn' = [conn EXCEPT ![h] = Done(@, 0)]
    /\ UNCHANGED <<up, rules, decisions, hookVars, crashes, offered>>

InsertFails(h) ==
    /\ conn[h].st = "insert"
    /\ faults < MaxFaults
    /\ faults' = faults + 1
    /\ conn' = [conn EXCEPT ![h] = Failed(@)]
    /\ UNCHANGED <<up, rules, decisions, hookVars, crashes, offered>>

(* update_human_answer; an id without a row is an error.                     *)
Update(h) ==
    /\ conn[h].st = "resolve"
    /\ LET id == conn[h].id
       IN  IF id \in DOMAIN decisions
           THEN /\ decisions' = [decisions EXCEPT ![id].answer = answer[h], ![id].surface = "tui"]
                /\ conn' = [conn EXCEPT ![h] = Done(@, id)]
           ELSE /\ conn' = [conn EXCEPT ![h] = Failed(@)]
                /\ UNCHANGED decisions
    /\ UNCHANGED <<up, rules, hookVars, boundVars, offered>>

UpdateFails(h) ==
    /\ conn[h].st = "resolve"
    /\ faults < MaxFaults
    /\ faults' = faults + 1
    /\ conn' = [conn EXCEPT ![h] = Failed(@)]
    /\ UNCHANGED <<up, rules, decisions, hookVars, crashes, offered>>

(* The reloader swaps the rules between any two steps of the tasks.          *)
Offer(v) ==
    offered' = [h \in Hooks |-> IF hook[h] = "creating"
                                THEN offered[h] \cup {Eval(v, CallOf[h]).decision}
                                ELSE offered[h]]

SwapRules == \E v \in Rulesets \ {rules} :
    /\ up
    /\ rules' = v
    /\ Offer(v)
    /\ UNCHANGED <<up, conn, decisions, hookVars, boundVars>>

(* Every connection task dies with the process; the table does not.          *)
Crash ==
    /\ up
    /\ crashes < MaxCrashes
    /\ crashes' = crashes + 1
    /\ up' = FALSE
    /\ conn' = [h \in Hooks |-> Closed]
    /\ UNCHANGED <<rules, decisions, hookVars, faults, offered>>

Restart == \E v \in Rulesets :
    /\ ~up
    /\ up' = TRUE
    /\ rules' = v
    /\ Offer(v)
    /\ UNCHANGED <<conn, decisions, hookVars, boundVars>>

-----------------------------------------------------------------------------
(* The hook processes.                                                      *)

(* Without a daemon the connection fails, and any failure before an answer   *)
(* is the safe fallthrough.                                                  *)
Ask(h) ==
    /\ hook[h] = "start"
    /\ \/ /\ up
          /\ conn' = [conn EXCEPT ![h] = Creating]
          /\ hook' = [hook EXCEPT ![h] = "creating"]
          /\ offered' = [offered EXCEPT ![h] = {Verdict(h)}]
          /\ UNCHANGED out
       \/ /\ ~up
          /\ Respond(h, "ask")
          /\ UNCHANGED <<conn, offered>>
    /\ UNCHANGED <<up, rules, decisions, ticket, answer, boundVars>>

TakeVerdict(h) ==
    /\ hook[h] = "creating"
    /\ conn[h].st = "replied" /\ conn[h].ok /\ conn[h].decision # "ask"
    /\ Respond(h, conn[h].decision)
    /\ UNCHANGED <<daemonVars, ticket, answer, boundVars, offered>>

TakeError_Open(h) ==                                          \* mutant: fail open
    /\ hook[h] = "creating"
    /\ conn[h].st = "replied" /\ ~conn[h].ok
    /\ Respond(h, "allow")
    /\ UNCHANGED <<daemonVars, ticket, answer, boundVars, offered>>

TakeError(h) ==
    /\ hook[h] = "creating"
    /\ conn[h].st = "replied" /\ ~conn[h].ok
    /\ Respond(h, "ask")
    /\ UNCHANGED <<daemonVars, ticket, answer, boundVars, offered>>

(* build_prompt_payload cuts the preview at a byte offset, which panics      *)
(* inside a character.                                                       *)
Prompt(h) ==
    /\ hook[h] = "creating"
    /\ conn[h].st = "replied" /\ conn[h].ok /\ conn[h].decision = "ask"
    /\ hook' = [hook EXCEPT ![h] = IF CallOf[h] \in Wide THEN "panicked" ELSE "prompt"]
    /\ ticket' = [ticket EXCEPT ![h] = conn[h].id]
    /\ UNCHANGED <<daemonVars, answer, out, boundVars, offered>>

(* The timeout drops the connection; the daemon's task does not notice       *)
(* before it writes its response.                                            *)
TimesOut_Retries(h) ==                                        \* mutant: ask again
    /\ hook[h] = "creating"
    /\ up
    /\ conn' = [conn EXCEPT ![h] = Creating]
    /\ UNCHANGED <<up, rules, decisions, hookVars, boundVars, offered>>

TimesOut(h) ==
    /\ hook[h] = "creating"
    /\ Respond(h, "ask")
    /\ UNCHANGED <<daemonVars, ticket, answer, boundVars, offered>>

LosesDaemon(h) ==
    /\ hook[h] = "creating"
    /\ conn[h].st = "closed"
    /\ Respond(h, "ask")
    /\ UNCHANGED <<daemonVars, ticket, answer, boundVars, offered>>

(* Always-answers are answers; no terminal, Enter or q is no answer.         *)
HumanAnswers(h) ==
    /\ hook[h] = "prompt"
    /\ \E a \in Answers \cup {None} : answer' = [answer EXCEPT ![h] = a]
    /\ hook' = [hook EXCEPT ![h] = "answered"]
    /\ UNCHANGED <<daemonVars, ticket, out, boundVars, offered>>

Behavior_Verbatim(a) == IF a = None THEN "ask" ELSE a         \* mutant: no mapping

Behavior(a) == CASE a \in {"allow", "always_allow"} -> "allow"
                 [] a \in {"deny", "always_deny"}   -> "deny"
                 [] OTHER                           -> "ask"

(* A resolve that cannot be sent, or fails, is logged and forgotten.         *)
Resolve_LastRow(h) ==                                         \* mutant: the newest row
    /\ hook[h] = "answered"
    /\ up
    /\ conn' = [conn EXCEPT ![h] = Resolving(Len(decisions))]
    /\ hook' = [hook EXCEPT ![h] = "resolving"]
    /\ UNCHANGED <<up, rules, decisions, ticket, answer, out, boundVars, offered>>

Resolve(h) ==
    /\ hook[h] = "answered"
    /\ \/ /\ up
          /\ conn' = [conn EXCEPT ![h] = Resolving(ticket[h])]
          /\ hook' = [hook EXCEPT ![h] = "resolving"]
          /\ UNCHANGED out
       \/ /\ ~up
          /\ Respond(h, Behavior(answer[h]))
          /\ UNCHANGED conn
    /\ UNCHANGED <<up, rules, decisions, ticket, answer, boundVars, offered>>

ResolveReturns_OnlyOk(h) ==                                   \* mutant: insists
    /\ hook[h] = "resolving"
    /\ conn[h].st = "replied" /\ conn[h].ok
    /\ Respond(h, Behavior(answer[h]))
    /\ UNCHANGED <<daemonVars, ticket, answer, boundVars, offered>>

ResolveReturns(h) ==
    /\ hook[h] = "resolving"
    /\ conn[h].st \in {"replied", "closed"}
    /\ Respond(h, Behavior(answer[h]))
    /\ UNCHANGED <<daemonVars, ticket, answer, boundVars, offered>>

(* Claude Code's own 30 s limit on a hook; DAEMON_TIMEOUT stays below it,    *)
(* the prompt does not.                                                      *)
Killed(h) ==
    /\ hook[h] \in {"prompt", "answered", "resolving"}
    /\ hook' = [hook EXCEPT ![h] = "killed"]
    /\ UNCHANGED <<daemonVars, ticket, answer, out, boundVars, offered>>

-----------------------------------------------------------------------------
Init ==
    /\ up = TRUE
    /\ rules \in Rulesets
    /\ conn = [h \in Hooks |-> Closed]
    /\ decisions = <<>>
    /\ hook = [h \in Hooks |-> "start"]
    /\ ticket = [h \in Hooks |-> 0]
    /\ answer = [h \in Hooks |-> None]
    /\ out = [h \in Hooks |-> None]
    /\ offered = [h \in Hooks |-> {}]
    /\ faults = 0
    /\ crashes = 0

DaemonStep(h) == Evaluate(h) \/ Insert(h) \/ InsertFails(h) \/ Update(h) \/ UpdateFails(h)

HookStep(h) ==
    \/ TakeVerdict(h) \/ TakeError(h) \/ Prompt(h) \/ TimesOut(h) \/ LosesDaemon(h)
    \/ Resolve(h) \/ ResolveReturns(h)

Next ==
    \/ \E h \in Hooks : Ask(h) \/ DaemonStep(h) \/ HookStep(h) \/ HumanAnswers(h) \/ Killed(h)
    \/ SwapRules \/ Crash \/ Restart

Spec == Init /\ [][Next]_vars

(* The daemon's runtime and the hook processes run; no user has to answer,   *)
(* and nobody restarts the daemon.                                           *)
FairSpec == Spec /\ \A h \in Hooks : WF_vars(DaemonStep(h)) /\ WF_vars(HookStep(h))

(* And the user answers every prompt.                                        *)
AttendedSpec == FairSpec /\ \A h \in Hooks : WF_vars(HumanAnswers(h))

-----------------------------------------------------------------------------
(* Every variable has its type.                                             *)
TypeOK ==
    /\ up \in BOOLEAN
    /\ rules \in Rulesets
    /\ conn \in [Hooks -> [st : {"closed", "create", "insert", "resolve", "replied"},
                          decision : Verbs \cup {None}, id : Nat, ok : BOOLEAN]]
    /\ decisions \in Seq(Row)
    /\ hook \in [Hooks -> {"start", "creating", "prompt", "answered", "resolving"} \cup Ended]
    /\ ticket \in [Hooks -> Nat]
    /\ answer \in [Hooks -> Answers \cup {None}]
    /\ out \in [Hooks -> Verbs \cup {None}]
    /\ offered \in [Hooks -> SUBSET Verbs]
    /\ faults \in Nat /\ crashes \in Nat

RowsOf(h) == {i \in DOMAIN decisions : decisions[i].hook = h}

(* Whatever Claude Code is told to allow or deny has a row of that request   *)
(* in the audit table, with that decision, or with ask when a human decided  *)
(* (FR-002; handle_decisions_create answers only after the insert).          *)
EveryVerdictAudited ==
    \A h \in Hooks : out[h] \in {"allow", "deny"} =>
        \E i \in RowsOf(h) :
            decisions[i].decision = IF answer[h] = None THEN out[h] ELSE "ask"

(* No silent allow: an allow was offered by rules in force between the       *)
(* request and the answer, or given by the human (handle_permission_request).*)
NoSilentAllow ==
    \A h \in Hooks : out[h] = "allow" =>
        answer[h] \in {"allow", "always_allow"} \/ "allow" \in offered[h]

(* A row carries an answer only of its own request's human, and only if the  *)
(* rules asked, whatever daemon crashes and other requests lie between the   *)
(* two calls (update_human_answer overwrites any row it is given).           *)
AnswersStayHome ==
    \A i \in DOMAIN decisions : decisions[i].surface = "tui" =>
        /\ decisions[i].decision = "ask"
        /\ decisions[i].answer = answer[decisions[i].hook]

(* A request leaves at most one row, also when its hook gave up on the       *)
(* daemon before the row was written (DAEMON_TIMEOUT).                       *)
OneRowPerRequest == \A i, j \in DOMAIN decisions : decisions[i].hook = decisions[j].hook => i = j

(* A hook whose prompts are answered ends, whether the daemon answers,       *)
(* fails, crashes or stays down (handle_permission_request).                 *)
HookReturns == \A h \in Hooks : hook[h] = "creating" ~> hook[h] \in Ended

=============================================================================
