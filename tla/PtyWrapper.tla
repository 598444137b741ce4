----------------------------- MODULE PtyWrapper -----------------------------
(***************************************************************************)
(* `homn run` (crates/homn-hook/src/pty.rs) around the requests of         *)
(* HookDecision.  Claude Code ignores a deny its hook answers and prompts; *)
(* the wrapper sees the prompt in the terminal's output and looks for a    *)
(* recent deny in the audit table, through a connection of its own.  When  *)
(* there is one it types n for the user.                                   *)
(***************************************************************************)
EXTENDS HookDecision

CONSTANTS Wrapped,   \* requests of sessions that run under the wrapper
          Lookback,  \* PtyConfig::deny_lookback_secs
          MaxTime    \* bound: clock

ASSUME WrappedAssumption == Wrapped \subseteq Hooks
ASSUME LookbackAssumption == Lookback \in Nat /\ MaxTime \in Nat

VARIABLES
    now,       \* wall clock
    ts,        \* the timestamp of each request's row
    prompt,    \* Claude Code's prompt: none, shown, refused (n typed), left to the user
    look       \* history: when the wrapper looked, whether the query worked

ptyVars == <<now, ts, prompt, look>>

(* A step of the requests; handle_decisions_create takes the timestamp as it *)
(* evaluates.                                                                *)
RequestStep ==
    /\ Next
    /\ ts' = [h \in Hooks |-> IF conn[h].st = "create" /\ conn'[h].st = "insert"
                              THEN now ELSE ts[h]]
    /\ UNCHANGED <<now, prompt, look>>

Tick ==
    /\ now < MaxTime
    /\ now' = now + 1
    /\ UNCHANGED <<vars, ts, prompt, look>>

(* External: an allow runs the tool; anything else prompts, a deny too.      *)
ClaudePrompts(h) ==
    /\ h \in Wrapped
    /\ prompt[h] = "none"
    /\ hook[h] \in Ended
    /\ out[h] # "allow"
    /\ prompt' = [prompt EXCEPT ![h] = "shown"]
    /\ UNCHANGED <<vars, now, ts, look>>

HasRecentDeny_Exclusive ==                                    \* mutant: ts > cutoff
    \E i \in DOMAIN decisions :
        decisions[i].decision = "deny" /\ ts[decisions[i].hook] > now - Lookback

HasRecentDeny ==
    \E i \in DOMAIN decisions :
        decisions[i].decision = "deny" /\ ts[decisions[i].hook] >= now - Lookback

(* The reader thread, at the first output that completes the prompt.         *)
Detect(h) ==
    /\ prompt[h] = "shown"
    /\ prompt' = [prompt EXCEPT ![h] = IF HasRecentDeny THEN "refused" ELSE "left"]
    /\ look' = [look EXCEPT ![h] = [at |-> now, ok |-> TRUE]]
    /\ UNCHANGED <<vars, now, ts>>

(* A query that fails leaves the prompt to the user.                         *)
DetectFails(h) ==
    /\ prompt[h] = "shown"
    /\ faults < MaxFaults
    /\ faults' = faults + 1
    /\ prompt' = [prompt EXCEPT ![h] = "left"]
    /\ look' = [look EXCEPT ![h] = [at |-> now, ok |-> FALSE]]
    /\ UNCHANGED <<daemonVars, hookVars, crashes, offered, now, ts>>

PtyInit ==
    /\ Init
    /\ now = 0
    /\ ts = [h \in Hooks |-> 0]
    /\ prompt = [h \in Hooks |-> "none"]
    /\ look = [h \in Hooks |-> [at |-> 0, ok |-> FALSE]]

PtyNext ==
    \/ RequestStep \/ Tick
    \/ \E h \in Hooks : ClaudePrompts(h) \/ Detect(h) \/ DetectFails(h)

PtySpec == PtyInit /\ [][PtyNext]_<<vars, ptyVars>>

-----------------------------------------------------------------------------
(* Every variable has its type.                                             *)
PtyTypeOK ==
    /\ TypeOK
    /\ now \in Nat /\ ts \in [Hooks -> Nat]
    /\ prompt \in [Hooks -> {"none", "shown", "refused", "left"}]
    /\ look \in [Hooks -> [at : Nat, ok : BOOLEAN]]

(* A deny by rule that Claude Code was told of is typed for the user as long *)
(* as its prompt comes within the lookback of the decision: the row is there *)
(* before the answer is (pty.rs, has_recent_deny_sync).                      *)
DenyEnforcedInTime ==
    \A h \in Hooks :
        (out[h] = "deny" /\ answer[h] = None /\ prompt[h] = "left" /\ look[h].ok)
            => look[h].at > ts[h] + Lookback

=============================================================================
