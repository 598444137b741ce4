---------------------------- MODULE CommandLine ----------------------------
(***************************************************************************)
(* The commands of `homn` that edit files of the user                      *)
(* (crates/homn-bin/src/main.rs; install.rs and setup.rs of homn-hook;     *)
(* append_rule_to_policy of homn-learning):                                *)
(*    rules     policies/default.rhai, a sequence of rules                 *)
(*    ingest    policies/ingest.rhai, a sequence of exclude blocks         *)
(*    settings  Claude Code's settings.json, a sequence of hook entries    *)
(* A command is a process with a list of stages.  A stage that edits reads *)
(* the file and computes its new text (`plan`), then writes it in place,   *)
(* which truncates first, or by a temporary file and a rename.  A command  *)
(* may be killed anywhere.                                                 *)
(***************************************************************************)
EXTENDS RuleLearning, Listing, SequencesExt

CONSTANTS Cli,          \* processes of the command line
          UserRules,    \* rules given to `homn rule add`
          Targets,      \* apps given to `homn exclude`
          StartsWith,   \* pairs <<t, u>>: the text of t starts with that of u
          Quotes,       \* pairs <<l, r>>: line l of a policy has the text of rule r in it
          UserEntries,  \* hook entries of the user
          Commands,     \* the commands a run issues
          Absent,       \* a file that is not there
          Blank,        \* a file that has been truncated
          MaxCommands,  \* bound: commands issued
          MaxFaults,    \* bound: commands killed, files read_to_string cannot read
          MaxEdits      \* bound: edits of settings.json by the user

Files == {"rules", "ingest", "settings"}
Starter == [verb |-> "starter"]   \* the text a profile seeds
Shipped == [target |-> None]      \* the text of the shipped ingest policy
OurEntry == [ours |-> TRUE, runs |-> {"homn hook"}]

(* What stands where the array of hook entries should: settings, hooks or    *)
(* PermissionRequest of another shape.                                       *)
Odd == [ours |-> FALSE, runs |-> {"of another shape"}]

Entries == UserEntries \cup {OurEntry, Odd}
LinesOf(f) == CASE f = "rules"    -> UserRules \cup {Starter}
                                        \cup {RuleFor(p, v) : p \in Patterns, v \in {"allow", "deny"}}
                [] f = "ingest"   -> {Shipped} \cup {[target |-> t] : t \in Targets}
                [] f = "settings" -> Entries

(* What a command is given: a rule, a pattern, an app or nothing.            *)
Args(cmd) == CASE cmd = "add"                      -> UserRules
               [] cmd = "accept"                   -> Patterns
               [] cmd \in {"exclude", "include"}    -> Targets
               [] OTHER                            -> {None}

ASSUME CommandsAssumption ==
    \A c \in Commands :
        /\ c.cmd \in {"add", "edit", "accept", "exclude", "include", "install", "setup",
                     "uninstall", "purge"}
        /\ c.arg \in Args(c.cmd)
(* The user's own lines are none of the commands'.                           *)
ASSUME LinesAssumption ==
    /\ UserRules \cap {RuleFor(p, v) : p \in Patterns, v \in {"allow", "deny"}} = {}
    /\ None \notin Targets
    /\ \A e \in UserEntries : e.ours = FALSE /\ e # Odd
ASSUME MarksAssumption ==
    /\ Absent # Blank /\ None \notin Files
    /\ \A f \in Files : \A m \in {Absent, Blank, None} : m \notin Seq(LinesOf(f))
    /\ None \notin Suggestion /\ None \notin Recording
ASSUME BoundsAssumption == MaxCommands \in Nat /\ MaxFaults \in Nat /\ MaxEdits \in Nat

VARIABLES
    files,    \* the files
    tmp,      \* the temporary file next to each
    backup,   \* the backups of settings.json, in the order of their seconds
    service,  \* whether the service is installed
    job,      \* the commands running
    issued, faults, edits,   \* bounds
    acked,    \* history: what commands and the user have put in each file
    excused   \* history: how each file may have lost text

fileVars == <<files, tmp, backup, service>>
boundVars == <<issued, faults, edits>>
cliVars == <<learningVars, fileVars, job, boundVars, acked, excused>>

Text(f) == IF files[f] \in {Absent, Blank} THEN <<>> ELSE files[f]

Has(text, line) == \E i \in DOMAIN text : text[i] = line

-----------------------------------------------------------------------------
(* What each stage makes of the text it read: the new text, or None when     *)
(* there is nothing to write.                                                *)

AddRule(text, rule) == Append(text, rule)             \* rule_command, Add

(* append_rule_to_policy looks for the rule's text anywhere in the file's.   *)
AppendLearned(text, rule) ==
    IF \E i \in DOMAIN text : text[i] = rule \/ <<text[i], rule>> \in Quotes
    THEN None ELSE Append(text, rule)

AddExclude(text, t) ==
    IF Has(text, [target |-> t]) THEN None ELSE Append(text, [target |-> t])

RemoveExclude_All(text, t) ==                         \* mutant: every marked block
    LET rest == SelectSeq(text, LAMBDA b : b.target = None) IN IF rest = text THEN None ELSE rest

(* The first block whose marker line starts with the one of t.               *)
RemoveExclude(text, t) ==
    LET found == {i \in DOMAIN text : /\ text[i].target # None
                                      /\ <<text[i].target, t>> \in StartsWith}
    IN IF found = {} THEN None ELSE RemoveAt(text, Min(found))

IsHomnEntry(e) == e.ours

MergeHook_Always(text) == Append(text, OurEntry)       \* mutant: no look for our entry

(* merge_install_snippet: what has another shape is replaced.                *)
MergeHook(text) ==
    IF \E i \in DOMAIN text : IsHomnEntry(text[i]) THEN None
    ELSE Append(Only(text, Entries \ {Odd}), OurEntry)

(* entry_is_homn_removable: our marker, or any hook that runs `homn hook`.   *)
Removable(e) == e.ours \/ "homn hook" \in e.runs

RemoveHook(text) ==
    LET rest == Only(text, {e \in Entries : ~Removable(e)})
    IN IF rest = text THEN None ELSE rest

-----------------------------------------------------------------------------
(* The stages of the commands.                                               *)

Stage(kind, arg) == [kind |-> kind, arg |-> arg]

AcceptStages_Swapped(q) == <<Stage("append", q), Stage("mark", q)>>   \* mutant

AcceptStages(q) == <<Stage("mark", q), Stage("append", q)>>

StagesOf(c) ==
    CASE c.cmd = "add"       -> <<Stage("add", c.arg)>>
      [] c.cmd = "edit"      -> <<Stage("seed_rules", None)>>
      [] c.cmd = "accept"    -> AcceptStages(c.arg)
      [] c.cmd = "exclude"   -> <<Stage("exclude", c.arg)>>
      [] c.cmd = "include"   -> <<Stage("include", c.arg)>>
      [] c.cmd = "install"   -> <<Stage("hook", None)>>
      [] c.cmd = "setup"     -> <<Stage("seed_rules", None), Stage("seed_ingest", None),
                                  Stage("hook", None), Stage("service", None)>>
      [] c.cmd = "uninstall" -> <<Stage("unservice", None), Stage("unhook", None)>>
      [] c.cmd = "purge"     -> <<Stage("unservice", None), Stage("unhook", None),
                                  Stage("purge", None)>>

FileOf(s) ==
    CASE s.kind \in {"add", "append", "seed_rules"}          -> "rules"
      [] s.kind \in {"exclude", "include", "seed_ingest"}    -> "ingest"
      [] s.kind \in {"hook", "unhook"}                       -> "settings"
      [] OTHER                                               -> None

LearnedRule(p) == RuleFor(p, suggestions[p].verb)

(* The new text of an edit, from the text it read.                           *)
NewText(s, text) ==
    CASE s.kind = "add"         -> AddRule(text, s.arg)
      [] s.kind = "append"      -> AppendLearned(text, LearnedRule(s.arg))
      [] s.kind = "exclude"     -> AddExclude(text, s.arg)
      [] s.kind = "include"     -> RemoveExclude(text, s.arg)
      [] s.kind = "hook"        -> MergeHook(text)
      [] s.kind = "unhook"      -> RemoveHook(text)
      [] s.kind = "seed_rules"  -> IF files.rules = Absent THEN <<Starter>> ELSE None
      [] s.kind = "seed_ingest" -> IF files.ingest = Absent THEN <<Shipped>> ELSE None

(* append_rule_to_policy and a merge into a settings file that is there go   *)
(* by a rename; settings.json is backed up first.                            *)
ByRename(s) == s.kind \in {"append", "unhook"} \/ (s.kind = "hook" /\ files.settings # Absent)

Idle == [at |-> "idle", todo |-> <<>>, seen |-> <<>>, text |-> <<>>]

Purging(p) == \E i \in DOMAIN job[p].todo : job[p].todo[i].kind = "purge"

(* A purge runs alone: a name for what the model leaves out, the commands    *)
(* whose directory goes away under them.                                     *)
Issue(p, c) ==
    /\ job[p] = Idle
    /\ issued < MaxCommands
    /\ c.cmd = "accept" => suggestions[c.arg] # None
    /\ IF c.cmd = "purge" THEN \A q \in Cli : job[q] = Idle ELSE \A q \in Cli : ~Purging(q)
    /\ issued' = issued + 1
    /\ job' = [job EXCEPT ![p] = [Idle EXCEPT !.at = "stage", !.todo = StagesOf(c)]]
    /\ UNCHANGED <<learningVars, fileVars, faults, edits, acked, excused>>

Here(p) == Head(job[p].todo)

(* The stage is over; the command goes on or returns.                        *)
Advance(p) ==
    job' = [job EXCEPT ![p] = IF Len(job[p].todo) = 1 THEN Idle
                              ELSE [Idle EXCEPT !.at = "stage", !.todo = Tail(job[p].todo)]]

(* The line a stage reports in its file.                                     *)
Reported(s) == CASE s.kind = "add"     -> {s.arg}
                 [] s.kind = "append"  -> {LearnedRule(s.arg)}
                 [] s.kind = "exclude" -> {[target |-> s.arg]}
                 [] OTHER              -> {}

(* Stage s is over with this text: the file is known to hold the line, or (a *)
(* learned rule found in another line) not to.                               *)
Acknowledge(s, text) ==
    acked' = [acked EXCEPT ![FileOf(s)] = @ \cup {line \in Reported(s) : Has(text, line)}]

Excuse(f, why, cond) ==
    excused' = IF cond THEN [excused EXCEPT ![f] = @ \cup {why}] ELSE excused

(* What the stage reads decides what it writes.                              *)
Plan(p, text) ==
    LET s == Here(p)
        f == FileOf(s)
        new == NewText(s, text)
    IN IF new = None
       THEN Acknowledge(s, text) /\ Advance(p)
       ELSE /\ job' = [job EXCEPT ![p].at = IF ~ByRename(s) THEN "truncate"
                                            ELSE IF f = "settings" THEN "copy" ELSE "tmp",
                                  ![p].seen = files[f], ![p].text = new]
            /\ UNCHANGED acked

(* A blank settings.json does not parse for the uninstall, which ends there. *)
Unparsable(s) == s.kind = "unhook" /\ files.settings = Blank

Read(p) ==
    /\ job[p].at = "stage" /\ FileOf(Here(p)) # None
    /\ ~Unparsable(Here(p))
    /\ Plan(p, Text(FileOf(Here(p))))
    /\ UNCHANGED <<learningVars, fileVars, boundVars, excused>>

ReadFails(p) ==
    /\ job[p].at = "stage" /\ FileOf(Here(p)) # None
    /\ Unparsable(Here(p))
    /\ job' = [job EXCEPT ![p] = Idle]
    /\ UNCHANGED <<learningVars, fileVars, boundVars, acked, excused>>

(* read_to_string(..).unwrap_or_default(): a file that is there and cannot   *)
(* be read counts as empty.                                                  *)
Misread(p) ==
    /\ job[p].at = "stage" /\ Here(p).kind \in {"add", "append", "exclude"}
    /\ faults < MaxFaults
    /\ faults' = faults + 1
    /\ Plan(p, <<>>)
    /\ Excuse(FileOf(Here(p)), "misread", TRUE)
    /\ UNCHANGED <<learningVars, fileVars, issued, edits>>

(* std::fs::write, in its two steps.  A removal is acknowledged by the first:*)
(* what was asked to go, and all that starts like it, may be gone.           *)
Truncate(p) ==
    LET f == FileOf(Here(p))
    IN /\ job[p].at = "truncate"
       /\ files' = [files EXCEPT ![f] = Blank]
       /\ job' = [job EXCEPT ![p].at = "fill"]
       /\ Excuse(f, "raced", files[f] # job[p].seen)
       /\ acked' = IF Here(p).kind = "include"
                   THEN [acked EXCEPT !.ingest =
                           {b \in @ : <<b.target, Here(p).arg>> \notin StartsWith}]
                   ELSE acked
       /\ UNCHANGED <<learningVars, tmp, backup, service, boundVars>>

(* The write.  (Behind a rename in between it would reach the file that was  *)
(* replaced; here it lands, and the file is excused either way.)             *)
Fill(p) ==
    LET f == FileOf(Here(p))
    IN /\ job[p].at = "fill"
       /\ files' = [files EXCEPT ![f] = job[p].text]
       /\ Acknowledge(Here(p), job[p].text) /\ Advance(p)
       /\ Excuse(f, "raced", files[f] # Blank)
       /\ UNCHANGED <<learningVars, tmp, backup, service, boundVars>>

Copy_Ours(p) ==                                        \* mutant: backs up our entries only
    /\ job[p].at = "copy"
    /\ backup' = Append(backup, SelectSeq(job[p].text, IsHomnEntry))
    /\ job' = [job EXCEPT ![p].at = "tmp"]
    /\ UNCHANGED <<learningVars, files, tmp, service, boundVars, acked, excused>>

(* A second copy in the same second replaces the first.                      *)
Copy(p) ==
    /\ job[p].at = "copy"
    /\ \/ backup' = Append(backup, files.settings)
       \/ /\ backup # <<>>
          /\ backup' = [backup EXCEPT ![Len(backup)] = files.settings]
    /\ job' = [job EXCEPT ![p].at = "tmp"]
    /\ UNCHANGED <<learningVars, files, tmp, service, boundVars, acked, excused>>

(* The temporary file has one name for every process.                        *)
OpenTmp(p) ==
    /\ job[p].at = "tmp"
    /\ tmp' = [tmp EXCEPT ![FileOf(Here(p))] = Blank]
    /\ job' = [job EXCEPT ![p].at = "tmp_fill"]
    /\ UNCHANGED <<learningVars, files, backup, service, boundVars, acked, excused>>

(* Behind another's rename the write reaches the file itself.  (Two writes at*)
(* once may leave a mix of both; here the later one stands.)                 *)
WriteTmp(p) ==
    LET f == FileOf(Here(p))
    IN /\ job[p].at = "tmp_fill"
       /\ IF tmp[f] # Absent
          THEN tmp' = [tmp EXCEPT ![f] = job[p].text] /\ UNCHANGED files
          ELSE files' = [files EXCEPT ![f] = job[p].text] /\ UNCHANGED tmp
       /\ job' = [job EXCEPT ![p].at = "rename"]
       /\ Excuse(f, "raced", tmp[f] = Absent)
       /\ UNCHANGED <<learningVars, backup, service, boundVars, acked>>

Rename(p) ==
    LET f == FileOf(Here(p))
    IN /\ job[p].at = "rename"
       /\ tmp[f] # Absent
       /\ files' = [files EXCEPT ![f] = tmp[f]]
       /\ tmp' = [tmp EXCEPT ![f] = Absent]
       /\ Acknowledge(Here(p), job[p].text) /\ Advance(p)
       /\ Excuse(f, "raced", files[f] # job[p].seen \/ tmp[f] # job[p].text)
       /\ UNCHANGED <<learningVars, backup, service, boundVars>>

RenameFails(p) ==
    /\ job[p].at = "rename"
    /\ tmp[FileOf(Here(p))] = Absent
    /\ job' = [job EXCEPT ![p] = Idle]
    /\ UNCHANGED <<learningVars, fileVars, boundVars, acked, excused>>

Mark(p) ==
    /\ job[p].at = "stage" /\ Here(p).kind = "mark"
    /\ MarkAccepted(Here(p).arg)
    /\ Advance(p)
    /\ UNCHANGED <<observed, recording, fileVars, boundVars, acked, excused>>

(* The unit is written, then systemctl or launchctl is run and may fail.     *)
InstallService(p) ==
    /\ job[p].at = "stage" /\ Here(p).kind = "service"
    /\ service' = TRUE
    /\ Advance(p)
    /\ UNCHANGED <<learningVars, files, tmp, backup, boundVars, acked, excused>>

RemoveService(p) ==
    /\ job[p].at = "stage" /\ Here(p).kind = "unservice"
    /\ service' = FALSE
    /\ Advance(p)
    /\ UNCHANGED <<learningVars, files, tmp, backup, boundVars, acked, excused>>

(* The directories of the policies and of the databases.                     *)
Purge(p) ==
    /\ job[p].at = "stage" /\ Here(p).kind = "purge"
    /\ files' = [files EXCEPT !.rules = Absent, !.ingest = Absent]
    /\ tmp' = [tmp EXCEPT !.rules = Absent]
    /\ acked' = [acked EXCEPT !.rules = {}, !.ingest = {}]
    /\ observed' = <<>> /\ recording' = [r \in Recorders |-> None]
    /\ suggestions' = [q \in Patterns |-> None]
    /\ Advance(p)
    /\ UNCHANGED <<backup, service, boundVars, excused>>

Kill(p) ==
    /\ job[p] # Idle
    /\ faults < MaxFaults
    /\ faults' = faults + 1
    /\ job' = [job EXCEPT ![p] = Idle]
    /\ Excuse(FileOf(Here(p)), "torn", job[p].at = "fill")
    /\ UNCHANGED <<learningVars, fileVars, issued, edits, acked>>

(* External: the user, or Claude Code, adds an entry, or leaves the file in  *)
(* another shape; under a command's feet that is an overlap of two writers.  *)
UserAddsEntry(e) ==
    /\ edits < MaxEdits
    /\ edits' = edits + 1
    /\ files' = [files EXCEPT !.settings = Append(Only(Text("settings"), Entries \ {Odd}), e)]
    /\ acked' = IF Removable(e) THEN acked ELSE [acked EXCEPT !.settings = @ \cup {e}]
    /\ UNCHANGED <<learningVars, tmp, backup, service, job, issued, faults, excused>>

UserSpoils ==
    /\ edits < MaxEdits
    /\ edits' = edits + 1
    /\ files' = [files EXCEPT !.settings = <<Odd>>]
    /\ acked' = [acked EXCEPT !.settings = {}]
    /\ Excuse("settings", "raced", \E p \in Cli : job[p].at \notin {"idle", "stage"}
                                                /\ FileOf(Here(p)) = "settings")
    /\ UNCHANGED <<learningVars, tmp, backup, service, job, issued, faults>>

Step(p) ==
    \/ \E c \in Commands : Issue(p, c)
    \/ Read(p) \/ ReadFails(p) \/ Misread(p) \/ Truncate(p) \/ Fill(p)
    \/ Copy(p) \/ OpenTmp(p) \/ WriteTmp(p) \/ Rename(p) \/ RenameFails(p)
    \/ Mark(p) \/ InstallService(p) \/ RemoveService(p) \/ Purge(p)
    \/ Kill(p)

(* Learning, beside the files; a command is `homn learning reject`.          *)
Learn ==
    /\ Record \/ \E p \in Patterns : Reject(p)
    /\ UNCHANGED <<fileVars, job, boundVars, acked, excused>>

Init ==
    /\ LearningInit
    /\ files = [f \in Files |-> Absent]
    /\ tmp = [f \in Files |-> Absent]
    /\ backup = <<>>
    /\ service = FALSE
    /\ job = [p \in Cli |-> Idle]
    /\ issued = 0 /\ faults = 0 /\ edits = 0
    /\ acked = [f \in Files |-> {}]
    /\ excused = [f \in Files |-> {}]

Next ==
    \/ \E p \in Cli : Step(p)
    \/ Learn
    \/ (\E e \in UserEntries : UserAddsEntry(e)) \/ UserSpoils

Spec == Init /\ [][Next]_cliVars

-----------------------------------------------------------------------------
(* Every variable has its type.                                              *)
TypeOK ==
    /\ LearningTypeOK
    /\ \A f \in Files :
          /\ files[f] \in Seq(LinesOf(f)) \cup {Absent, Blank}
          /\ tmp[f] \in Seq(LinesOf(f)) \cup {Absent, Blank}
          /\ acked[f] \subseteq LinesOf(f)
          /\ excused[f] \subseteq {"torn", "raced", "misread"}
    /\ backup \in Seq(Seq(Entries) \cup {Blank})
    /\ service \in BOOLEAN
    /\ \A p \in Cli : job[p].at \in {"idle", "stage", "truncate", "fill", "copy", "tmp", "tmp_fill", "rename"}

(* What a command has reported in a file, and what the user has put in it,   *)
(* is in it until a command asked to takes it out: a line is lost only when  *)
(* a write was cut off, when two writers overlapped, or when a file that was *)
(* there could not be read (rule_command, append_rule_to_policy,             *)
(* add_exclude, remove_exclude, run_install, run_uninstall, run_setup).      *)
AcknowledgedKept ==
    \A f \in Files : excused[f] = {} => \A line \in acked[f] :
        \/ Has(Text(f), line)
        \/ \E p \in Cli : job[p].at = "fill" /\ FileOf(Here(p)) = f /\ Has(job[p].text, line)

(* Whatever installs, setups, uninstalls and kills overlap, settings.json    *)
(* never holds the marked hook twice (merge_install_snippet).                *)
HookedOnce ==
    Cardinality({i \in DOMAIN Text("settings") : IsHomnEntry(Text("settings")[i])}) <= 1

(* FR-008, "suggestions are never auto-promoted": a learned rule is in the   *)
(* policy only behind a suggestion somebody has answered (Accept in main.rs).*)
PromotedOnlyIfAccepted ==
    \A p \in Patterns : \A v \in {"allow", "deny"} :
        Has(Text("rules"), RuleFor(p, v)) =>
            /\ suggestions[p] # None
            /\ suggestions[p].state # "open"

(* A rename over settings.json leaves a backup with every entry of others    *)
(* that it replaced (run_install and run_uninstall copy before they write).  *)
BackedUp ==
    [][\A p \in Cli :
         (/\ job[p].at = "rename" /\ job'[p].at # "rename" /\ FileOf(Here(p)) = "settings"
          /\ files'.settings # files.settings /\ excused'.settings = {})
            => \A j \in DOMAIN Text("settings") :
                  \/ Removable(Text("settings")[j])
                  \/ \E i \in DOMAIN backup :
                         backup[i] # Blank /\ Has(backup[i], Text("settings")[j])]_cliVars

-----------------------------------------------------------------------------

(* Rule learning: what it suggests has been earned by a run of equal         *)
(* answers, however recorders overlap, and nothing it suggests is a rule     *)
(* before somebody has answered it.                                          *)
LearnedRulesAreEarned == SuggestionsAreEarned /\ PromotedOnlyIfAccepted

(* The files the commands share: well formed, nothing reported in them is    *)
(* lost, and the hook stands in settings.json once.                          *)
FilesKeepTheirLines == TypeOK /\ AcknowledgedKept /\ HookedOnce
=============================================================================
