----------------------------- MODULE McpServer -----------------------------
(***************************************************************************)
(* The MCP server (homn-mcp) over the files of MemoryStores: a session     *)
(* that may hold the brain, the rolling quota every call passes first, and *)
(* the six tools that read.  A tool changes nothing, so each is an operator*)
(* over the state at the call; Call is the call as the quota sees it.      *)
(***************************************************************************)
EXTENDS MemoryStores

CONSTANTS Cues,           \* texts a cue or a subject may be
          Names,          \* people
          Ks,             \* k of recall
          Cutoffs,        \* dates promises are asked for until, None for all
          Like,           \* <<asked, topic>>: LIKE finds the topic by what is asked
          PerMilli,       \* instants of the clock to a millisecond of the databases
          MaxPerWindow, Window,
          MaxCalls        \* bound

Statuses == {"open", "fulfilled", "overdue", "cancelled"}

ASSUME StatusesAssumption == None \notin Statuses
ASSUME KsAssumption == Ks \subseteq Nat
ASSUME CutoffsAssumption == Cutoffs \subseteq Int \cup {None}
ASSUME LikeAssumption == Like \subseteq Texts \X Texts
ASSUME PerMilliAssumption == PerMilli \in Nat \ {0}
ASSUME QuotaAssumption == MaxPerWindow \in Nat \ {0} /\ Window \in Nat \ {0}

VARIABLES
    session,    \* "closed" or "open"
    opened,     \* the episodes of the directory the session has open
    permits,    \* the permits of the semaphore
    pending,    \* when each spawned task gives its permit back, oldest first
    admitted    \* history: when each admitted call came

mcpVars == <<session, opened, permits, pending, admitted>>
vars == <<memoryVars, mcpVars>>

-----------------------------------------------------------------------------
(* RateLimiter.                                                              *)

(* `homn mcp --brain`; a brain another process holds is an error, so what    *)
(* the session opens stays what it is until it ends, also when destroy has   *)
(* removed the directory from under it.  The limiter is new with the         *)
(* process.  (Without --brain the tools that need one answer an error.)      *)
Connect ==
    /\ session = "closed" /\ holder = None
    /\ session' = "open" /\ opened' = brain
    /\ holder' = "mcp"
    /\ permits' = MaxPerWindow /\ pending' = <<>> /\ admitted' = <<>>
    /\ UNCHANGED <<brain, minted, promises, beliefs, mark, receipts,
                   daemon, forgetter, destroyer, now, used, past>>

Disconnect ==
    /\ session = "open"
    /\ session' = "closed" /\ opened' = {}
    /\ holder' = IF holder = "mcp" THEN None ELSE holder
    /\ permits' = 0 /\ pending' = <<>> /\ admitted' = <<>>
    /\ UNCHANGED <<brain, minted, promises, beliefs, mark, receipts,
                   daemon, forgetter, destroyer, now, used, past>>

ReleaseAt_Calendar == Window * (now \div Window + 1)   \* mutant: a fixed window, not a rolling one

ReleaseAt == now + Window

(* check, first in every tool: without a permit the call is an error.        *)
Call ==
    /\ session = "open" /\ permits > 0 /\ Len(admitted) < MaxCalls
    /\ permits' = permits - 1
    /\ pending' = Append(pending, ReleaseAt)
    /\ admitted' = Append(admitted, now)
    /\ UNCHANGED <<memoryVars, session, opened>>

(* The sleep of the spawned task ends at its time or later, never before it. *)
GiveBack ==
    /\ pending # <<>> /\ pending[1] <= now
    /\ pending' = Tail(pending)
    /\ permits' = permits + 1
    /\ UNCHANGED <<memoryVars, session, opened, admitted>>

-----------------------------------------------------------------------------
(* The brain the tools read (MemoryBrain; AgidbBrain hands the same on).     *)

Min2(a, b) == IF a < b THEN a ELSE b

(* 2: the text contains the cue; 1: some of its words; 0: none.              *)
Score(e, cue) ==
    IF cue \in Feed[e.obs].says THEN 2 ELSE IF cue \in Feed[e.obs].hints THEN 1 ELSE 0

(* By score, then the older.                                                 *)
Ranked(cue) ==
    {p \in opened \X opened :
        \/ Score(p[1], cue) > Score(p[2], cue)
        \/ Score(p[1], cue) = Score(p[2], cue) /\ p[1].id < p[2].id}

BrainRecall(cue, asOf, k) ==
    LET hits == Listed({e \in opened : Score(e, cue) > 0 /\ (asOf # None => e.at <= asOf)},
                       Ranked(cue))
    IN SubSeq(hits, 1, Min2(k, Len(hits)))

ByTime ==
    {p \in opened \X opened : p[1].at < p[2].at \/ (p[1].at = p[2].at /\ p[1].id < p[2].id)}

(* Both ends of the window count; no subject is any subject.                 *)
BrainTimeline(subject, from, to) ==
    Listed({e \in opened : /\ from <= e.at /\ e.at <= to
                           /\ subject = None \/ subject \in Feed[e.obs].says},
           ByTime)

-----------------------------------------------------------------------------
(* The stores the tools read.                                                *)

(* DateTime::timestamp_millis: what the databases keep of an instant.        *)
Millis(t) == t \div PerMilli

(* Commitment::is_overdue.                                                   *)
IsOverdue(row, t) == row.status = "open" /\ row.due # None /\ row.due < t

(* MemoryCommitmentStore::query, with every instant as it is.                *)
QueryRows(status, cutoff, t) ==
    {i \in DOMAIN promises :
        LET row == promises[i]
        IN /\ cutoff = None \/ row.due = None \/ row.due <= cutoff
           /\ CASE status = None      -> TRUE
                [] status = "overdue" -> IsOverdue(row, t)
                [] OTHER              -> /\ row.status = status
                                         /\ ~(status = "open" /\ IsOverdue(row, t))}

DueSql(row, ms) == row.due # None /\ Millis(row.due) < ms

QuerySql_DueNow(status, cutoff, t) ==                  \* mutant: due_ms > ? for open
    {i \in DOMAIN promises :
        LET row == promises[i]
        IN /\ cutoff = None \/ row.due = None \/ Millis(row.due) <= Millis(cutoff)
           /\ CASE status = None      -> TRUE
                [] status = "open"    -> row.status = "open" /\ ~DueSql(row, Millis(t) + 1)
                [] status = "overdue" -> row.status = "open" /\ DueSql(row, Millis(t))
                [] OTHER              -> row.status = status}

(* SqliteCommitmentStore::query: `overdue` is no stored status.              *)
QuerySql(status, cutoff, t) ==
    {i \in DOMAIN promises :
        LET row == promises[i]
        IN /\ cutoff = None \/ row.due = None \/ Millis(row.due) <= Millis(cutoff)
           /\ CASE status = None      -> TRUE
                [] status = "open"    -> row.status = "open" /\ ~DueSql(row, Millis(t))
                [] status = "overdue" -> row.status = "open" /\ DueSql(row, Millis(t))
                [] OTHER              -> row.status = status}

(* ORDER BY created_at_ms ASC: which comes first of two; rows of one         *)
(* millisecond come in any order.                                            *)
CreatedBefore(i, j) == Millis(promises[i].created) < Millis(promises[j].created)

(* SqliteBeliefStore::query, the rows; no topic is any topic.  The row that  *)
(* comes back is the one inserted: it never says it is superseded.           *)
QueryBeliefs(topic, currentOnly) ==
    {j \in DOMAIN beliefs : /\ topic = None \/ <<topic, beliefs[j].topic>> \in Like
                            /\ currentOnly => IsCurrent(beliefs[j])}

SortsAhead_ByTime(j, k) == beliefs[j].from > beliefs[k].from  \* mutant: valid_from_ms DESC alone

(* Its ORDER BY: the current ones, then the newest; ties in any order.       *)
SortsAhead(j, k) ==
    \/ IsCurrent(beliefs[j]) /\ ~IsCurrent(beliefs[k])
    \/ (IsCurrent(beliefs[j]) <=> IsCurrent(beliefs[k])) /\ beliefs[j].from > beliefs[k].from

-----------------------------------------------------------------------------
(* The tools.  Refused is the error a caller gets instead of an answer.      *)

Refused == None

(* A session opened before destroy goes on with what it opened.              *)
HasBrain == session = "open"

Recall(cue, asOf, k) ==
    IF ~HasBrain THEN Refused
    ELSE BrainRecall(cue, asOf, IF k < 1 THEN 1 ELSE Min2(k, 50))

Timeline(subject, from, to) ==
    IF ~HasBrain \/ from > to THEN Refused ELSE BrainTimeline(subject, from, to)

Commitments(status, dueBefore) ==
    IF status \notin Statuses \cup {None} THEN Refused
    ELSE QuerySql(status, dueBefore, now)

Beliefs(topic, currentOnly) == QueryBeliefs(topic, currentOnly)

Latest(hits) == IF hits = <<>> THEN None
                ELSE hits[CHOOSE i \in DOMAIN hits :
                            /\ \A j \in DOMAIN hits : hits[j].at <= hits[i].at
                            /\ \A j \in DOMAIN hits : j > i => hits[j].at < hits[i].at]

Whodis(name) ==
    LET hits == BrainRecall(name, None, 50)
    IN IF ~HasBrain THEN Refused
       ELSE [interactions |-> Len(hits), last |-> Latest(hits),
             openLoops |-> {i \in QuerySql("open", None, now) : promises[i].with = name}]

(* Midnight to midnight; the commitments are those still open then, so that  *)
(* what is overdue is left out and what has no date is in.                   *)
Today(from, to) ==
    IF ~HasBrain THEN Refused
    ELSE LET did == BrainTimeline(None, from, to)
         IN [sessions |-> did, count |-> Len(did), touched |-> QuerySql("open", to, now)]

(* forget: `homn mcp` wires no handle, so whatever is asked is refused.      *)
ForgetTool(scope) == Refused

-----------------------------------------------------------------------------
Init ==
    /\ MemoryInit
    /\ session = "closed" /\ opened = {}
    /\ permits = 0 /\ pending = <<>> /\ admitted = <<>>

Next ==
    \/ MemoryNext /\ UNCHANGED mcpVars
    \/ Connect \/ Disconnect \/ Call \/ GiveBack

Spec == Init /\ [][Next]_vars

-----------------------------------------------------------------------------
(* Every variable has its type.                                              *)
TypeOK ==
    /\ MemoryTypeOK
    /\ session \in {"closed", "open"} /\ opened \subseteq Episode
    /\ permits \in 0 .. MaxPerWindow
    /\ \A i \in DOMAIN pending : pending[i] \in Nat
    /\ admitted \in Seq(Nat)

(* No interval as long as the window ever sees more calls than the quota,    *)
(* and no permit is lost: what is not in the pool is on its way back         *)
(* (RateLimiter::check).                                                     *)
RollingQuota ==
    /\ \A i \in DOMAIN admitted :
          i + MaxPerWindow \in DOMAIN admitted => admitted[i + MaxPerWindow] - admitted[i] >= Window
    /\ session = "open" => permits + Len(pending) = MaxPerWindow

(* An episode a receipt allows to be seen: one it left; or a new one, of an  *)
(* observation the watermark had not passed when the receipt was written.    *)
Allowed(e) ==
    \A f \in past.forgotten :
        e.obs = f.obs => e \in f.rest \/ (e.id > f.minted /\ e.obs > f.mark)

Clean(answer) == answer # Refused => \A i \in DOMAIN answer : Allowed(answer[i])

(* After a receipt, an episode that was forgotten surfaces in no tool that   *)
(* reads the brain, and neither does its observation, whatever crashes,      *)
(* replays and restarts follow, unless a replay stores it anew because no    *)
(* watermark had passed it when the receipt was written (a batch was cut     *)
(* off, and forget does not ask the watermark), or forget left another       *)
(* episode of it.  A session whose brain was destroyed under it is another   *)
(* matter (AgidbStore::forget, forget_command, tick).                        *)
ForgottenStaysForgotten ==
    past.forgotten # {} /\ holder = "mcp" =>
        /\ \A cue \in Cues, asOf \in {None, now}, k \in Ks : Clean(Recall(cue, asOf, k))
        /\ \A subject \in Cues \cup {None} : Clean(Timeline(subject, 0, now))
        /\ \A name \in Names : Whodis(name).last # None => Allowed(Whodis(name).last)
        /\ Clean(Today(0, now).sessions)

(* A promise due in the millisecond of an instant.                           *)
SameMilli(i, t) == t # None /\ promises[i].due # None /\ Millis(promises[i].due) = Millis(t)

(* The SQL of the commitments tool, in milliseconds, answers as the          *)
(* in-memory store does, for every filter and at every moment, but for the   *)
(* promises due in the very millisecond of the call or of the cutoff; and of *)
(* those it hides none that is open and shows none as late that is not.      *)
(* Every promise stored as open is in one of its two answers, open or        *)
(* overdue, and none is listed ahead of one written before it                *)
(* (CommitmentStore::query).                                                 *)
StoresAgree ==
    /\ \A status \in Statuses \cup {None}, cutoff \in Cutoffs :
          LET sql == Commitments(status, cutoff)  exact == QueryRows(status, cutoff, now)
          IN /\ \A i \in (sql \ exact) \cup (exact \ sql) : SameMilli(i, now) \/ SameMilli(i, cutoff)
             /\ status = "open" => exact \subseteq sql
             /\ status = "overdue" /\ cutoff = None => sql \subseteq exact
    /\ LET open == Commitments("open", None)  overdue == Commitments("overdue", None)
       IN \A i \in DOMAIN promises :
             promises[i].status = "open" => (i \in open) # (i \in overdue)
    /\ \A i, j \in DOMAIN promises : i < j => ~CreatedBefore(j, i)

(* The answer of the beliefs tool, read while the daemon writes: what comes  *)
(* first is current, and not of an observation before the last marked one on *)
(* its topic (unless an UPDATE failed).  No row is current only while each   *)
(* topic in the answer is between the two statements of a belief, or was     *)
(* left there by a crash, until the replay, or by an INSERT that failed      *)
(* (SqliteBeliefStore::query).                                               *)
CurrentLeads ==
    \A topic \in Texts \cup {None} :
        LET answer == Beliefs(topic, FALSE)  current == Beliefs(topic, TRUE)
        IN \A j \in answer :
              (\A k \in answer : ~SortsAhead(k, j)) =>
                  \/ /\ j \in current
                     /\ "supersede" \notin used.failed =>
                           \A i \in 1 .. mark :
                               Feed[i].topic = beliefs[j].topic => i <= beliefs[j].obs
                  \/ /\ current = {}
                     /\ \A k \in answer : Waits(beliefs[k].topic)

-----------------------------------------------------------------------------

(* The stores keep up with the feed, whatever crashes, replays and single    *)
(* failures come between (MemoryStores).                                     *)
StoresKeepUp == TypeOK /\ MarkedIsDone /\ TopicKeepsCurrent /\ CurrentIsLatest

(* A forget deletes what its receipt says, and what it deleted does not come *)
(* back.                                                                     *)
ForgetIsHonest == ReceiptsAccount /\ ForgottenStaysForgotten

(* The commitments and beliefs tools answer as the rows and the in-memory    *)
(* stores have it.                                                           *)
ToolsShowWhatIsStored == StoresAgree /\ CurrentLeads
=============================================================================
