------------------------------ MODULE AuditDb ------------------------------
(***************************************************************************)
(* The audit database (crates/homn-audit) under several processes: the     *)
(* decision daemon, the capture daemon, the MCP server and the commands.   *)
(* Each opens the file on its own, applying the migrations it misses, then *)
(* writes decisions and answers, appends receipts to the hash chain, or    *)
(* queries.  SQLite in WAL mode is external: a write is one commit; a      *)
(* transaction that has read may turn into a writer only while nothing has *)
(* been committed since its first read and nobody else writes.             *)
(***************************************************************************)
EXTENDS Integers, Sequences, FiniteSets, SequencesExt, Listing

CONSTANTS Conns,         \* processes
          LastVersion,   \* SCHEMA_VERSION
          Receipts,      \* texts of receipts
          Decisions,     \* decisions without id, time and answer
          Times,         \* readings of the wall clocks
          Answers,       \* human answers
          None,
          ExplainLimit,  \* rows find_decision_by_id looks at
          Filters,       \* sets of filters a query may carry
          Limits,        \* limits a query may carry
          MaxCommits,    \* bound: commits after the migrations
          MaxCrashes     \* bound: processes that end

ASSUME VersionAssumption == LastVersion \in Nat \ {0}
ASSUME DecisionsAssumption == \A d \in Decisions : d.decision \in {"allow", "deny", "ask"}
ASSUME ReadsAssumption ==
    Times \subseteq Int /\ ExplainLimit \in Nat /\ Limits \subseteq Nat

DecisionRecord ==
    [id : Nat \ {0}, ts : Times, answer : Answers \cup {None}, tool : {d.tool : d \in Decisions},
     decision : {"allow", "deny", "ask"}, text : {d.text : d \in Decisions}]

ASSUME NoneAssumption == None \notin Answers \cup Conns \cup DecisionRecord

VARIABLES
    applied,    \* the rows of schema_version
    ledger,     \* the ledger table, in seq order
    decisions,  \* the decisions table, in id order
    commits,    \* commits so far: what a snapshot is
    writer,     \* the connection that holds the write lock, or None
    conn,       \* where each process is
    crashes,
    acked,      \* history: the entries append_receipt has returned
    shown       \* history: per id, the last answer acknowledged

dbVars == <<applied, ledger, decisions, commits>>
auditVars == <<dbVars, writer, conn, crashes, acked, shown>>

Genesis == <<>>   \* GENESIS_HASH

(* chain_hash, taken to be injective: a hash is the texts it is made from.   *)
ChainHash(prev, receipt) == Append(prev, receipt)

ChainHead(rows) == IF rows = <<>> THEN Genesis ELSE rows[Len(rows)].this

Closed == [at |-> "closed", next |-> 0, seen |-> 0, prev |-> Genesis, receipt |-> None]

-----------------------------------------------------------------------------
(* Db::open and run_migrations.                                              *)

MaxVersion(s) == CHOOSE v \in s \cup {0} : \A w \in s : w <= v

Open(p) ==
    /\ conn[p].at = "closed"
    /\ conn' = [conn EXCEPT ![p].at = "opened"]
    /\ UNCHANGED <<dbVars, writer, crashes, acked, shown>>

(* The version is read once; every later migration is applied after it.      *)
ReadVersion(p) ==
    LET current == MaxVersion(applied)
    IN /\ conn[p].at = "opened"
       /\ conn' = [conn EXCEPT ![p].at = IF current >= LastVersion THEN "ready" ELSE "migrate",
                               ![p].next = current + 1]
       /\ UNCHANGED <<dbVars, writer, crashes, acked, shown>>

Migrate_NewestFirst(p) ==                              \* mutant: the list is reversed
    LET v == LastVersion + 1 - conn[p].next
    IN /\ conn[p].at = "migrate" /\ writer = None
       /\ applied' = applied \cup {v} /\ commits' = commits + 1
       /\ conn' = [conn EXCEPT ![p].next = @ + 1,
                               ![p].at = IF v = 1 THEN "ready" ELSE "migrate"]
       /\ UNCHANGED <<ledger, decisions, writer, crashes, acked, shown>>

(* One transaction per migration.  Its row of schema_version is a primary    *)
(* key: the transaction of a process that lost the race fails, and with it   *)
(* the open.                                                                 *)
Migrate(p) ==
    LET v == conn[p].next
    IN /\ conn[p].at = "migrate" /\ writer = None
       /\ IF v \in applied
          THEN conn' = [conn EXCEPT ![p] = Closed] /\ UNCHANGED <<applied, commits>>
          ELSE /\ applied' = applied \cup {v}
               /\ commits' = commits + 1
               /\ conn' = [conn EXCEPT ![p].next = v + 1,
                                       ![p].at = IF v = LastVersion THEN "ready" ELSE "migrate"]
       /\ UNCHANGED <<ledger, decisions, writer, crashes, acked, shown>>

-----------------------------------------------------------------------------
(* append_receipt: the head is read, the row inserted and committed in one   *)
(* deferred transaction.                                                     *)

Bounded == commits < LastVersion + MaxCommits

ReadHead(p, r) ==
    /\ conn[p].at = "ready" /\ Bounded
    /\ conn' = [conn EXCEPT ![p].at = "insert", ![p].seen = commits,
                            ![p].prev = ChainHead(ledger), ![p].receipt = r]
    /\ UNCHANGED <<dbVars, writer, crashes, acked, shown>>

CanUpgrade_Anytime(p) == writer = None                 \* mutant: two calls, no transaction

CanUpgrade(p) == writer = None /\ conn[p].seen = commits

Entry_ZeroBased(p) ==                                  \* mutant: seq counts from 0
    [seq  |-> Len(ledger), receipt |-> conn[p].receipt, prev |-> conn[p].prev,
     this |-> ChainHash(conn[p].prev, conn[p].receipt)]

Entry(p) ==
    [seq  |-> Len(ledger) + 1, receipt |-> conn[p].receipt, prev |-> conn[p].prev,
     this |-> ChainHash(conn[p].prev, conn[p].receipt)]

Insert_Reports(p) ==                                   \* mutant: returns before the commit
    /\ conn[p].at = "insert" /\ CanUpgrade(p)
    /\ writer' = p
    /\ conn' = [conn EXCEPT ![p].at = "commit"]
    /\ acked' = acked \cup {Entry(p)}
    /\ UNCHANGED <<dbVars, crashes, shown>>

Insert(p) ==
    /\ conn[p].at = "insert" /\ CanUpgrade(p)
    /\ writer' = p
    /\ conn' = [conn EXCEPT ![p].at = "commit"]
    /\ UNCHANGED <<dbVars, crashes, acked, shown>>

(* The database is busy, or another process has committed anything, a        *)
(* decision too, since the head was read: the append returns an error.       *)
InsertBusy(p) ==
    /\ conn[p].at = "insert" /\ ~CanUpgrade(p)
    /\ conn' = [conn EXCEPT ![p].at = "ready"]
    /\ UNCHANGED <<dbVars, writer, crashes, acked, shown>>

Commit(p) ==
    /\ conn[p].at = "commit" /\ Bounded
    /\ ledger' = Append(ledger, Entry(p))
    /\ commits' = commits + 1
    /\ writer' = None
    /\ conn' = [conn EXCEPT ![p].at = "ready"]
    /\ acked' = acked \cup {Entry(p)}
    /\ UNCHANGED <<applied, decisions, crashes, shown>>

Crash(p) ==
    /\ conn[p].at # "closed" /\ crashes < MaxCrashes
    /\ crashes' = crashes + 1
    /\ conn' = [conn EXCEPT ![p] = Closed]
    /\ writer' = IF writer = p THEN None ELSE writer
    /\ UNCHANGED <<dbVars, acked, shown>>

-----------------------------------------------------------------------------
(* write_decision and update_human_answer, each a statement of its own.      *)

(* The columns that a query or an answer tells apart.                        *)
AsRow(d, id, ts) ==
    [id |-> id, ts |-> ts, answer |-> None,
     tool |-> d.tool, decision |-> d.decision, text |-> d.text]

WriteDecision(p, d, ts) ==
    /\ conn[p].at = "ready" /\ writer = None /\ Bounded
    /\ decisions' = Append(decisions, AsRow(d, Len(decisions) + 1, ts))
    /\ commits' = commits + 1
    /\ shown' = Append(shown, None)
    /\ UNCHANGED <<applied, ledger, writer, conn, crashes, acked>>

UpdateAnswer_All(p, id, a) ==                          \* mutant: no WHERE id = ?
    /\ conn[p].at = "ready" /\ writer = None /\ Bounded
    /\ id \in DOMAIN decisions
    /\ decisions' = [i \in DOMAIN decisions |-> [decisions[i] EXCEPT !.answer = a]]
    /\ commits' = commits + 1
    /\ shown' = [shown EXCEPT ![id] = a]
    /\ UNCHANGED <<applied, ledger, writer, conn, crashes, acked>>

(* An id without a row changes nothing and is an error to the caller.        *)
UpdateAnswer(p, id, a) ==
    /\ conn[p].at = "ready" /\ writer = None /\ Bounded
    /\ id \in DOMAIN decisions
    /\ decisions' = [decisions EXCEPT ![id].answer = a]
    /\ commits' = commits + 1
    /\ shown' = [shown EXCEPT ![id] = a]
    /\ UNCHANGED <<applied, ledger, writer, conn, crashes, acked>>

-----------------------------------------------------------------------------
(* Db::query: the filters that are set AND together; newest first, or oldest *)
(* first, by time and then by id; at least one row.                          *)

Matches(row, f) ==
    /\ f.since # None => row.ts >= f.since
    /\ f.until # None => row.ts <= f.until
    /\ f.decision # None => row.decision = f.decision
    /\ f.asked => row.decision = "ask"
    /\ f.tool # None => row.tool = f.tool
    /\ f.grep # None => f.grep \in row.text

Before(a, b) == a.ts < b.ts \/ (a.ts = b.ts /\ a.id < b.id)

AtLeast1(limit) == IF limit = 0 THEN 1 ELSE limit

Upto(rows, limit) ==
    SubSeq(rows, 1, IF AtLeast1(limit) < Len(rows) THEN AtLeast1(limit) ELSE Len(rows))

Hits(rows, f) == {row \in ToSet(rows) : Matches(row, f)}

AheadBy(S, ascending) ==
    {p \in S \X S : IF ascending THEN Before(p[1], p[2]) ELSE Before(p[2], p[1])}

Query_LimitFirst(rows, f, ascending, limit) ==         \* mutant: the limit, then the filter
    Only(Upto(Listed(ToSet(rows), AheadBy(ToSet(rows), ascending)), limit), Hits(rows, f))

Query(rows, f, ascending, limit) ==
    Upto(Listed(Hits(rows, f), AheadBy(Hits(rows, f), ascending)), limit)

NoFilter == [since |-> None, until |-> None, decision |-> None, asked |-> FALSE,
             tool |-> None, grep |-> None]

(* `homn log`: of the three verdict flags the first one set counts, and asked*)
(* ANDs with it.                                                             *)
LogFilter(denied, allowed, asked) ==
    [NoFilter EXCEPT !.decision = IF denied THEN "deny" ELSE IF allowed THEN "allow" ELSE None,
                     !.asked = asked]

(* recent_decisions.                                                         *)
Recent(rows, f, limit) ==
    Query(rows, f, FALSE, IF limit < 1 THEN 1 ELSE IF limit > 100 THEN 100 ELSE limit)

(* find_decision_by_id, by way of the newest rows.                           *)
FindById(rows, id) ==
    LET newest == Query(rows, NoFilter, FALSE, ExplainLimit)
    IN {newest[i] : i \in {j \in DOMAIN newest : newest[j].id = id}}

(* explain_decision.                                                         *)
Explain(rows, id) ==
    LET found == FindById(rows, id)
    IN IF found = {} THEN None ELSE CHOOSE row \in found : TRUE

-----------------------------------------------------------------------------
(* verify_ledger: the first row whose link or whose hash does not check.     *)

FirstBad_LinksOnly(rows) ==                            \* mutant: no hash is recomputed
    LET bad == {i \in DOMAIN rows :
                   rows[i].prev # IF i = 1 THEN Genesis ELSE rows[i - 1].this}
    IN IF bad = {} THEN None ELSE rows[CHOOSE i \in bad : \A j \in bad : i <= j].seq

FirstBad(rows) ==
    LET bad == {i \in DOMAIN rows :
                   \/ rows[i].prev # IF i = 1 THEN Genesis ELSE rows[i - 1].this
                   \/ ChainHash(rows[i].prev, rows[i].receipt) # rows[i].this}
    IN IF bad = {} THEN None ELSE rows[CHOOSE i \in bad : \A j \in bad : i <= j].seq

Init ==
    /\ applied = {} /\ ledger = <<>> /\ decisions = <<>> /\ commits = 0
    /\ writer = None
    /\ conn = [p \in Conns |-> Closed]
    /\ crashes = 0 /\ acked = {} /\ shown = <<>>

Step(p) ==
    \/ Open(p) \/ ReadVersion(p) \/ Migrate(p)
    \/ \E r \in Receipts : ReadHead(p, r)
    \/ Insert(p) \/ InsertBusy(p) \/ Commit(p) \/ Crash(p)
    \/ \E d \in Decisions, ts \in Times : WriteDecision(p, d, ts)
    \/ \E id \in DOMAIN decisions, a \in Answers : UpdateAnswer(p, id, a)

Next == \E p \in Conns : Step(p)

Spec == Init /\ [][Next]_auditVars

-----------------------------------------------------------------------------
Stages == {"closed", "opened", "migrate", "ready", "insert", "commit"}
ConnState == [at : Stages, next : Nat, seen : Nat, prev : Seq(Receipts),
              receipt : Receipts \cup {None}]
LedgerEntry == [seq : Nat \ {0}, receipt : Receipts, prev : Seq(Receipts), this : Seq(Receipts)]

(* Every variable has its type.                                              *)
TypeOK ==
    /\ applied \subseteq 1 .. LastVersion
    /\ ledger \in Seq(LedgerEntry)
    /\ decisions \in Seq(DecisionRecord)
    /\ commits \in Nat /\ crashes \in Nat
    /\ writer \in Conns \cup {None}
    /\ conn \in [Conns -> ConnState]
    /\ acked \subseteq LedgerEntry

(* Concurrent appends never fork the chain: whatever the processes overlap   *)
(* and wherever they end, verify_ledger finds every row good                 *)
(* (append_receipt, verify_ledger).                                          *)
ChainVerifies == FirstBad(ledger) = None

(* What append_receipt has returned is in the ledger at the seq it returned, *)
(* whatever others append or abandon afterwards (redactions refer to it).    *)
AckedReceiptsKept ==
    \A e \in acked : e.seq \in DOMAIN ledger /\ ledger[e.seq] = e

(* A connection that is open finds every table, however many processes       *)
(* migrate the same file at once and end in the middle (run_migrations reads *)
(* only the highest version it finds).                                       *)
SchemaComplete ==
    \A p \in Conns : conn[p].at \in {"ready", "insert", "commit"} => applied = 1 .. LastVersion

Without(rows, i) == SubSeq(rows, 1, i - 1) \o SubSeq(rows, i + 1, Len(rows))

(* A receipt that is altered is reported at its row, a row that is missing   *)
(* at the next one; the tail is the known limitation (verify_ledger).        *)
DamageIsLocated ==
    \A i \in DOMAIN ledger :
        /\ \A r \in Receipts \ {ledger[i].receipt} :
               FirstBad([ledger EXCEPT ![i].receipt = r]) = i
        /\ i < Len(ledger) => FirstBad(Without(ledger, i)) = i + 1

(* A query returns the newest rows (or the oldest) among those that match    *)
(* all its filters, in order, and as many as its limit allows, whatever the  *)
(* clocks of the writers said (Db::query).                                   *)
QueryIsNewestMatches ==
    \A f \in Filters, limit \in Limits, ascending \in BOOLEAN :
        LET answer == Query(decisions, f, ascending, limit)
            hits   == {row \in ToSet(decisions) : Matches(row, f)}
            Ahead(a, b) == IF ascending THEN Before(a, b) ELSE Before(b, a)
        IN /\ Len(answer) = IF AtLeast1(limit) < Cardinality(hits) THEN AtLeast1(limit)
                            ELSE Cardinality(hits)
           /\ \A i, j \in DOMAIN answer : i < j => Ahead(answer[i], answer[j])
           /\ \A i \in DOMAIN answer :
                 /\ answer[i] \in hits
                 /\ \A h \in hits \ ToSet(answer) : Ahead(answer[i], h)

(* While the table is no longer than the rows explain_decision looks at, it  *)
(* finds every decision, with the last answer that was recorded for it and   *)
(* no other one's, and shows what recent_decisions lists                     *)
(* (write_decision, update_human_answer, find_decision_by_id).               *)
ExplainShowsAnswer ==
    Len(decisions) <= ExplainLimit =>
        \A id \in DOMAIN decisions :
            /\ Explain(decisions, id) # None
            /\ Explain(decisions, id).answer = shown[id]
            /\ \A f \in Filters, limit \in Limits :
                  LET listed == Recent(decisions, f, limit)
                  IN \A i \in DOMAIN listed :
                        listed[i].id = id => listed[i] = Explain(decisions, id)

(* What the readers of the database report: damage where it is, the rows a   *)
(* query asks for, and a decision with its own answer.                       *)
ReadsAreRight == DamageIsLocated /\ QueryIsNewestMatches /\ ExplainShowsAnswer
=============================================================================
