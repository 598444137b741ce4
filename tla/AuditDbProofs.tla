--------------------------- MODULE AuditDbProofs ---------------------------
(***************************************************************************)
(* Proofs about AuditDb, for any number of processes, receipts, decisions, *)
(* commits and crashes: the chain always verifies, an acknowledged receipt *)
(* stays, an open connection finds the whole schema, and the readers       *)
(* report what is there.                                                   *)
(***************************************************************************)
EXTENDS AuditDb, ListingProofs

(* Every row links to the one before it, and its hash is its own.            *)
Linked ==
    \A i \in DOMAIN ledger :
        /\ ledger[i].prev = IF i = 1 THEN Genesis ELSE ledger[i - 1].this
        /\ ledger[i].this = ChainHash(ledger[i].prev, ledger[i].receipt)

(* The lock is held exactly by the one that is about to commit.              *)
Locked == \A p \in Conns : conn[p].at = "commit" <=> writer = p

(* A snapshot that may still be upgraded, or has been, ends at the head.     *)
Fresh ==
    \A p \in Conns :
        /\ conn[p].seen <= commits
        /\ conn[p].at \in {"insert", "commit"} => conn[p].receipt \in Receipts
        /\ (conn[p].at = "insert" /\ conn[p].seen = commits) \/ conn[p].at = "commit"
               => conn[p].prev = ChainHead(ledger)

(* The versions there are form a prefix; who migrates has what lies before   *)
(* its next version, who is open has all of them.                            *)
Migrated ==
    /\ \E n \in 0 .. LastVersion : applied = 1 .. n
    /\ \A p \in Conns :
          /\ conn[p].at = "migrate" => /\ conn[p].next \in 1 .. LastVersion
                                       /\ 1 .. conn[p].next - 1 \subseteq applied
          /\ conn[p].at \in {"ready", "insert", "commit"} => applied = 1 .. LastVersion

IInv == TypeOK /\ Linked /\ Locked /\ Fresh /\ Migrated /\ AckedReceiptsKept

LEMMA ClosedType == Closed \in ConnState
<1>1. Genesis \in Seq(Receipts) BY DEF Genesis
<1>2. None \in Receipts \cup {None} /\ "closed" \in Stages BY DEF Stages
<1> QED BY <1>1, <1>2 DEF Closed, ConnState

LEMMA InitIInv == Init => IInv
<1> SUFFICES ASSUME Init PROVE IInv OBVIOUS
<1>1. TypeOK
  <2>1. ledger \in Seq(LedgerEntry) /\ decisions \in Seq(DecisionRecord)
    BY DEF Init
  <2> QED BY <2>1, ClosedType DEF Init, TypeOK
<1>2. Linked /\ AckedReceiptsKept
  BY DEF Init, Linked, AckedReceiptsKept
<1>3. Locked /\ Fresh
  BY NoneAssumption DEF Init, Locked, Fresh, Closed
<1>4. Migrated
  <2>1. applied = 1 .. 0 /\ 0 \in 0 .. LastVersion
    BY VersionAssumption DEF Init
  <2> QED BY <2>1 DEF Init, Migrated, Closed
<1> QED BY <1>1, <1>2, <1>3, <1>4 DEF IInv

(* A step that adds no row keeps what is said of the rows.                   *)
LEMMA SameRows ==
  ASSUME IInv, ledger' = ledger, acked' = acked
  PROVE  Linked' /\ AckedReceiptsKept' /\ ChainHead(ledger)' = ChainHead(ledger)
  BY DEF IInv, Linked, AckedReceiptsKept, ChainHead

-----------------------------------------------------------------------------
(* Opening.                                                                  *)

LEMMA OpenStep == ASSUME IInv, NEW p \in Conns, Open(p) PROVE IInv'
<1>1. conn' \in [Conns -> ConnState]
  BY DEF IInv, TypeOK, Open, ConnState, Stages
<1>2. TypeOK' BY <1>1 DEF IInv, TypeOK, Open, dbVars
<1>3. Locked' /\ Fresh'
  BY SameRows DEF IInv, TypeOK, Open, dbVars, ConnState, Locked, Fresh
<1>4. Migrated' BY DEF IInv, TypeOK, Open, dbVars, ConnState, Migrated
<1> QED BY <1>2, <1>3, <1>4, SameRows DEF Open, dbVars, IInv

LEMMA MaxOfPrefix == ASSUME NEW n \in Nat PROVE MaxVersion(1 .. n) = n
<1>1. n \in (1 .. n) \cup {0} /\ \A w \in 1 .. n : w <= n
  OBVIOUS
<1>2. \A v \in (1 .. n) \cup {0} : (\A w \in 1 .. n : w <= v) => v = n
  <2> SUFFICES ASSUME NEW v \in (1 .. n) \cup {0}, \A w \in 1 .. n : w <= v PROVE v = n
    OBVIOUS
  <2>1. CASE n = 0 BY <2>1
  <2>2. CASE n # 0
    <3>1. n \in 1 .. n BY <2>2
    <3> QED BY <3>1
  <2> QED BY <2>1, <2>2
<1> QED BY <1>1, <1>2 DEF MaxVersion

LEMMA ReadVersionStep == ASSUME IInv, NEW p \in Conns, ReadVersion(p) PROVE IInv'
<1>0. PICK n \in 0 .. LastVersion : applied = 1 .. n
  BY DEF IInv, Migrated
<1>1. MaxVersion(applied) = n /\ n \in Nat /\ LastVersion \in Nat
  BY <1>0, MaxOfPrefix, VersionAssumption
<1>2. conn' = [conn EXCEPT ![p].at = IF n >= LastVersion THEN "ready" ELSE "migrate",
                           ![p].next = n + 1]
  BY <1>1 DEF ReadVersion
<1>3. conn' \in [Conns -> ConnState]
  <2> DEFINE s == IF n >= LastVersion THEN "ready" ELSE "migrate"
  <2>1. s \in Stages /\ n + 1 \in Nat BY <1>1 DEF Stages
  <2>2. conn' = [conn EXCEPT ![p].at = s, ![p].next = n + 1] BY <1>2
  <2> HIDE DEF s
  <2> QED BY <2>1, <2>2 DEF IInv, TypeOK, ConnState
<1>4. TypeOK' BY SMTT(20), <1>3 DEF IInv, TypeOK, ReadVersion, dbVars
<1>5. Locked' /\ Fresh'
  BY SMTT(20), <1>2, SameRows DEF IInv, TypeOK, ReadVersion, dbVars, ConnState, Locked, Fresh
<1>6. Migrated'
  <2>1. applied' = applied BY DEF ReadVersion, dbVars
  <2>2. ASSUME NEW q \in Conns
        PROVE /\ conn'[q].at = "migrate" => /\ conn'[q].next \in 1 .. LastVersion
                                            /\ 1 .. conn'[q].next - 1 \subseteq applied
              /\ conn'[q].at \in {"ready", "insert", "commit"} => applied = 1 .. LastVersion
    <3>1. CASE q = p
      <4>1. conn'[p].at = (IF n >= LastVersion THEN "ready" ELSE "migrate")
            /\ conn'[p].next = n + 1
        BY <1>2 DEF IInv, TypeOK, ConnState
      <4> QED BY <1>0, <1>1, <3>1, <4>1
    <3>2. CASE q # p
      <4>1. conn'[q] = conn[q] BY <1>2, <3>2 DEF IInv, TypeOK
      <4> QED BY <4>1 DEF IInv, Migrated
    <3> QED BY <3>1, <3>2
  <2> QED BY <2>1, <2>2 DEF IInv, Migrated
<1> QED BY <1>4, <1>5, <1>6, SameRows DEF ReadVersion, dbVars, IInv

LEMMA MigrateStep == ASSUME IInv, NEW p \in Conns, Migrate(p) PROVE IInv'
<1> DEFINE v == conn[p].next
<1>0. /\ LastVersion \in Nat /\ v \in 1 .. LastVersion /\ 1 .. v - 1 \subseteq applied
      /\ commits \in Nat
  BY VersionAssumption DEF IInv, TypeOK, Migrated, Migrate
<1>1. CASE v \in applied
  <2>1. UNCHANGED <<applied, commits>> /\ conn' = [conn EXCEPT ![p] = Closed]
    BY <1>1 DEF Migrate
  <2>2. conn' \in [Conns -> ConnState] BY <2>1, ClosedType DEF IInv, TypeOK
  <2>3. TypeOK' BY <2>1, <2>2 DEF IInv, TypeOK, Migrate
  <2>4. Locked' /\ Fresh'
    BY <1>0, <2>1, SameRows, NoneAssumption
    DEF IInv, TypeOK, Migrate, ConnState, Locked, Fresh, Closed
  <2>5. Migrated' BY <2>1 DEF IInv, TypeOK, Migrated, Closed
  <2> QED BY <2>3, <2>4, <2>5, SameRows DEF Migrate, IInv
<1>2. CASE v \notin applied
  <2>1. /\ applied' = applied \cup {v} /\ commits' = commits + 1
        /\ conn' = [conn EXCEPT ![p].next = v + 1,
                                ![p].at = IF v = LastVersion THEN "ready" ELSE "migrate"]
    BY <1>2 DEF Migrate
  <2>2. conn' \in [Conns -> ConnState]
    <3> DEFINE s == IF v = LastVersion THEN "ready" ELSE "migrate"
               w == v + 1
    <3>1. s \in Stages /\ w \in Nat BY <1>0 DEF Stages
    <3>2. conn' = [conn EXCEPT ![p].next = w, ![p].at = s] BY <2>1
    <3> HIDE DEF s, w
    <3> QED BY <3>1, <3>2 DEF IInv, TypeOK, ConnState
  <2>3. TypeOK' BY <1>0, <2>1, <2>2 DEF IInv, TypeOK, Migrate
  <2>4. Locked' /\ Fresh'
    <3>1. /\ writer = None /\ writer' = None /\ ledger' = ledger
          /\ \A q \in Conns : conn[q].at # "commit" /\ conn[q].seen \in Nat
      BY NoneAssumption DEF IInv, TypeOK, ConnState, Locked, Migrate
    <3>2. ASSUME NEW q \in Conns
          PROVE /\ conn'[q].at # "commit" /\ conn'[q].seen <= commits
                /\ conn'[q].at = "insert" => conn'[q].receipt \in Receipts
      <4>1. CASE q = p
        <5>1. conn'[p].at = (IF v = LastVersion THEN "ready" ELSE "migrate")
              /\ conn'[p].seen = conn[p].seen
          BY <2>1 DEF IInv, TypeOK, ConnState
        <5> QED BY <4>1, <5>1 DEF IInv, Fresh
      <4>2. CASE q # p
        <5>1. conn'[q] = conn[q] BY <2>1, <4>2 DEF IInv, TypeOK
        <5> QED BY <3>1, <5>1 DEF IInv, Fresh
      <4> QED BY <4>1, <4>2
    <3>3. Locked' BY <3>1, <3>2, NoneAssumption DEF Locked
    <3>4. \A q \in Conns : conn'[q].seen \in Nat
      BY <2>2 DEF ConnState
    <3>5. ASSUME NEW q \in Conns
          PROVE conn'[q].seen <= commits' /\ conn'[q].seen # commits'
      <4>1. conn'[q].seen <= commits /\ conn'[q].seen \in Nat /\ commits' = commits + 1
        BY <2>1, <3>2, <3>4
      <4> QED BY <1>0, <4>1
    <3>6. Fresh' BY <3>2, <3>5 DEF Fresh
    <3> QED BY <3>3, <3>6
  <2>5. applied = 1 .. v - 1
    <3>1. PICK n \in 0 .. LastVersion : applied = 1 .. n BY DEF IInv, Migrated
    <3>2. n < v BY <1>0, <1>2, <3>1
    <3>3. v - 1 <= n
      <4>1. CASE v = 1 BY <4>1, <3>1
      <4>2. CASE v # 1
        <5>1. v - 1 \in 1 .. v - 1 BY <1>0, <4>2
        <5> QED BY <1>0, <3>1, <5>1
      <4> QED BY <4>1, <4>2
    <3> QED BY <1>0, <3>1, <3>2, <3>3
  <2>6. applied' = 1 .. v BY <1>0, <2>1, <2>5
  <2>7. ASSUME NEW q \in Conns
        PROVE /\ conn'[q].at = "migrate" => /\ conn'[q].next \in 1 .. LastVersion
                                            /\ 1 .. conn'[q].next - 1 \subseteq applied'
              /\ conn'[q].at \in {"ready", "insert", "commit"} => applied' = 1 .. LastVersion
    <3>1. CASE q = p
      <4>1. conn'[p].at = (IF v = LastVersion THEN "ready" ELSE "migrate")
            /\ conn'[p].next = v + 1
        BY <2>1 DEF IInv, TypeOK, ConnState
      <4> QED BY <1>0, <2>6, <3>1, <4>1
    <3>2. CASE q # p
      <4>1. conn'[q] = conn[q] BY <2>1, <3>2 DEF IInv, TypeOK
      <4>2. conn[q].at \notin {"ready", "insert", "commit"}
        BY <1>0, <1>2 DEF IInv, Migrated
      <4> QED BY <2>1, <4>1, <4>2 DEF IInv, Migrated
    <3> QED BY <3>1, <3>2
  <2>8. Migrated' BY <1>0, <2>6, <2>7 DEF Migrated
  <2> QED BY <2>3, <2>4, <2>8, SameRows DEF Migrate, IInv
<1> QED BY <1>1, <1>2

-----------------------------------------------------------------------------
(* Appending.                                                                *)

LEMMA HeadType == ASSUME IInv PROVE ChainHead(ledger) \in Seq(Receipts)
<1>1. CASE ledger = <<>> BY <1>1 DEF ChainHead, Genesis
<1>2. CASE ledger # <<>>
  <2>1. ledger[Len(ledger)] \in LedgerEntry
    BY <1>2 DEF IInv, TypeOK
  <2> QED BY <1>2, <2>1 DEF ChainHead, LedgerEntry
<1> QED BY <1>1, <1>2

LEMMA ReadHeadStep ==
  ASSUME IInv, NEW p \in Conns, NEW r \in Receipts, ReadHead(p, r) PROVE IInv'
<1>1. conn' \in [Conns -> ConnState]
  <2> DEFINE h == ChainHead(ledger)
  <2>1. h \in Seq(Receipts) /\ "insert" \in Stages BY HeadType DEF Stages
  <2>2. conn' = [conn EXCEPT ![p].at = "insert", ![p].seen = commits,
                             ![p].prev = h, ![p].receipt = r]
    BY DEF ReadHead
  <2> HIDE DEF h
  <2>3. conn[p] \in ConnState /\ commits \in Nat BY DEF IInv, TypeOK
  <2>4. [conn[p] EXCEPT !.at = "insert", !.seen = commits, !.prev = h, !.receipt = r]
          \in ConnState
    BY <2>1, <2>3 DEF ConnState
  <2>5. conn' = [conn EXCEPT ![p] = [conn[p] EXCEPT !.at = "insert", !.seen = commits,
                                                    !.prev = h, !.receipt = r]]
    BY <2>2 DEF IInv, TypeOK, ConnState
  <2> QED BY <2>4, <2>5 DEF IInv, TypeOK
<1>2. TypeOK' BY <1>1 DEF IInv, TypeOK, ReadHead, dbVars
<1>3. Locked' /\ Fresh'
  BY SameRows DEF IInv, TypeOK, ReadHead, dbVars, ConnState, Locked, Fresh
<1>4. Migrated' BY DEF IInv, TypeOK, ReadHead, dbVars, ConnState, Migrated
<1> QED BY <1>2, <1>3, <1>4, SameRows DEF ReadHead, dbVars, IInv

LEMMA InsertStep == ASSUME IInv, NEW p \in Conns, Insert(p) PROVE IInv'
<1>1. conn' \in [Conns -> ConnState]
  BY DEF IInv, TypeOK, Insert, ConnState, Stages
<1>2. TypeOK' BY <1>1 DEF IInv, TypeOK, Insert, dbVars
<1>3. Locked' /\ Fresh'
  BY SameRows, NoneAssumption
  DEF IInv, TypeOK, Insert, CanUpgrade, dbVars, ConnState, Locked, Fresh
<1>4. Migrated' BY DEF IInv, TypeOK, Insert, dbVars, ConnState, Migrated
<1> QED BY <1>2, <1>3, <1>4, SameRows DEF Insert, dbVars, IInv

LEMMA InsertBusyStep == ASSUME IInv, NEW p \in Conns, InsertBusy(p) PROVE IInv'
<1>1. conn' \in [Conns -> ConnState]
  BY DEF IInv, TypeOK, InsertBusy, ConnState, Stages
<1>2. TypeOK' BY <1>1 DEF IInv, TypeOK, InsertBusy, dbVars
<1>3. Locked' /\ Fresh'
  BY SameRows DEF IInv, TypeOK, InsertBusy, dbVars, ConnState, Locked, Fresh
<1>4. Migrated' BY DEF IInv, TypeOK, InsertBusy, dbVars, ConnState, Migrated
<1> QED BY <1>2, <1>3, <1>4, SameRows DEF InsertBusy, dbVars, IInv

LEMMA CommitStep == ASSUME IInv, NEW p \in Conns, Commit(p) PROVE IInv'
<1> DEFINE e == Entry(p)
<1>1. /\ conn[p].receipt \in Receipts /\ conn[p].prev \in Seq(Receipts)
      /\ conn[p].prev = ChainHead(ledger) /\ writer = p
  BY DEF IInv, TypeOK, ConnState, Commit, Locked, Fresh
<1>2. e \in LedgerEntry
  BY <1>1 DEF IInv, TypeOK, Entry, ChainHash, LedgerEntry
<1>3. /\ ledger' = Append(ledger, e) /\ commits' = commits + 1 /\ writer' = None
      /\ conn' = [conn EXCEPT ![p].at = "ready"] /\ acked' = acked \cup {e}
      /\ UNCHANGED <<applied, decisions, crashes, shown>>
  BY DEF Commit
<1>4. conn' \in [Conns -> ConnState]
  BY <1>3 DEF IInv, TypeOK, ConnState, Stages
<1> HIDE DEF e
<1>5. /\ DOMAIN ledger' = 1 .. Len(ledger) + 1 /\ Len(ledger) \in Nat
      /\ ledger'[Len(ledger) + 1] = e
      /\ \A i \in 1 .. Len(ledger) : ledger'[i] = ledger[i]
      /\ DOMAIN ledger = 1 .. Len(ledger)
  BY <1>2, <1>3 DEF IInv, TypeOK
<1>6. TypeOK'
  BY <1>2, <1>3, <1>4 DEF IInv, TypeOK
<1>7. e.prev = ChainHead(ledger) /\ e.this = ChainHash(e.prev, e.receipt)
      /\ e.seq = Len(ledger) + 1
  BY <1>1 DEF e, Entry
<1>8. Linked'
  <2> SUFFICES ASSUME NEW i \in 1 .. Len(ledger) + 1
               PROVE /\ ledger'[i].prev = IF i = 1 THEN Genesis ELSE ledger'[i - 1].this
                     /\ ledger'[i].this = ChainHash(ledger'[i].prev, ledger'[i].receipt)
    BY <1>5 DEF Linked, ChainHash
  <2>1. CASE i \in 1 .. Len(ledger)
    <3>1. i = 1 \/ i - 1 \in 1 .. Len(ledger) BY <1>5, <2>1
    <3> QED BY <1>5, <2>1, <3>1 DEF IInv, Linked
  <2>2. CASE i = Len(ledger) + 1
    <3>1. CASE ledger = <<>>
      <4>1. i = 1 BY <2>2, <3>1
      <4> QED BY <1>5, <1>7, <2>2, <3>1, <4>1 DEF ChainHead
    <3>2. CASE ledger # <<>>
      <4>1. Len(ledger) \in 1 .. Len(ledger) /\ i # 1 /\ i - 1 = Len(ledger)
        BY <1>5, <2>2, <3>2 DEF IInv, TypeOK
      <4>2. ledger'[i - 1] = ledger[Len(ledger)] BY <1>5, <4>1
      <4> QED BY <1>5, <1>7, <2>2, <3>2, <4>1, <4>2 DEF ChainHead
    <3> QED BY <3>1, <3>2
  <2> QED BY <1>5, <2>1, <2>2
<1>9. AckedReceiptsKept'
  BY <1>3, <1>5, <1>7 DEF IInv, AckedReceiptsKept
<1>10. Locked' /\ Fresh'
  <2>1. \A q \in Conns : q # p => conn'[q] = conn[q] /\ conn[q].at # "commit"
    BY <1>1, <1>3 DEF IInv, TypeOK, Locked
  <2>2. conn'[p].at = "ready" /\ conn'[p].seen = conn[p].seen
    BY <1>3 DEF IInv, TypeOK, ConnState
  <2>3. \A q \in Conns : conn[q].seen \in Nat /\ conn[q].seen <= commits /\ commits \in Nat
    BY DEF IInv, TypeOK, ConnState, Fresh
  <2>4. Locked' BY <1>3, <2>1, <2>2, NoneAssumption DEF Locked
  <2>5. Fresh' BY <1>3, <2>1, <2>2, <2>3 DEF IInv, Fresh
  <2> QED BY <2>4, <2>5
<1>11. Migrated' BY <1>3 DEF IInv, TypeOK, ConnState, Migrated, Commit
<1> QED BY <1>6, <1>8, <1>9, <1>10, <1>11 DEF IInv

LEMMA CrashStep == ASSUME IInv, NEW p \in Conns, Crash(p) PROVE IInv'
<1>1. conn' \in [Conns -> ConnState]
  BY ClosedType DEF IInv, TypeOK, Crash
<1>2. TypeOK' BY <1>1 DEF IInv, TypeOK, Crash, dbVars
<1>3. Locked' /\ Fresh'
  BY SameRows, NoneAssumption DEF IInv, TypeOK, Crash, dbVars, ConnState, Locked, Fresh, Closed
<1>4. Migrated' BY DEF IInv, TypeOK, Crash, dbVars, ConnState, Migrated, Closed
<1> QED BY <1>2, <1>3, <1>4, SameRows DEF Crash, dbVars, IInv

-----------------------------------------------------------------------------
(* Decisions and answers: commits that leave the ledger and the connections. *)

LEMMA OtherCommit ==
  ASSUME IInv, commits' = commits + 1, writer = None,
         UNCHANGED <<applied, ledger, writer, conn, crashes, acked>>,
         decisions' \in Seq(DecisionRecord)
  PROVE  IInv'
<1>1. TypeOK' BY DEF IInv, TypeOK
<1>2. Locked' BY DEF IInv, Locked
<1>3. \A q \in Conns : conn[q].seen \in Nat /\ conn[q].seen <= commits /\ commits \in Nat
                         /\ conn[q].at # "commit"
  BY NoneAssumption DEF IInv, TypeOK, ConnState, Fresh, Locked
<1>4. Fresh' BY <1>3 DEF IInv, Fresh
<1>5. Migrated' BY DEF IInv, Migrated
<1> QED BY <1>1, <1>2, <1>4, <1>5, SameRows DEF IInv

LEMMA WriteDecisionStep ==
  ASSUME IInv, NEW p \in Conns, NEW d \in Decisions, NEW ts \in Times, WriteDecision(p, d, ts)
  PROVE  IInv'
<1>1. AsRow(d, Len(decisions) + 1, ts) \in DecisionRecord
  BY DecisionsAssumption DEF IInv, TypeOK, AsRow, DecisionRecord
<1>2. decisions' \in Seq(DecisionRecord)
  BY <1>1 DEF IInv, TypeOK, WriteDecision
<1> QED BY <1>2, OtherCommit DEF WriteDecision

LEMMA UpdateAnswerStep ==
  ASSUME IInv, NEW p \in Conns, NEW id \in DOMAIN decisions, NEW a \in Answers,
         UpdateAnswer(p, id, a)
  PROVE  IInv'
<1>1. decisions' = [decisions EXCEPT ![id].answer = a] BY DEF UpdateAnswer
<1>2. decisions[id] \in DecisionRecord BY DEF IInv, TypeOK
<1>3. [decisions[id] EXCEPT !.answer = a] \in DecisionRecord BY <1>2 DEF DecisionRecord
<1>4. decisions' \in Seq(DecisionRecord) BY <1>1, <1>3 DEF IInv, TypeOK
<1> QED BY <1>4, OtherCommit DEF UpdateAnswer

-----------------------------------------------------------------------------
LEMMA NextIInv == IInv /\ [Next]_auditVars => IInv'
<1> SUFFICES ASSUME IInv, [Next]_auditVars PROVE IInv' OBVIOUS
<1>1. ASSUME NEW p \in Conns, Step(p) PROVE IInv'
  BY <1>1, OpenStep, ReadVersionStep, MigrateStep, ReadHeadStep, InsertStep, InsertBusyStep,
     CommitStep, CrashStep, WriteDecisionStep, UpdateAnswerStep DEF Step
<1>2. CASE UNCHANGED auditVars
  BY <1>2 DEF auditVars, dbVars, IInv, TypeOK, Linked, Locked, Fresh, Migrated,
     AckedReceiptsKept, ChainHead
<1> QED BY <1>1, <1>2 DEF Next

THEOREM Invariance == Spec => []IInv
  BY InitIInv, NextIInv, PTL DEF Spec

(* Every variable has its type.                                              *)
THEOREM TypeCorrect == Spec => []TypeOK
<1>1. IInv => TypeOK BY DEF IInv
<1> QED BY <1>1, Invariance, PTL

(* Whatever the processes overlap and wherever they end, verify_ledger finds *)
(* every row good.                                                           *)
THEOREM AppendsNeverFork == Spec => []ChainVerifies
<1>1. Linked => ChainVerifies
  BY DEF Linked, ChainVerifies, FirstBad
<1>2. IInv => ChainVerifies BY <1>1 DEF IInv
<1> QED BY <1>2, Invariance, PTL

(* A receipt that append_receipt has returned stays where it said.           *)
THEOREM ReceiptsStay == Spec => []AckedReceiptsKept
<1>1. IInv => AckedReceiptsKept BY DEF IInv
<1> QED BY <1>1, Invariance, PTL

(* An open connection finds every table.                                     *)
THEOREM OpenFindsSchema == Spec => []SchemaComplete
<1>1. IInv => SchemaComplete BY DEF IInv, Migrated, SchemaComplete
<1> QED BY <1>1, Invariance, PTL

-----------------------------------------------------------------------------
(* What the readers rely on beside the chain: rows carry their place, and an *)
(* answer stands in the row it was acknowledged for.                         *)

Numbered == \A i \in DOMAIN ledger : ledger[i].seq = i

Answered ==
    /\ shown \in Seq(Answers \cup {None}) /\ Len(shown) = Len(decisions)
    /\ \A i \in DOMAIN decisions : decisions[i].id = i /\ decisions[i].answer = shown[i]

(* An empty table has nothing out of place.                                  *)
LEMMA InitReads == Init => Numbered /\ Answered
<1> SUFFICES ASSUME Init PROVE Numbered /\ Answered
  OBVIOUS
<1>1. ledger = <<>> /\ decisions = <<>> /\ shown = <<>>
  BY DEF Init
<1>2. DOMAIN ledger = {} /\ DOMAIN decisions = {} /\ Len(shown) = Len(decisions)
  BY <1>1
<1>3. shown \in Seq(Answers \cup {None})
  BY <1>1
<1> QED
  BY <1>2, <1>3 DEF Numbered, Answered

(* An appended row takes the next place.                                     *)
LEMMA CommitNumbers ==
    ASSUME IInv, Numbered, NEW p \in Conns, Commit(p)
    PROVE  Numbered'
<1>1. ledger \in Seq(LedgerEntry) /\ ledger' \in Seq(LedgerEntry)
  BY CommitStep DEF IInv, TypeOK
<1>2. ledger' = Append(ledger, Entry(p)) /\ Entry(p).seq = Len(ledger) + 1
  BY DEF Commit, Entry
<1> DEFINE n == Len(ledger)
           e == Entry(p)
<1>3. n \in Nat /\ DOMAIN ledger = 1 .. n
  BY <1>1
<1>4. Len(ledger') = n + 1 /\ DOMAIN ledger' = 1 .. n + 1
  BY <1>1, <1>2
<1>5. ledger'[n + 1] = e /\ \A i \in 1 .. n : ledger'[i] = ledger[i]
  BY <1>1, <1>2
<1> HIDE DEF n, e
<1>6. ASSUME NEW i \in 1 .. n + 1 PROVE ledger'[i].seq = i
  <2>1. CASE i = n + 1
    BY <1>2, <1>5, <2>1 DEF n, e
  <2>2. CASE i \in 1 .. n
    BY <1>3, <1>5, <2>2 DEF Numbered
  <2> QED
    BY <1>3, <2>1, <2>2
<1> QED
  BY <1>4, <1>6 DEF Numbered

(* A decision takes the next id, and nobody has answered it.                 *)
LEMMA WriteAnswers ==
    ASSUME IInv, Answered, NEW p \in Conns, NEW d \in Decisions, NEW ts \in Times,
           WriteDecision(p, d, ts)
    PROVE  Answered'
<1> DEFINE n == Len(decisions)
           row == AsRow(d, n + 1, ts)
<1>1. decisions' = Append(decisions, row) /\ shown' = Append(shown, None)
  BY DEF WriteDecision
<1>2. /\ decisions \in Seq(DecisionRecord) /\ shown \in Seq(Answers \cup {None})
      /\ n \in Nat /\ DOMAIN decisions = 1 .. n /\ Len(shown) = n
  BY DEF IInv, TypeOK, Answered
<1>3. row.id = n + 1 /\ row.answer = None
  BY DEF AsRow
<1>4. row \in DecisionRecord
  BY <1>2, DecisionsAssumption DEF AsRow, DecisionRecord
<1> HIDE DEF row
<1>5. /\ Len(decisions') = n + 1 /\ DOMAIN decisions' = 1 .. n + 1
      /\ decisions'[n + 1] = row /\ \A i \in 1 .. n : decisions'[i] = decisions[i]
  BY <1>1, <1>2, <1>4
<1>6. /\ shown' \in Seq(Answers \cup {None}) /\ Len(shown') = n + 1
      /\ shown'[n + 1] = None /\ \A i \in 1 .. n : shown'[i] = shown[i]
  BY <1>1, <1>2
<1> HIDE DEF n
<1>7. ASSUME NEW i \in 1 .. n + 1
      PROVE  decisions'[i].id = i /\ decisions'[i].answer = shown'[i]
  <2>1. CASE i = n + 1
    BY <1>3, <1>5, <1>6, <2>1
  <2>2. CASE i \in 1 .. n
    BY <1>2, <1>5, <1>6, <2>2 DEF Answered
  <2> QED
    BY <1>2, <2>1, <2>2
<1> QED
  BY <1>5, <1>6, <1>7 DEF Answered

(* An answer goes to the row of its id and to no other one.                  *)
LEMMA UpdateAnswers ==
    ASSUME IInv, Answered, NEW p \in Conns, NEW id \in DOMAIN decisions, NEW a \in Answers,
           UpdateAnswer(p, id, a)
    PROVE  Answered'
<1>1. /\ decisions' = [decisions EXCEPT ![id].answer = a]
      /\ shown' = [shown EXCEPT ![id] = a]
  BY DEF UpdateAnswer
<1>2. /\ decisions \in Seq(DecisionRecord) /\ shown \in Seq(Answers \cup {None})
      /\ Len(shown) = Len(decisions) /\ Len(decisions) \in Nat
      /\ DOMAIN decisions = 1 .. Len(decisions) /\ DOMAIN shown = DOMAIN decisions
  BY DEF IInv, TypeOK, Answered
<1>3. decisions[id] \in DecisionRecord /\ decisions[id].id = id
  BY <1>2 DEF Answered
<1> DEFINE row == [decisions[id] EXCEPT !.answer = a]
<1>4. row.id = id /\ row.answer = a /\ row \in DecisionRecord
  BY <1>3 DEF DecisionRecord
<1>5. decisions' = [decisions EXCEPT ![id] = row]
  BY <1>1
<1> HIDE DEF row
<1>6. /\ decisions' \in Seq(DecisionRecord) /\ Len(decisions') = Len(decisions)
      /\ DOMAIN decisions' = DOMAIN decisions
      /\ \A i \in DOMAIN decisions : decisions'[i] = IF i = id THEN row ELSE decisions[i]
  BY <1>2, <1>4, <1>5
<1>7. /\ shown' \in Seq(Answers \cup {None}) /\ Len(shown') = Len(shown)
      /\ \A i \in DOMAIN decisions : shown'[i] = IF i = id THEN a ELSE shown[i]
  BY <1>1, <1>2
<1>8. \A i \in DOMAIN decisions : decisions'[i].id = i /\ decisions'[i].answer = shown'[i]
  BY <1>4, <1>6, <1>7 DEF Answered
<1> QED
  BY <1>2, <1>6, <1>7, <1>8 DEF Answered

(* The other steps leave both tables alone, or one of them.                  *)
LEMMA NextReads ==
    ASSUME IInv, Numbered, Answered, [Next]_auditVars
    PROVE  Numbered' /\ Answered'
<1>1. ASSUME UNCHANGED <<ledger, decisions, shown>> PROVE Numbered' /\ Answered'
  BY <1>1 DEF Numbered, Answered
<1>2. ASSUME UNCHANGED ledger PROVE Numbered'
  BY <1>2 DEF Numbered
<1>3. ASSUME UNCHANGED <<decisions, shown>> PROVE Answered'
  BY <1>3 DEF Answered
<1>4. ASSUME NEW p \in Conns, Step(p) PROVE Numbered' /\ Answered'
  <2>1. CASE Open(p) \/ ReadVersion(p) \/ Migrate(p) \/ Insert(p) \/ InsertBusy(p) \/ Crash(p)
             \/ \E r \in Receipts : ReadHead(p, r)
    BY <1>1, <2>1 DEF Open, ReadVersion, Migrate, Insert, InsertBusy, Crash, ReadHead, dbVars
  <2>2. CASE Commit(p)
    <3>1. UNCHANGED <<decisions, shown>>
      BY <2>2 DEF Commit
    <3> QED
      BY <1>3, <2>2, <3>1, CommitNumbers
  <2>3. CASE \E d \in Decisions, ts \in Times : WriteDecision(p, d, ts)
    <3>1. UNCHANGED ledger
      BY <2>3 DEF WriteDecision
    <3> QED
      BY <1>2, <2>3, <3>1, WriteAnswers
  <2>4. CASE \E id \in DOMAIN decisions, a \in Answers : UpdateAnswer(p, id, a)
    <3>1. UNCHANGED ledger
      BY <2>4 DEF UpdateAnswer
    <3> QED
      BY <1>2, <2>4, <3>1, UpdateAnswers
  <2> QED
    BY <1>4, <2>1, <2>2, <2>3, <2>4 DEF Step
<1>5. CASE UNCHANGED auditVars
  BY <1>1, <1>5 DEF auditVars, dbVars
<1> QED
  BY <1>4, <1>5 DEF Next

(* So it stays.                                                              *)
LEMMA ReadsInvariance == Spec => [](IInv /\ Numbered /\ Answered)
<1>1. IInv /\ Numbered /\ Answered /\ [Next]_auditVars => (IInv /\ Numbered /\ Answered)'
  BY NextIInv, NextReads
<1> QED
  BY <1>1, InitIInv, InitReads, PTL DEF Spec

-----------------------------------------------------------------------------
(* verify_ledger.                                                            *)

(* The rows whose link or hash does not check.                               *)
BadRows(rows) ==
    {i \in DOMAIN rows :
        \/ rows[i].prev # IF i = 1 THEN Genesis ELSE rows[i - 1].this
        \/ ChainHash(rows[i].prev, rows[i].receipt) # rows[i].this}

(* It reports the first of them.                                             *)
LEMMA FirstBadAt ==
    ASSUME NEW rows, NEW i \in BadRows(rows), BadRows(rows) \subseteq Int,
           \A j \in BadRows(rows) : i <= j
    PROVE  FirstBad(rows) = rows[i].seq
<1> DEFINE bad == BadRows(rows)
<1>1. FirstBad(rows) = rows[CHOOSE k \in bad : \A j \in bad : k <= j].seq
  BY DEF FirstBad, BadRows
<1> HIDE DEF bad
<1>2. i \in bad /\ bad \subseteq Int /\ \A j \in bad : i <= j
  BY DEF bad
<1>3. \A k \in bad : (\A j \in bad : k <= j) => k = i
  BY <1>2
<1>4. (CHOOSE k \in bad : \A j \in bad : k <= j) = i
  BY <1>2, <1>3
<1> QED
  BY <1>1, <1>4

(* A hash tells the receipt it covers, and is not the hash it continues.     *)
LEMMA HashTells ==
    ASSUME NEW prev \in Seq(Receipts), NEW r \in Receipts
    PROVE  /\ \A q \in Receipts : ChainHash(prev, q) = ChainHash(prev, r) => q = r
           /\ ChainHash(prev, r) # prev
<1>1. \A q \in Receipts : Append(prev, q)[Len(prev) + 1] = q /\ Len(Append(prev, q)) = Len(prev) + 1
  OBVIOUS
<1>2. Len(prev) \in Nat
  OBVIOUS
<1> QED
  BY <1>1, <1>2 DEF ChainHash

(* An altered receipt breaks its own hash, and no row before it.             *)
LEMMA AlteredIsLocated ==
    ASSUME IInv, Numbered, NEW i \in DOMAIN ledger, NEW r \in Receipts \ {ledger[i].receipt}
    PROVE  FirstBad([ledger EXCEPT ![i].receipt = r]) = i
<1> DEFINE rows == [ledger EXCEPT ![i].receipt = r]
           row == [ledger[i] EXCEPT !.receipt = r]
           n == Len(ledger)
<1>1. ledger \in Seq(LedgerEntry) /\ n \in Nat /\ DOMAIN ledger = 1 .. n
  BY DEF IInv, TypeOK
<1>2. ledger[i] \in LedgerEntry
  BY <1>1
<1>3. /\ row.seq = i /\ row.prev = ledger[i].prev /\ row.this = ledger[i].this /\ row.receipt = r
      /\ ledger[i].prev \in Seq(Receipts) /\ ledger[i].receipt \in Receipts
  BY <1>2 DEF Numbered, LedgerEntry
<1>4. DOMAIN rows = 1 .. n /\ rows[i] = row /\ \A j \in 1 .. n : j # i => rows[j] = ledger[j]
  BY <1>1
<1> HIDE DEF rows, row, n
<1>5. /\ \A j \in 1 .. n : ledger[j].prev = IF j = 1 THEN Genesis ELSE ledger[j - 1].this
      /\ \A j \in 1 .. n : ledger[j].this = ChainHash(ledger[j].prev, ledger[j].receipt)
  BY <1>1 DEF IInv, Linked, n
<1>6. i \in BadRows(rows)
  <2>1. ChainHash(row.prev, row.receipt) # row.this
    BY <1>1, <1>3, <1>5, HashTells
  <2> QED
    BY <1>1, <1>4, <2>1 DEF BadRows
<1>7. ASSUME NEW j \in 1 .. n, j < i PROVE j \notin BadRows(rows)
  <2>1. rows[j] = ledger[j] /\ (j # 1 => j - 1 \in 1 .. n /\ rows[j - 1] = ledger[j - 1])
    BY <1>1, <1>4, <1>7
  <2> QED
    BY <1>5, <2>1 DEF BadRows
<1>8. BadRows(rows) \subseteq 1 .. n
  BY <1>4 DEF BadRows
<1>9. BadRows(rows) \subseteq Int /\ \A j \in BadRows(rows) : i <= j
  BY <1>1, <1>7, <1>8
<1>10. FirstBad(rows) = rows[i].seq
  BY <1>6, <1>9, FirstBadAt
<1> QED
  BY <1>3, <1>4, <1>10 DEF rows

(* The row after a missing one does not link to the one before it.           *)
LEMMA MissingIsLocated ==
    ASSUME IInv, Numbered, NEW i \in DOMAIN ledger, i < Len(ledger)
    PROVE  FirstBad(Without(ledger, i)) = i + 1
<1> DEFINE n == Len(ledger)
           rows == Without(ledger, i)
           head == SubSeq(ledger, 1, i - 1)
           rest == SubSeq(ledger, i + 1, n)
<1>1. ledger \in Seq(LedgerEntry) /\ n \in Nat /\ DOMAIN ledger = 1 .. n /\ i \in 1 .. n /\ i < n
  BY DEF IInv, TypeOK
<1>2. /\ head \in Seq(LedgerEntry) /\ Len(head) = i - 1
      /\ \A j \in 1 .. i - 1 : head[j] = ledger[j]
  BY <1>1
<1>3. rest \in Seq(LedgerEntry) /\ Len(rest) = n - i /\ rest[1] = ledger[i + 1]
  BY <1>1
<1>4. rows = head \o rest
  BY DEF Without
<1> HIDE DEF rows, head, rest, n
<1>5. /\ DOMAIN rows = 1 .. n - 1
      /\ \A j \in 1 .. i - 1 : rows[j] = ledger[j]
      /\ rows[i] = ledger[i + 1]
  <2>1. rows \in Seq(LedgerEntry) /\ Len(rows) = Len(head) + Len(rest)
    <3>1. \A u, v \in Seq(LedgerEntry) : u \o v \in Seq(LedgerEntry) /\ Len(u \o v) = Len(u) + Len(v)
      OBVIOUS
    <3> QED
      BY <1>2, <1>3, <1>4, <3>1
  <2>2. \A j \in 1 .. Len(rows) : rows[j] = IF j <= Len(head) THEN head[j] ELSE rest[j - Len(head)]
    BY <1>2, <1>3, <1>4
  <2>3. Len(rows) = n - 1 /\ i - (i - 1) = 1 /\ i \in 1 .. n - 1 /\ ~ (i <= i - 1)
    BY <1>1, <1>2, <1>3, <2>1
  <2>4. rows[i] = rest[1]
    BY <1>2, <2>2, <2>3
  <2>5. \A j \in 1 .. i - 1 : j \in 1 .. n - 1 /\ j <= i - 1
    BY <1>1
  <2>6. \A j \in 1 .. i - 1 : rows[j] = ledger[j]
    BY <1>2, <2>2, <2>3, <2>5
  <2> QED
    BY <1>3, <2>1, <2>3, <2>4, <2>6
<1>6. /\ \A j \in 1 .. n : ledger[j].prev = IF j = 1 THEN Genesis ELSE ledger[j - 1].this
      /\ \A j \in 1 .. n : ledger[j].this = ChainHash(ledger[j].prev, ledger[j].receipt)
      /\ \A j \in 1 .. n : ledger[j].seq = j
  BY <1>1 DEF IInv, Linked, Numbered
<1>7. i \in BadRows(rows)
  <2>1. ledger[i] \in LedgerEntry
    BY <1>1
  <2>2. ledger[i].prev \in Seq(Receipts) /\ ledger[i].receipt \in Receipts
    BY <2>1 DEF LedgerEntry
  <2>3. ledger[i].this # ledger[i].prev
    BY <1>1, <1>6, <2>2, HashTells
  <2>4. rows[i].prev = ledger[i].this
    <3>1. i + 1 \in 1 .. n /\ i + 1 # 1 /\ (i + 1) - 1 = i
      BY <1>1
    <3> QED
      BY <1>5, <1>6, <3>1
  <2>5. ledger[i].prev = IF i = 1 THEN Genesis ELSE rows[i - 1].this
    <3>1. i # 1 => i - 1 \in 1 .. i - 1
      BY <1>1
    <3> QED
      BY <1>1, <1>5, <1>6, <3>1
  <2>6. i \in DOMAIN rows
    BY <1>1, <1>5
  <2> QED
    BY <2>3, <2>4, <2>5, <2>6 DEF BadRows
<1>8. ASSUME NEW j \in 1 .. i - 1 PROVE j \notin BadRows(rows)
  <2>1. rows[j] = ledger[j] /\ (j # 1 => j - 1 \in 1 .. i - 1 /\ rows[j - 1] = ledger[j - 1]) /\ j \in 1 .. n
    <3>1. j # 1 => j - 1 \in 1 .. i - 1
      BY <1>1
    <3>2. j \in 1 .. n
      BY <1>1
    <3> QED
      BY <1>5, <3>1, <3>2
  <2> QED
    BY <1>6, <2>1 DEF BadRows
<1>9. BadRows(rows) \subseteq 1 .. n - 1
  BY <1>5 DEF BadRows
<1>10. BadRows(rows) \subseteq Int /\ \A j \in BadRows(rows) : i <= j
  BY <1>1, <1>8, <1>9
<1>11. FirstBad(rows) = rows[i].seq
  BY <1>7, <1>10, FirstBadAt
<1>12. i + 1 \in 1 .. n
  BY <1>1
<1> QED
  BY <1>5, <1>6, <1>11, <1>12 DEF rows

-----------------------------------------------------------------------------
(* Db::query.                                                                *)

(* Rows are finitely many, and told apart by their ids.                      *)
LEMMA RowsAreFinite ==
    ASSUME IInv, NEW S \in SUBSET ToSet(decisions)
    PROVE  IsFiniteSet(S) /\ Cardinality(S) \in Nat /\ Cardinality(S) <= Len(decisions)
<1> DEFINE n == Len(decisions)
           D == 1 .. n
           T == ToSet(decisions)
           f == [i \in D |-> decisions[i]]
<1>1. n \in Nat /\ DOMAIN decisions = D
  BY DEF IInv, TypeOK
<1>2. f \in Surjection(D, T)
  BY <1>1 DEF ToSet, Surjection
<1>3. IsFiniteSet(D) /\ Cardinality(D) = n
  <2>1. 1 \in Int /\ n \in Int
    BY <1>1
  <2>2. IsFiniteSet(1 .. n) /\ Cardinality(1 .. n) = IF 1 > n THEN 0 ELSE n - 1 + 1
    BY <2>1, FS_Interval
  <2> HIDE DEF n
  <2> QED
    BY <1>1, <2>2
<1> HIDE DEF f, D, T, n
<1>4. IsFiniteSet(T) /\ Cardinality(T) <= Cardinality(D)
  BY <1>2, <1>3, FS_Surjection
<1>5. IsFiniteSet(S) /\ Cardinality(S) <= Cardinality(T)
  BY <1>4, FS_Subset DEF T
<1>6. Cardinality(S) \in Nat /\ Cardinality(T) \in Nat
  BY <1>4, <1>5, FS_CardinalityType
<1> QED
  BY <1>1, <1>3, <1>4, <1>5, <1>6 DEF n

(* A row is found at its id.                                                 *)
LEMMA RowsHaveIds ==
    ASSUME IInv, Answered, NEW row \in ToSet(decisions)
    PROVE  /\ row \in DecisionRecord /\ row.id \in DOMAIN decisions /\ row = decisions[row.id]
           /\ row.id \in Nat /\ row.ts \in Int
<1>1. PICK i \in DOMAIN decisions : row = decisions[i]
  BY DEF ToSet
<1>2. decisions[i] \in DecisionRecord
  BY DEF IInv, TypeOK
<1>3. decisions[i].id = i
  BY DEF Answered
<1>4. decisions[i].id \in Nat /\ decisions[i].ts \in Int
  BY <1>2, ReadsAssumption DEF DecisionRecord
<1> QED
  BY <1>1, <1>2, <1>3, <1>4

(* Time, and the id where two times are equal, put any two rows in an order. *)
LEMMA AheadOrders ==
    ASSUME IInv, Answered, NEW S \in SUBSET ToSet(decisions), NEW ascending \in BOOLEAN
    PROVE  Orders(AheadBy(S, ascending), S)
<1> DEFINE Ahead(a, b) == IF ascending THEN Before(a, b) ELSE Before(b, a)
           R == AheadBy(S, ascending)
<1>1. \A x, y \in S : <<x, y>> \in R <=> Ahead(x, y)
  BY DEF AheadBy
<1>2. \A x \in S : x.id \in Nat /\ x.ts \in Int /\ x = decisions[x.id]
  BY RowsHaveIds
<1>3. \A x \in S : ~ Before(x, x)
  BY <1>2 DEF Before
<1>4. \A x, y, z \in S : Before(x, y) /\ Before(y, z) => Before(x, z)
  BY <1>2 DEF Before
<1>5. \A x, y \in S : x # y => Before(x, y) \/ Before(y, x)
  <2> SUFFICES ASSUME NEW x \in S, NEW y \in S, x # y PROVE Before(x, y) \/ Before(y, x)
    OBVIOUS
  <2>1. x.id # y.id
    BY <1>2
  <2> QED
    BY <1>2, <2>1 DEF Before
<1> HIDE DEF R
<1>6. CASE ascending
  BY <1>1, <1>3, <1>4, <1>5, <1>6 DEF Orders, R
<1>7. CASE ~ascending
  BY <1>1, <1>3, <1>4, <1>5, <1>7 DEF Orders, R
<1> QED
  BY <1>6, <1>7

(* The first rows, and at least one.                                         *)
LEMMA UptoFirst ==
    ASSUME NEW X, NEW rows \in Seq(X), NEW limit \in Nat
    PROVE  /\ AtLeast1(limit) \in Nat \ {0}
           /\ Upto(rows, limit) \in Seq(X)
           /\ Len(Upto(rows, limit)) = IF AtLeast1(limit) < Len(rows) THEN AtLeast1(limit)
                                       ELSE Len(rows)
           /\ Len(Upto(rows, limit)) <= Len(rows)
           /\ DOMAIN Upto(rows, limit) = 1 .. Len(Upto(rows, limit))
           /\ \A i \in DOMAIN Upto(rows, limit) : Upto(rows, limit)[i] = rows[i]
<1> DEFINE m == IF AtLeast1(limit) < Len(rows) THEN AtLeast1(limit) ELSE Len(rows)
           u == SubSeq(rows, 1, m)
<1>1. AtLeast1(limit) \in Nat \ {0}
  BY DEF AtLeast1
<1>2. m \in Nat /\ m <= Len(rows) /\ Len(rows) \in Nat
  BY <1>1
<1>3. Upto(rows, limit) = u
  BY DEF Upto
<1> HIDE DEF m
<1>4. u \in Seq(X) /\ Len(u) = m /\ \A i \in 1 .. m : u[i] = rows[i]
  BY <1>2
<1> HIDE DEF u
<1>5. DOMAIN u = 1 .. m
  BY <1>4
<1> QED
  BY <1>1, <1>2, <1>3, <1>4, <1>5 DEF m

(* A query lists the hits up to its limit, in order, and leaves out only     *)
(* what comes after.                                                         *)
LEMMA QueryIsRight ==
    ASSUME IInv, Answered, NEW f, NEW limit \in Nat, NEW ascending \in BOOLEAN
    PROVE  LET answer == Query(decisions, f, ascending, limit)
               hits   == Hits(decisions, f)
           IN /\ IsFiniteSet(hits) /\ Cardinality(hits) \in Nat
              /\ answer \in Seq(hits) /\ DOMAIN answer = 1 .. Len(answer)
              /\ Len(answer) = IF AtLeast1(limit) < Cardinality(hits) THEN AtLeast1(limit)
                               ELSE Cardinality(hits)
              /\ \A i, j \in DOMAIN answer : i < j => <<answer[i], answer[j]>> \in AheadBy(hits, ascending)
              /\ \A i \in DOMAIN answer : \A h \in hits \ ToSet(answer) :
                     <<answer[i], h>> \in AheadBy(hits, ascending)
              /\ Cardinality(hits) <= AtLeast1(limit) =>
                     \A h \in hits : \E i \in DOMAIN answer : answer[i] = h
<1> DEFINE hits == Hits(decisions, f)
           R == AheadBy(hits, ascending)
           all == Listed(hits, R)
           answer == Query(decisions, f, ascending, limit)
           N == Cardinality(hits)
<1>1. hits \in SUBSET ToSet(decisions)
  BY DEF Hits
<1>2. answer = Upto(all, limit)
  BY DEF Query
<1> HIDE DEF hits, answer
<1>3. IsFiniteSet(hits) /\ N \in Nat
  BY <1>1, RowsAreFinite
<1>4. Orders(R, hits)
  BY <1>1, AheadOrders
<1> HIDE DEF R
<1>5. all \in Seq(hits) /\ Len(all) = N /\ \A i \in 1 .. N : all[i] \in hits
  BY <1>3, <1>4, ListedRanks
<1>6. \A i, j \in 1 .. N : i < j => <<all[i], all[j]>> \in R
  BY <1>3, <1>4, ListedInOrder
<1>7. \A h \in hits : \E i \in 1 .. N : all[i] = h
  BY <1>3, <1>4, ListedAll
<1> HIDE DEF all, N
<1>8. /\ answer \in Seq(hits) /\ Len(answer) \in Nat /\ Len(answer) <= N
      /\ Len(answer) = IF AtLeast1(limit) < N THEN AtLeast1(limit) ELSE N
      /\ DOMAIN answer = 1 .. Len(answer)
      /\ \A i \in 1 .. Len(answer) : answer[i] = all[i]
  <2>1. answer \in Seq(hits)
    BY <1>2, <1>5, UptoFirst
  <2>2. Len(answer) \in Nat
    BY <2>1
  <2>3. /\ Len(answer) = IF AtLeast1(limit) < Len(all) THEN AtLeast1(limit) ELSE Len(all)
        /\ Len(answer) <= Len(all)
        /\ DOMAIN answer = 1 .. Len(answer)
        /\ \A i \in DOMAIN answer : answer[i] = all[i]
    BY <1>2, <1>5, UptoFirst
  <2> QED
    BY <1>5, <2>1, <2>2, <2>3
<1>9. \A i, j \in DOMAIN answer : i < j => <<answer[i], answer[j]>> \in R
  <2>1. \A i \in 1 .. Len(answer) : i \in 1 .. N
    BY <1>3, <1>8
  <2> QED
    BY <1>6, <1>8, <2>1
<1>10. ASSUME NEW i \in DOMAIN answer, NEW h \in hits \ ToSet(answer) PROVE <<answer[i], h>> \in R
  <2>1. PICK j \in 1 .. N : all[j] = h
    BY <1>7
  <2>2. ~ (j \in 1 .. Len(answer))
    <3>1. \A k \in 1 .. Len(answer) : answer[k] \in ToSet(answer)
      BY <1>8 DEF ToSet
    <3> QED
      BY <1>8, <2>1, <3>1
  <2>3. i < j /\ i \in 1 .. N /\ answer[i] = all[i]
    BY <1>3, <1>8, <2>2
  <2> QED
    BY <1>6, <2>1, <2>3
<1>11. N <= AtLeast1(limit) => \A h \in hits : \E i \in DOMAIN answer : answer[i] = h
  <2>1. AtLeast1(limit) \in Nat
    BY DEF AtLeast1
  <2>2. N <= AtLeast1(limit) => Len(answer) = N
    BY <1>3, <1>8, <2>1
  <2> QED
    BY <1>7, <1>8, <2>2
<1> QED
  BY <1>3, <1>8, <1>9, <1>10, <1>11 DEF hits, answer, R, N

(* The property's words for the same.                                        *)
LEMMA QueriesAnswer == IInv /\ Answered => QueryIsNewestMatches
<1> SUFFICES ASSUME IInv, Answered,
                    NEW f \in Filters, NEW limit \in Limits, NEW ascending \in BOOLEAN
             PROVE  LET answer == Query(decisions, f, ascending, limit)
                        hits   == {row \in ToSet(decisions) : Matches(row, f)}
                        Ahead(a, b) == IF ascending THEN Before(a, b) ELSE Before(b, a)
                    IN /\ Len(answer) = IF AtLeast1(limit) < Cardinality(hits) THEN AtLeast1(limit)
                                        ELSE Cardinality(hits)
                       /\ \A i, j \in DOMAIN answer : i < j => Ahead(answer[i], answer[j])
                       /\ \A i \in DOMAIN answer :
                             /\ answer[i] \in hits
                             /\ \A h \in hits \ ToSet(answer) : Ahead(answer[i], h)
  BY DEF QueryIsNewestMatches
<1> DEFINE answer == Query(decisions, f, ascending, limit)
           hits   == Hits(decisions, f)
           R == AheadBy(hits, ascending)
           Ahead(a, b) == IF ascending THEN Before(a, b) ELSE Before(b, a)
<1>1. limit \in Nat
  BY ReadsAssumption
<1>2. /\ answer \in Seq(hits) /\ DOMAIN answer = 1 .. Len(answer)
      /\ Len(answer) = IF AtLeast1(limit) < Cardinality(hits) THEN AtLeast1(limit)
                       ELSE Cardinality(hits)
      /\ \A i, j \in DOMAIN answer : i < j => <<answer[i], answer[j]>> \in R
      /\ \A i \in DOMAIN answer : \A h \in hits \ ToSet(answer) : <<answer[i], h>> \in R
  BY <1>1, QueryIsRight
<1>3. \A a, b : <<a, b>> \in R => Ahead(a, b)
  BY DEF AheadBy
<1>4. hits = {row \in ToSet(decisions) : Matches(row, f)}
  BY DEF Hits
<1> HIDE DEF answer, hits, R
<1>5. \A i \in DOMAIN answer : answer[i] \in hits
  BY <1>2
<1>6. /\ \A i, j \in DOMAIN answer : i < j => Ahead(answer[i], answer[j])
      /\ \A i \in DOMAIN answer : \A h \in hits \ ToSet(answer) : Ahead(answer[i], h)
  <2> HIDE DEF Ahead
  <2> QED
    BY <1>2, <1>3
<1> QED
  BY <1>2, <1>4, <1>5, <1>6 DEF answer

-----------------------------------------------------------------------------
(* explain_decision.                                                         *)

(* An id is found, in its own row, while the table is short.                 *)
LEMMA ExplainsRow ==
    ASSUME IInv, Answered, Len(decisions) <= ExplainLimit, NEW id \in DOMAIN decisions
    PROVE  Explain(decisions, id) = decisions[id]
<1> DEFINE newest == Query(decisions, NoFilter, FALSE, ExplainLimit)
           hits == Hits(decisions, NoFilter)
           found == FindById(decisions, id)
           row == decisions[id]
<1>1. hits = ToSet(decisions)
  <2>1. \A r : Matches(r, NoFilter)
    BY DEF Matches, NoFilter
  <2> QED
    BY <2>1 DEF Hits
<1>2. /\ newest \in Seq(hits) /\ DOMAIN newest = 1 .. Len(newest)
      /\ Cardinality(hits) \in Nat
      /\ Cardinality(hits) <= AtLeast1(ExplainLimit) =>
             \A h \in hits : \E i \in DOMAIN newest : newest[i] = h
  <2>1. ExplainLimit \in Nat
    BY ReadsAssumption
  <2>2. PICK down \in BOOLEAN : down = FALSE
    OBVIOUS
  <2> DEFINE listed == Query(decisions, NoFilter, down, ExplainLimit)
  <2>3. /\ listed \in Seq(hits) /\ DOMAIN listed = 1 .. Len(listed)
        /\ Cardinality(hits) \in Nat
        /\ Cardinality(hits) <= AtLeast1(ExplainLimit) =>
               \A h \in hits : \E i \in DOMAIN listed : listed[i] = h
    BY <2>1, QueryIsRight
  <2>4. newest = listed
    BY <2>2
  <2> HIDE DEF newest, listed
  <2> QED
    BY <2>3, <2>4
<1>3. row \in ToSet(decisions) /\ row.id = id
  BY DEF ToSet, Answered
<1>4. \E i \in DOMAIN newest : newest[i] = row
  <2>1. Cardinality(hits) <= Len(decisions) /\ Len(decisions) \in Nat
    BY <1>1, RowsAreFinite DEF IInv, TypeOK
  <2>2. ExplainLimit <= AtLeast1(ExplainLimit) /\ AtLeast1(ExplainLimit) \in Nat /\ ExplainLimit \in Nat
    BY ReadsAssumption DEF AtLeast1
  <2>3. Cardinality(hits) <= AtLeast1(ExplainLimit)
    <3> HIDE DEF hits
    <3> QED
      BY <1>2, <2>1, <2>2
  <2>4. row \in hits
    BY <1>1, <1>3
  <2> HIDE DEF hits, newest
  <2> QED
    BY <1>2, <2>3, <2>4
<1>5. \A i \in DOMAIN newest : newest[i].id = id => newest[i] = row
  <2> HIDE DEF newest, hits
  <2>1. \A i \in DOMAIN newest : newest[i] \in ToSet(decisions)
    <3>1. \A i \in DOMAIN newest : newest[i] \in hits
      BY <1>2
    <3> QED
      BY <1>1, <3>1
  <2> QED
    BY <2>1, RowsHaveIds
<1>6. found = {newest[i] : i \in {j \in DOMAIN newest : newest[j].id = id}}
  BY DEF FindById
<1> HIDE DEF newest, found, row
<1>7. found = {row}
  BY <1>3, <1>4, <1>5, <1>6
<1>8. Explain(decisions, id) = IF found = {} THEN None ELSE CHOOSE r \in found : TRUE
  BY DEF Explain, found
<1>9. found # {} /\ \A r \in found : r = row
  BY <1>7
<1>10. (CHOOSE r \in found : TRUE) \in found
  BY <1>9
<1> QED
  BY <1>8, <1>9, <1>10 DEF row

(* So it shows the answer recorded for the row, and what a listing shows.    *)
LEMMA ExplanationsAnswer == IInv /\ Answered => ExplainShowsAnswer
<1> SUFFICES ASSUME IInv, Answered, Len(decisions) <= ExplainLimit, NEW id \in DOMAIN decisions
             PROVE  /\ Explain(decisions, id) # None
                    /\ Explain(decisions, id).answer = shown[id]
                    /\ \A f \in Filters, limit \in Limits :
                          LET listed == Recent(decisions, f, limit)
                          IN \A i \in DOMAIN listed :
                                listed[i].id = id => listed[i] = Explain(decisions, id)
  BY DEF ExplainShowsAnswer
<1>1. Explain(decisions, id) = decisions[id]
  BY ExplainsRow
<1>2. decisions[id] \in DecisionRecord /\ decisions[id].answer = shown[id]
  BY DEF IInv, TypeOK, Answered
<1>3. decisions[id] # None
  BY <1>2, NoneAssumption
<1>4. ASSUME NEW f \in Filters, NEW limit \in Limits,
             NEW i \in DOMAIN Recent(decisions, f, limit), Recent(decisions, f, limit)[i].id = id
      PROVE  Recent(decisions, f, limit)[i] = decisions[id]
  <2> DEFINE m == IF limit < 1 THEN 1 ELSE IF limit > 100 THEN 100 ELSE limit
             listed == Query(decisions, f, FALSE, m)
             hits == Hits(decisions, f)
  <2>1. m \in Nat /\ FALSE \in BOOLEAN
    BY ReadsAssumption
  <2>2. Recent(decisions, f, limit) = listed
    BY DEF Recent
  <2> HIDE DEF m
  <2>3. listed \in Seq(hits) /\ DOMAIN listed = 1 .. Len(listed)
    BY <2>1, QueryIsRight
  <2>4. hits \subseteq ToSet(decisions)
    BY DEF Hits
  <2> HIDE DEF listed, hits
  <2>5. listed[i] \in ToSet(decisions) /\ listed[i].id = id
    BY <1>4, <2>2, <2>3, <2>4
  <2>6. listed[i] = decisions[listed[i].id]
    BY <2>5, RowsHaveIds
  <2> QED
    BY <2>2, <2>5, <2>6
<1> QED
  BY <1>1, <1>2, <1>3, <1>4

(* Damage to the ledger is reported where it is, a query answers with the    *)
(* rows it was asked for in their order, and an explanation is that of the   *)
(* row itself, with the answer recorded for it: for any number of processes, *)
(* rows and answers, and clocks that run as they like (verify_ledger,        *)
(* Db::query, explain_decision).                                             *)
THEOREM ReadersAreRight == Spec => []ReadsAreRight
<1>1. IInv /\ Numbered => DamageIsLocated
  BY AlteredIsLocated, MissingIsLocated DEF DamageIsLocated
<1>2. IInv /\ Numbered /\ Answered => ReadsAreRight
  BY <1>1, QueriesAnswer, ExplanationsAnswer DEF ReadsAreRight
<1> QED
  BY <1>2, ReadsInvariance, PTL
=============================================================================
