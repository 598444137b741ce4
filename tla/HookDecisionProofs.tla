------------------------ MODULE HookDecisionProofs ------------------------
(***************************************************************************)
(* Proofs about HookDecision: type correctness, and that every verdict is  *)
(* audited, no allow is silent, answers stay with their request and a      *)
(* request has one row, for every set of requests, rules and bounds.       *)
(*                                                                         *)
(* The strengthening (Inv) ties the three parties together: what a         *)
(* connection in flight may still do to the table (ConnInv), what a hook   *)
(* at each place of handle_permission_request knows of its row (HookInv),  *)
(* and which rows a hook that has not resolved cannot have (TableInv).     *)
(*                                                                         *)
(* Then DenyEnforcedInTime of PtyWrapper, for any lookback and any clock:  *)
(* a deny the hook was told of has its row (Inv), so when the wrapper      *)
(* looked and found nothing, that row was older than the lookback; and     *)
(* from then on neither the row's time nor what the hook said changes.     *)
(*                                                                         *)
(* Then PromptIsServed of PtyTap, for any output, any sizes of the reads   *)
(* and the window, and any prompt that cannot overlap itself: the window   *)
(* is what was read since the last lookup, or as much of it as there is    *)
(* room for (WindowInv), so each prompt is found in it, and found once.    *)
(*                                                                         *)
(* Then PolicyReload, for any policy files and any number of edits: types, *)
(* that the rules in force are the file's once the callback has no event   *)
(* left, and that a deny stays a deny among any other lines.  QuietInv     *)
(* strengthens CurrentWhenQuiet to the reloader's other places: a file     *)
(* that changed behind a place that will not read it again has queued an   *)
(* event, or was missed.  trace and eval are compared for every ruleset:   *)
(* what trace has noted after n lines depends only on the first of them    *)
(* that fired (TraceDecides, by induction on n), and the lines stand in    *)
(* the order in which eval asks (GroupedLines).                            *)
(***************************************************************************)
EXTENDS PtyWrapper, PtyTap, PolicyReload, ListingProofs, TLAPS

IsRowOf(id, h, verbs) == id \in RowsOf(h) /\ decisions[id].decision \in verbs

(* A connection that has not written leaves no row; one that answered a      *)
(* create wrote the row it names; a resolve names a row that asked.          *)
ConnInv(h) ==
    LET c == conn[h]
    IN  /\ c.st \in {"create", "insert"} => RowsOf(h) = {}
        /\ c.st = "insert" => c.decision \in Verbs
        /\ c.st = "resolve"
              => IsRowOf(c.id, h, {"ask"}) /\ hook[h] \in {"resolving"} \cup Ended
        /\ (c.st = "replied" /\ c.ok /\ hook[h] = "creating")
              => IsRowOf(c.id, h, {c.decision}) /\ c.decision \in Verbs

HookInv(h) ==
    /\ hook[h] = "start" => conn[h].st = "closed" /\ RowsOf(h) = {}
    /\ hook[h] = "creating"
          => /\ Verdict(h) \in offered[h]
             /\ conn[h].st = "insert" => conn[h].decision \in offered[h]
             /\ (conn[h].st = "replied" /\ conn[h].ok) => conn[h].decision \in offered[h]
    /\ hook[h] \in {"start", "creating", "prompt"} => answer[h] = None
    /\ hook[h] \in {"start", "creating", "prompt", "answered", "resolving"} => out[h] = None
    /\ hook[h] \in {"prompt", "answered", "resolving"} => IsRowOf(ticket[h], h, {"ask"})
    /\ answer[h] # None => IsRowOf(ticket[h], h, {"ask"})
    /\ out[h] \in {"allow", "deny"} =>
          \E i \in RowsOf(h) : decisions[i].decision = IF answer[h] = None THEN out[h] ELSE "ask"
    /\ out[h] = "allow" =>
          answer[h] \in {"allow", "always_allow"} \/ "allow" \in offered[h]

(* Only a hook whose human has answered has an answered row; the answer is   *)
(* that human's; no hook has two rows.                                       *)
TableInv ==
    /\ \A i \in DOMAIN decisions :
          hook[decisions[i].hook] \in {"start", "creating", "prompt", "answered"}
              => decisions[i].surface # "tui"
    /\ OneRowPerRequest
    /\ AnswersStayHome

Inv ==
    /\ TypeOK
    /\ \A h \in Hooks : ConnInv(h) /\ HookInv(h)
    /\ TableInv

-----------------------------------------------------------------------------
(* Whatever the rules, a decision is a verb (Engine::eval).                  *)
LEMMA EvalVerb ==
    ASSUME NEW v, NEW call
    PROVE  Eval(v, call).decision \in Verbs
BY DEF Eval, First, Outcome, DefaultAsk, Verbs

LEMMA VerdictVerb == ASSUME NEW h PROVE Verdict(h) \in Verbs
BY EvalVerb DEF Verdict

LEMMA NoneApart == None \notin Verbs /\ None \notin Answers /\ None # "tui" /\ None # "hook-direct"
BY NoneAssumption DEF Verbs, Answers

Conn == [st : {"closed", "create", "insert", "resolve", "replied"},
         decision : Verbs \cup {None}, id : Nat, ok : BOOLEAN]

LEMMA ReplyType ==
    ASSUME NEW c \in Conn, NEW id \in Nat
    PROVE  Done(c, id) \in Conn /\ Failed(c) \in Conn
BY DEF Done, Failed, Conn

LEMMA EvaluatedType ==
    ASSUME NEW c \in Conn, NEW v \in Verbs
    PROVE  Evaluated(c, v) \in Conn
BY DEF Evaluated, Conn

LEMMA NewRowType ==
    ASSUME NEW h \in Hooks, conn[h] \in Conn, conn[h].decision \in Verbs
    PROVE  NewRow(h) \in Row
BY DEF NewRow, Row, Conn, Verbs

-----------------------------------------------------------------------------
LEMMA TypeInit == Init => TypeOK
<1> SUFFICES ASSUME Init PROVE TypeOK
  OBVIOUS
<1>1. Closed \in [st : {"closed", "create", "insert", "resolve", "replied"},
                  decision : Verbs \cup {None}, id : Nat, ok : BOOLEAN]
  BY DEF Closed
<1>2. decisions \in Seq(Row)
  BY DEF Init
<1> QED
  BY <1>1, <1>2 DEF Init, TypeOK

LEMMA TypeOffer ==
    ASSUME TypeOK, NEW v, Offer(v)
    PROVE  offered' \in [Hooks -> SUBSET Verbs]
BY EvalVerb DEF TypeOK, Offer

(* The daemon's steps.                                                       *)
LEMMA TypeDaemon ==
    ASSUME TypeOK, NEW h \in Hooks, DaemonStep(h), ConnInv(h)
    PROVE  TypeOK'
<1>1. CASE Evaluate(h)
  <2>1. conn' \in [Hooks -> Conn]
    <3>1. conn[h] \in Conn
      BY DEF TypeOK, Conn
    <3>2. Evaluated(conn[h], Verdict(h)) \in Conn
      BY <3>1, VerdictVerb, EvaluatedType
    <3> QED
      BY <1>1, <3>2 DEF Evaluate, TypeOK, Conn
  <2> QED
    BY <1>1, <2>1 DEF Evaluate, TypeOK, Conn, hookVars, boundVars
<1>2. CASE Insert(h)
  <2>1. conn' \in [Hooks -> Conn]
    <3>1. Len(decisions) + 1 \in Nat
      BY DEF TypeOK
    <3>2. conn[h] \in Conn
      BY DEF TypeOK, Conn
    <3>3. Done(conn[h], Len(decisions) + 1) \in Conn
      BY <3>1, <3>2, ReplyType
    <3> QED
      BY <1>2, <3>3 DEF Insert, TypeOK, Conn
  <2>2. NewRow(h) \in Row
    BY <1>2, NewRowType DEF Insert, ConnInv, TypeOK, Conn
  <2>3. decisions' \in Seq(Row)
    BY <1>2, <2>2 DEF Insert, TypeOK
  <2> QED
    BY <1>2, <2>1, <2>3 DEF Insert, TypeOK, Conn, hookVars, boundVars
<1>3. CASE InsertFails(h)
  <2>1. conn' \in [Hooks -> Conn]
    <3>1. conn[h] \in Conn /\ 0 \in Nat
      BY DEF TypeOK, Conn
    <3>2. Failed(conn[h]) \in Conn
      BY <3>1, ReplyType
    <3> QED
      BY <1>3, <3>2 DEF InsertFails, TypeOK, Conn
  <2> QED
    BY <1>3, <2>1 DEF InsertFails, TypeOK, Conn, hookVars
<1>4. CASE Update(h)
  <2>1. conn' \in [Hooks -> Conn]
    <3>1. conn[h] \in Conn /\ conn[h].id \in Nat
      BY DEF TypeOK, Conn
    <3>2. Failed(conn[h]) \in Conn /\ Done(conn[h], conn[h].id) \in Conn
      BY <3>1, ReplyType
    <3> QED
      BY <1>4, <3>2 DEF Update, TypeOK, Conn
  <2>2. decisions' \in Seq(Row)
    <3>1. CASE decisions' = decisions
      BY <3>1 DEF TypeOK
    <3>2. CASE /\ conn[h].id \in DOMAIN decisions
               /\ decisions' = [decisions EXCEPT ![conn[h].id].answer = answer[h],
                                                ![conn[h].id].surface = "tui"]
      <4>1. /\ decisions \in [1..Len(decisions) -> Row] /\ Len(decisions) \in Nat
            /\ answer[h] \in Answers \cup {None}
        BY DEF TypeOK
      <4>2. decisions' \in [1..Len(decisions) -> Row]
        BY <3>2, <4>1 DEF Row
      <4> QED
        BY <4>1, <4>2
    <3> QED
      BY <1>4, <3>1, <3>2 DEF Update
  <2> QED
    BY <1>4, <2>1, <2>2 DEF Update, TypeOK, Conn, hookVars, boundVars
<1>5. CASE UpdateFails(h)
  <2>1. conn' \in [Hooks -> Conn]
    <3>1. conn[h] \in Conn /\ 0 \in Nat
      BY DEF TypeOK, Conn
    <3>2. Failed(conn[h]) \in Conn
      BY <3>1, ReplyType
    <3> QED
      BY <1>5, <3>2 DEF UpdateFails, TypeOK, Conn
  <2> QED
    BY <1>5, <2>1 DEF UpdateFails, TypeOK, Conn, hookVars
<1> QED
  BY <1>1, <1>2, <1>3, <1>4, <1>5 DEF DaemonStep

(* The hook's steps.                                                         *)
LEMMA TypeHook ==
    ASSUME TypeOK, NEW h \in Hooks,
           Ask(h) \/ HookStep(h) \/ HumanAnswers(h) \/ Killed(h)
    PROVE  TypeOK'
<1>1. Creating \in Conn
  BY DEF Creating, Closed, Conn
<1>2. \A id \in Nat : Resolving(id) \in Conn
  BY DEF Resolving, Closed, Conn
<1>3. \A a : Behavior(a) \in Verbs
  BY DEF Behavior, Verbs
<1>4. CASE Ask(h)
  <2>1. conn' \in [Hooks -> Conn] /\ offered' \in [Hooks -> SUBSET Verbs]
    <3>1. conn \in [Hooks -> Conn] /\ offered \in [Hooks -> SUBSET Verbs]
      BY DEF TypeOK, Conn
    <3>2. {Verdict(h)} \in SUBSET Verbs
      BY VerdictVerb
    <3> QED
      BY <1>1, <1>4, <3>1, <3>2 DEF Ask
  <2> QED
    BY <1>4, <2>1 DEF Ask, Respond, TypeOK, Conn, Ended, boundVars, Verbs
<1>5. CASE TakeVerdict(h)
  <2>1. conn[h].decision \in Verbs \cup {None}
    BY DEF TypeOK
  <2> QED
    BY <1>5, <2>1 DEF TakeVerdict, Respond, TypeOK, Ended, daemonVars, boundVars
<1>6. CASE TakeError(h) \/ TimesOut(h) \/ LosesDaemon(h)
  BY <1>6 DEF TakeError, TimesOut, LosesDaemon, Respond, TypeOK, Ended, Verbs, daemonVars, boundVars
<1>7. CASE Prompt(h)
  <2>1. conn[h].id \in Nat
    BY DEF TypeOK
  <2> QED
    BY <1>7, <2>1 DEF Prompt, TypeOK, Ended, daemonVars, boundVars
<1>8. CASE Resolve(h)
  <2>1. conn' \in [Hooks -> Conn]
    <3>1. conn \in [Hooks -> Conn] /\ ticket[h] \in Nat
      BY DEF TypeOK, Conn
    <3>2. Resolving(ticket[h]) \in Conn
      BY <1>2, <3>1
    <3> QED
      BY <1>8, <3>1, <3>2 DEF Resolve
  <2>2. Behavior(answer[h]) \in Verbs
    BY <1>3
  <2>3. /\ hook' \in [Hooks -> {"start", "creating", "prompt", "answered", "resolving"} \cup Ended]
        /\ out' \in [Hooks -> Verbs \cup {None}]
    <3>1. /\ hook \in [Hooks -> {"start", "creating", "prompt", "answered", "resolving"} \cup Ended]
          /\ out \in [Hooks -> Verbs \cup {None}]
          /\ {"resolving", "done"} \subseteq
               {"start", "creating", "prompt", "answered", "resolving"} \cup Ended
      BY DEF TypeOK, Ended
    <3>2. \/ hook' = [hook EXCEPT ![h] = "resolving"] /\ out' = out
          \/ /\ hook' = [hook EXCEPT ![h] = "done"]
             /\ out' = [out EXCEPT ![h] = Behavior(answer[h])]
      BY <1>8 DEF Resolve, Respond
    <3> QED
      BY <2>2, <3>1, <3>2
  <2> QED
    BY SMTT(20), <1>8, <2>1, <2>3 DEF Resolve, TypeOK, Conn, boundVars
<1>9. CASE ResolveReturns(h)
  BY <1>3, <1>9 DEF ResolveReturns, Respond, TypeOK, Ended, daemonVars, boundVars
<1>10. CASE HumanAnswers(h)
  BY <1>10 DEF HumanAnswers, TypeOK, daemonVars, boundVars
<1>11. CASE Killed(h)
  BY <1>11 DEF Killed, TypeOK, Ended, daemonVars, boundVars
<1> QED
  BY <1>4, <1>5, <1>6, <1>7, <1>8, <1>9, <1>10, <1>11 DEF HookStep

(* The steps of the world around them.                                       *)
LEMMA TypeWorld ==
    ASSUME TypeOK, SwapRules \/ Crash \/ Restart
    PROVE  TypeOK'
<1>1. CASE SwapRules
  BY <1>1, TypeOffer DEF SwapRules, TypeOK, hookVars, boundVars
<1>2. CASE Crash
  <2>1. Closed \in Conn
    BY DEF Closed, Conn
  <2>2. conn' \in [Hooks -> Conn]
    BY <1>2, <2>1 DEF Crash
  <2>3. up' \in BOOLEAN
    BY <1>2 DEF Crash
  <2>4. crashes' \in Nat
    BY <1>2 DEF Crash, TypeOK
  <2> QED
    BY <1>2, <2>2, <2>3, <2>4 DEF Crash, TypeOK, Conn, hookVars
<1>3. CASE Restart
  BY <1>3, TypeOffer DEF Restart, TypeOK, hookVars, boundVars
<1> QED
  BY <1>1, <1>2, <1>3

-----------------------------------------------------------------------------
(* A request none of whose parties moved, and whose rows kept their          *)
(* decisions.                                                                *)
LEMMA KeepHook ==
    ASSUME NEW g \in Hooks, ConnInv(g), HookInv(g),
           conn'[g] = conn[g], hook'[g] = hook[g], ticket'[g] = ticket[g],
           answer'[g] = answer[g], out'[g] = out[g], offered'[g] = offered[g],
           rules' = rules,
           RowsOf(g)' = RowsOf(g),
           \A i \in RowsOf(g) : decisions'[i].decision = decisions[i].decision
    PROVE  ConnInv(g)' /\ HookInv(g)'
<1>1. Verdict(g)' = Verdict(g)
  BY DEF Verdict
<1>2. \A id, verbs : IsRowOf(id, g, verbs) => IsRowOf(id, g, verbs)'
  BY DEF IsRowOf
<1>3. ConnInv(g)'
  BY <1>2 DEF ConnInv
<1>4. HookInv(g)'
  BY <1>1, <1>2 DEF HookInv
<1> QED
  BY <1>3, <1>4

LEMMA RowType == TypeOK => \A i \in DOMAIN decisions : decisions[i] \in Row
<1>1. decisions \in Seq(Row) => \A i \in DOMAIN decisions : decisions[i] \in Row
  OBVIOUS
<1> QED
  BY <1>1 DEF TypeOK

(* A table nobody wrote to, while no answer was given and no request went    *)
(* back before its answer.                                                   *)
LEMMA KeepTable ==
    ASSUME TypeOK, TableInv, decisions' = decisions, answer' = answer,
           \A g \in Hooks : hook'[g] \in {"start", "creating", "prompt", "answered"}
                              => hook[g] \in {"start", "creating", "prompt", "answered"}
    PROVE  TableInv'
<1>1. \A i \in DOMAIN decisions : decisions[i].hook \in Hooks
  BY RowType DEF Row
<1> QED
  BY <1>1 DEF TableInv, OneRowPerRequest, AnswersStayHome

LEMMA KeepRows ==
    ASSUME decisions' = decisions
    PROVE  \A g : /\ RowsOf(g)' = RowsOf(g)
                  /\ \A id, verbs : IsRowOf(id, g, verbs)' = IsRowOf(id, g, verbs)
BY DEF RowsOf, IsRowOf

-----------------------------------------------------------------------------
(* What the daemon's steps keep.                                             *)
LEMMA EvaluateStep ==
    ASSUME Inv, NEW h \in Hooks, Evaluate(h)
    PROVE  (\A g \in Hooks : ConnInv(g) /\ HookInv(g))' /\ TableInv'
<1> DEFINE c == conn[h]
<1>1. /\ conn' = [conn EXCEPT ![h] = Evaluated(c, Verdict(h))]
      /\ UNCHANGED <<up, rules, decisions, hook, ticket, answer, out, offered>>
      /\ c.st = "create" /\ c \in Conn /\ conn \in [Hooks -> Conn]
  BY DEF Evaluate, Inv, TypeOK, Conn, hookVars
<1>2. conn'[h].st = "insert" /\ conn'[h].decision = Verdict(h)
  BY <1>1 DEF Evaluated, Conn
<1>3. ConnInv(h)' /\ HookInv(h)'
  <2>1. RowsOf(h)' = {} /\ ConnInv(h) /\ HookInv(h)
    BY <1>1, KeepRows DEF Inv, ConnInv
  <2>2. ConnInv(h)'
    BY <1>2, <2>1, VerdictVerb DEF ConnInv
  <2>3. HookInv(h)'
    BY <1>1, <1>2, <2>1, KeepRows DEF HookInv, Verdict
  <2> QED
    BY <2>2, <2>3
<1>4. ASSUME NEW g \in Hooks, g # h PROVE ConnInv(g)' /\ HookInv(g)'
  BY <1>1, <1>4, KeepHook, KeepRows DEF Inv
<1>5. TableInv'
  BY <1>1, KeepTable DEF Inv
<1> QED
  BY <1>3, <1>4, <1>5

LEMMA FailStep ==
    ASSUME Inv, NEW h \in Hooks, InsertFails(h) \/ UpdateFails(h)
    PROVE  (\A g \in Hooks : ConnInv(g) /\ HookInv(g))' /\ TableInv'
<1> DEFINE c == conn[h]
<1>1. /\ conn' = [conn EXCEPT ![h] = Failed(c)]
      /\ UNCHANGED <<up, rules, decisions, hook, ticket, answer, out, offered>>
      /\ c.st \in {"insert", "resolve"} /\ c \in Conn /\ conn \in [Hooks -> Conn]
  BY DEF InsertFails, UpdateFails, Inv, TypeOK, Conn, hookVars
<1>2. conn'[h].st = "replied" /\ conn'[h].ok = FALSE
  BY <1>1 DEF Failed, Conn
<1>3. ConnInv(h)' /\ HookInv(h)'
  <2>1. ConnInv(h) /\ HookInv(h)
    BY DEF Inv
  <2>2. ConnInv(h)'
    BY <1>2 DEF ConnInv
  <2>3. HookInv(h)'
    BY <1>1, <1>2, <2>1, KeepRows DEF HookInv, Verdict
  <2> QED
    BY <2>2, <2>3
<1>4. ASSUME NEW g \in Hooks, g # h PROVE ConnInv(g)' /\ HookInv(g)'
  BY <1>1, <1>4, KeepHook, KeepRows DEF Inv
<1>5. TableInv'
  BY <1>1, KeepTable DEF Inv
<1> QED
  BY <1>3, <1>4, <1>5

LEMMA InsertStep ==
    ASSUME Inv, NEW h \in Hooks, Insert(h)
    PROVE  (\A g \in Hooks : ConnInv(g) /\ HookInv(g))' /\ TableInv'
<1> DEFINE c == conn[h]
           n == Len(decisions) + 1
<1>1. /\ conn' = [conn EXCEPT ![h] = Done(c, n)]
      /\ decisions' = Append(decisions, NewRow(h))
      /\ UNCHANGED <<up, rules, hook, ticket, answer, out, offered>>
      /\ c.st = "insert" /\ c \in Conn /\ conn \in [Hooks -> Conn]
      /\ decisions \in Seq(Row)
  BY DEF Insert, Inv, TypeOK, Conn, hookVars
<1>2. conn'[h].st = "replied" /\ conn'[h].ok /\ conn'[h].id = n
      /\ conn'[h].decision = c.decision
  BY <1>1 DEF Done, Conn
<1>3. ConnInv(h) /\ HookInv(h) /\ RowsOf(h) = {} /\ c.decision \in Verbs
  BY <1>1 DEF Inv, ConnInv
<1>4. NewRow(h) \in Row /\ NewRow(h).hook = h /\ NewRow(h).decision = c.decision
      /\ NewRow(h).surface # "tui"
  BY <1>1, <1>3, NewRowType, NoneApart DEF NewRow
<1>5. /\ DOMAIN decisions' = DOMAIN decisions \cup {n}
      /\ n \notin DOMAIN decisions
      /\ decisions'[n] = NewRow(h)
      /\ \A i \in DOMAIN decisions : decisions'[i] = decisions[i]
  BY <1>1, <1>4
<1>6. RowsOf(h)' = {n}
  BY <1>3, <1>4, <1>5 DEF RowsOf
<1>7. ConnInv(h)' /\ HookInv(h)'
  <2>1. hook[h] \in {"creating"} \cup Ended
    BY <1>1, <1>3 DEF HookInv, IsRowOf, Inv, TypeOK
  <2>2. answer[h] = None /\ out[h] \notin {"allow", "deny"}
    BY <1>3 DEF HookInv, IsRowOf
  <2>3. ConnInv(h)'
    BY <1>2, <1>3, <1>4, <1>5, <1>6 DEF ConnInv, IsRowOf
  <2>4. Verdict(h)' = Verdict(h)
    BY <1>1 DEF Verdict
  <2>5. HookInv(h)'
    BY <1>1, <1>2, <1>3, <2>1, <2>2, <2>4 DEF HookInv, Ended
  <2> QED
    BY <2>3, <2>5
<1>8. ASSUME NEW g \in Hooks, g # h PROVE ConnInv(g)' /\ HookInv(g)'
  <2>1. RowsOf(g)' = RowsOf(g)
    BY <1>4, <1>5, <1>8 DEF RowsOf
  <2>2. \A i \in RowsOf(g) : decisions'[i].decision = decisions[i].decision
    BY <1>5 DEF RowsOf
  <2> QED
    BY <1>1, <1>8, <2>1, <2>2, KeepHook DEF Inv
<1>9. TableInv'
  <2>1. TableInv
    BY DEF Inv
  <2>2. \A i \in DOMAIN decisions : decisions[i].hook # h
    BY <1>3 DEF RowsOf
  <2>3. OneRowPerRequest'
    BY <1>4, <1>5, <2>1, <2>2 DEF TableInv, OneRowPerRequest
  <2>4. AnswersStayHome'
    BY <1>1, <1>4, <1>5, <2>1 DEF TableInv, AnswersStayHome
  <2>5. (\A i \in DOMAIN decisions :
           hook[decisions[i].hook] \in {"start", "creating", "prompt", "answered"}
              => decisions[i].surface # "tui")'
    BY <1>1, <1>4, <1>5, <2>1 DEF TableInv
  <2> QED
    BY <2>3, <2>4, <2>5 DEF TableInv
<1> QED
  BY <1>7, <1>8, <1>9

(* A resolve writes the answer of the request whose row it names.            *)
LEMMA UpdateStep ==
    ASSUME Inv, NEW h \in Hooks, Update(h)
    PROVE  (\A g \in Hooks : ConnInv(g) /\ HookInv(g))' /\ TableInv'
<1> DEFINE c == conn[h]
           id == conn[h].id
<1>1. /\ UNCHANGED <<up, rules, hook, ticket, answer, out, offered>>
      /\ c.st = "resolve" /\ c \in Conn /\ conn \in [Hooks -> Conn]
      /\ decisions \in Seq(Row)
  BY DEF Update, Inv, TypeOK, Conn, hookVars
<1>2. /\ ConnInv(h) /\ HookInv(h)
      /\ id \in DOMAIN decisions /\ decisions[id].hook = h /\ decisions[id].decision = "ask"
      /\ hook[h] \in {"resolving"} \cup Ended
  BY <1>1 DEF Inv, ConnInv, IsRowOf, RowsOf
<1>3. /\ decisions' = [decisions EXCEPT ![id].answer = answer[h], ![id].surface = "tui"]
      /\ conn' = [conn EXCEPT ![h] = Done(c, id)]
  BY <1>2 DEF Update
<1>4. conn'[h].st = "replied"
  BY <1>1, <1>3 DEF Done, Conn
<1>5. /\ DOMAIN decisions' = DOMAIN decisions
      /\ \A i \in DOMAIN decisions : /\ decisions'[i].hook = decisions[i].hook
                                     /\ decisions'[i].decision = decisions[i].decision
                                     /\ i # id => decisions'[i] = decisions[i]
      /\ decisions'[id].answer = answer[h]
  <2>1. \A i \in DOMAIN decisions : decisions[i] \in Row
    BY <1>1
  <2> QED
    BY <1>2, <1>3, <2>1 DEF Row
<1>6. \A g : RowsOf(g)' = RowsOf(g)
  BY <1>5 DEF RowsOf
<1>7. \A g, i, verbs : IsRowOf(i, g, verbs)' = IsRowOf(i, g, verbs)
  BY <1>5, <1>6 DEF IsRowOf, RowsOf
<1>8. ConnInv(h)' /\ HookInv(h)'
  <2>1. ConnInv(h)'
    BY <1>1, <1>2, <1>4 DEF ConnInv, Ended
  <2>2. Verdict(h)' = Verdict(h)
    BY <1>1 DEF Verdict
  <2>3. \A i \in RowsOf(h) : decisions'[i].decision = decisions[i].decision
    BY <1>5 DEF RowsOf
  <2>4. HookInv(h)'
    BY <1>1, <1>2, <1>6, <1>7, <2>2, <2>3 DEF HookInv, Ended
  <2> QED
    BY <2>1, <2>4
<1>9. ASSUME NEW g \in Hooks, g # h PROVE ConnInv(g)' /\ HookInv(g)'
  <2>1. \A i \in RowsOf(g) : decisions'[i].decision = decisions[i].decision
    BY <1>5 DEF RowsOf
  <2> QED
    BY <1>1, <1>3, <1>6, <1>9, <2>1, KeepHook DEF Inv
<1>10. TableInv'
  <2>1. TableInv
    BY DEF Inv
  <2>2. OneRowPerRequest'
    BY <1>5, <2>1 DEF TableInv, OneRowPerRequest
  <2>3. AnswersStayHome'
    BY <1>1, <1>2, <1>5, <2>1 DEF TableInv, AnswersStayHome
  <2>4. (\A i \in DOMAIN decisions :
           hook[decisions[i].hook] \in {"start", "creating", "prompt", "answered"}
              => decisions[i].surface # "tui")'
    BY <1>1, <1>2, <1>5, <2>1 DEF TableInv, Ended
  <2> QED
    BY <2>2, <2>3, <2>4 DEF TableInv
<1> QED
  BY <1>8, <1>9, <1>10

-----------------------------------------------------------------------------
(* What the hook's steps keep.                                               *)
LEMMA BehaviorMeans ==
    ASSUME NEW a
    PROVE  /\ Behavior(a) = "allow" => a \in {"allow", "always_allow"}
           /\ Behavior(a) \in {"allow", "deny"} => a # None
BY NoneAssumption DEF Behavior, Answers

LEMMA AskStep ==
    ASSUME Inv, NEW h \in Hooks, Ask(h)
    PROVE  (\A g \in Hooks : ConnInv(g) /\ HookInv(g))' /\ TableInv'
<1>1. /\ UNCHANGED <<up, rules, decisions, ticket, answer>>
      /\ hook[h] = "start" /\ conn \in [Hooks -> Conn]
      /\ ConnInv(h) /\ HookInv(h) /\ RowsOf(h) = {} /\ RowsOf(h)' = {}
      /\ Verdict(h)' = Verdict(h) /\ conn[h].st = "closed"
  BY KeepRows DEF Ask, Respond, Inv, TypeOK, Conn, HookInv, Verdict, boundVars
<1>2. \A g \in Hooks \ {h} : /\ conn'[g] = conn[g] /\ hook'[g] = hook[g]
                             /\ out'[g] = out[g] /\ offered'[g] = offered[g]
  BY DEF Ask, Respond, Inv, TypeOK
<1>3. ConnInv(h)' /\ HookInv(h)'
  <2>1. CASE up
    <3>1. /\ conn'[h] = Creating /\ hook'[h] = "creating" /\ out'[h] = out[h]
          /\ offered'[h] = {Verdict(h)}
      BY <2>1 DEF Ask, Inv, TypeOK
    <3>2. Creating.st = "create"
      BY DEF Creating, Closed
    <3> QED
      BY <1>1, <3>1, <3>2 DEF ConnInv, HookInv
  <2>2. CASE ~up
    <3>1. conn'[h] = conn[h] /\ hook'[h] = "done" /\ out'[h] = "ask" /\ offered'[h] = offered[h]
      BY <2>2 DEF Ask, Respond, Inv, TypeOK
    <3> QED
      BY <1>1, <3>1 DEF ConnInv, HookInv
  <2> QED
    BY <2>1, <2>2
<1>4. ASSUME NEW g \in Hooks, g # h PROVE ConnInv(g)' /\ HookInv(g)'
  BY <1>1, <1>2, <1>4, KeepHook, KeepRows DEF Inv
<1>5. TableInv'
  BY <1>1, <1>2, KeepTable DEF Inv
<1> QED
  BY <1>3, <1>4, <1>5

(* A request that ends on the daemon's word, or for want of it.              *)
LEMMA EndStep ==
    ASSUME Inv, NEW h \in Hooks,
           TakeVerdict(h) \/ TakeError(h) \/ TimesOut(h) \/ LosesDaemon(h)
    PROVE  (\A g \in Hooks : ConnInv(g) /\ HookInv(g))' /\ TableInv'
<1>1. /\ UNCHANGED <<up, rules, decisions, conn, ticket, answer, offered>>
      /\ hook[h] = "creating" /\ ConnInv(h) /\ HookInv(h)
      /\ hook' = [hook EXCEPT ![h] = "done"]
      /\ hook \in [Hooks -> {"start", "creating", "prompt", "answered", "resolving"} \cup Ended]
      /\ out \in [Hooks -> Verbs \cup {None}]
  BY DEF TakeVerdict, TakeError, TimesOut, LosesDaemon, Respond, Inv, TypeOK, daemonVars
<1>2. \/ out' = [out EXCEPT ![h] = "ask"]
      \/ /\ out' = [out EXCEPT ![h] = conn[h].decision]
         /\ conn[h].st = "replied" /\ conn[h].ok
  BY DEF TakeVerdict, TakeError, TimesOut, LosesDaemon, Respond
<1>3. \A g \in Hooks \ {h} : hook'[g] = hook[g] /\ out'[g] = out[g]
  BY <1>1, <1>2
<1>4. hook'[h] = "done" /\ answer[h] = None /\ Verdict(h)' = Verdict(h)
  BY <1>1 DEF HookInv, Verdict
<1>5. ConnInv(h)'
  BY <1>1, <1>4, KeepRows DEF ConnInv, Ended
<1>6. HookInv(h)'
  <2>1. CASE out'[h] = "ask"
    BY <1>1, <1>4, <2>1, KeepRows DEF HookInv
  <2>2. CASE out'[h] = conn[h].decision /\ conn[h].st = "replied" /\ conn[h].ok
    <3>1. IsRowOf(conn[h].id, h, {conn[h].decision})' /\ conn[h].decision \in offered[h]
      BY <1>1, <2>2, KeepRows DEF ConnInv, HookInv
    <3> QED
      BY <1>1, <1>4, <2>2, <3>1, KeepRows DEF HookInv, IsRowOf
  <2> QED
    BY <1>1, <1>2, <2>1, <2>2
<1>7. ASSUME NEW g \in Hooks, g # h PROVE ConnInv(g)' /\ HookInv(g)'
  BY <1>1, <1>3, <1>7, KeepHook, KeepRows DEF Inv
<1>8. TableInv'
  BY <1>1, <1>3, <1>4, KeepTable DEF Inv
<1> QED
  BY <1>5, <1>6, <1>7, <1>8

LEMMA PromptStep ==
    ASSUME Inv, NEW h \in Hooks, Prompt(h)
    PROVE  (\A g \in Hooks : ConnInv(g) /\ HookInv(g))' /\ TableInv'
<1>1. /\ UNCHANGED <<up, rules, decisions, conn, answer, out, offered>>
      /\ hook[h] = "creating" /\ ConnInv(h) /\ HookInv(h)
      /\ ticket' = [ticket EXCEPT ![h] = conn[h].id] /\ ticket \in [Hooks -> Nat]
      /\ hook \in [Hooks -> {"start", "creating", "prompt", "answered", "resolving"} \cup Ended]
      /\ hook' = [hook EXCEPT ![h] = IF CallOf[h] \in Wide THEN "panicked" ELSE "prompt"]
      /\ conn[h].st = "replied" /\ conn[h].ok /\ conn[h].decision = "ask"
  BY DEF Prompt, Inv, TypeOK, daemonVars
<1>2. \A g \in Hooks \ {h} : hook'[g] = hook[g] /\ ticket'[g] = ticket[g]
  BY <1>1
<1>3. hook'[h] \in {"prompt", "panicked"} /\ ticket'[h] = conn[h].id
  BY <1>1
<1>4. /\ answer[h] = None /\ out[h] = None /\ Verdict(h)' = Verdict(h)
      /\ IsRowOf(conn[h].id, h, {"ask"})
  BY <1>1 DEF HookInv, ConnInv, Verdict
<1>5. ConnInv(h)'
  BY <1>1, <1>3 DEF ConnInv
<1>6. HookInv(h)'
  BY <1>1, <1>3, <1>4, KeepRows, NoneApart DEF HookInv, Verbs
<1>7. ASSUME NEW g \in Hooks, g # h PROVE ConnInv(g)' /\ HookInv(g)'
  BY <1>1, <1>2, <1>7, KeepHook, KeepRows DEF Inv
<1>8. TableInv'
  BY <1>1, <1>2, <1>3, KeepTable DEF Inv
<1> QED
  BY <1>5, <1>6, <1>7, <1>8

LEMMA HumanStep ==
    ASSUME Inv, NEW h \in Hooks, HumanAnswers(h)
    PROVE  (\A g \in Hooks : ConnInv(g) /\ HookInv(g))' /\ TableInv'
<1>1. /\ UNCHANGED <<up, rules, decisions, conn, ticket, out, offered>>
      /\ hook[h] = "prompt" /\ ConnInv(h) /\ HookInv(h)
      /\ hook' = [hook EXCEPT ![h] = "answered"]
      /\ hook \in [Hooks -> {"start", "creating", "prompt", "answered", "resolving"} \cup Ended]
      /\ answer \in [Hooks -> Answers \cup {None}]
  BY DEF HumanAnswers, Inv, TypeOK, daemonVars
<1>2. PICK a \in Answers \cup {None} : answer' = [answer EXCEPT ![h] = a]
  BY DEF HumanAnswers
<1>3. \A g \in Hooks \ {h} : hook'[g] = hook[g] /\ answer'[g] = answer[g]
  BY <1>1, <1>2
<1>4. /\ hook'[h] = "answered" /\ out[h] = None /\ Verdict(h)' = Verdict(h)
      /\ IsRowOf(ticket[h], h, {"ask"})
  BY <1>1 DEF HookInv, Verdict
<1>5. ConnInv(h)'
  BY <1>1, <1>4, KeepRows DEF ConnInv, Ended
<1>6. HookInv(h)'
  BY <1>1, <1>4, KeepRows, NoneApart DEF HookInv, Verbs
<1>7. ASSUME NEW g \in Hooks, g # h PROVE ConnInv(g)' /\ HookInv(g)'
  BY <1>1, <1>3, <1>7, KeepHook, KeepRows DEF Inv
<1>8. TableInv'
  <2>1. TableInv /\ \A i \in DOMAIN decisions : decisions[i].hook \in Hooks
    BY RowType DEF Inv, Row
  <2>2. \A i \in DOMAIN decisions : decisions[i].hook = h => decisions[i].surface # "tui"
    BY <1>1, <2>1 DEF TableInv
  <2>3. AnswersStayHome'
    BY <1>1, <1>3, <2>1, <2>2 DEF TableInv, AnswersStayHome
  <2> QED
    BY <1>1, <1>3, <2>1, <2>2, <2>3 DEF TableInv, OneRowPerRequest
<1> QED
  BY <1>5, <1>6, <1>7, <1>8

LEMMA ResolveStep ==
    ASSUME Inv, NEW h \in Hooks, Resolve(h) \/ ResolveReturns(h)
    PROVE  (\A g \in Hooks : ConnInv(g) /\ HookInv(g))' /\ TableInv'
<1>1. /\ UNCHANGED <<up, rules, decisions, ticket, answer, offered>>
      /\ hook[h] \in {"answered", "resolving"} /\ ConnInv(h) /\ HookInv(h)
      /\ hook \in [Hooks -> {"start", "creating", "prompt", "answered", "resolving"} \cup Ended]
      /\ out \in [Hooks -> Verbs \cup {None}] /\ conn \in [Hooks -> Conn]
  BY DEF Resolve, ResolveReturns, Inv, TypeOK, daemonVars, boundVars, Conn
<1>2. \/ /\ conn' = [conn EXCEPT ![h] = Resolving(ticket[h])] /\ out' = out
         /\ hook' = [hook EXCEPT ![h] = "resolving"]
      \/ /\ conn' = conn /\ out' = [out EXCEPT ![h] = Behavior(answer[h])]
         /\ hook' = [hook EXCEPT ![h] = "done"]
  BY DEF Resolve, ResolveReturns, Respond, daemonVars
<1>3. \A g \in Hooks \ {h} : hook'[g] = hook[g] /\ out'[g] = out[g] /\ conn'[g] = conn[g]
  BY <1>1, <1>2
<1>4. IsRowOf(ticket[h], h, {"ask"})' /\ Verdict(h)' = Verdict(h) /\ out[h] = None
  BY <1>1, KeepRows DEF HookInv, Verdict
<1>5. ASSUME conn'[h] = Resolving(ticket[h]), hook'[h] = "resolving", out'[h] = out[h]
      PROVE  ConnInv(h)' /\ HookInv(h)'
  <2>1. Resolving(ticket[h]).st = "resolve" /\ Resolving(ticket[h]).id = ticket[h]
    BY DEF Resolving, Closed
  <2>2. ConnInv(h)'
    BY <1>1, <1>4, <1>5, <2>1 DEF ConnInv
  <2>3. HookInv(h)'
    BY <1>1, <1>4, <1>5, NoneApart DEF HookInv, Verbs
  <2> QED
    BY <2>2, <2>3
<1>6. ASSUME conn' = conn, hook'[h] = "done", out'[h] = Behavior(answer[h])
      PROVE  ConnInv(h)' /\ HookInv(h)'
  <2>1. ConnInv(h)'
    BY <1>1, <1>6, KeepRows DEF ConnInv, Ended
  <2>2. HookInv(h)'
    BY <1>1, <1>4, <1>6, BehaviorMeans DEF HookInv, IsRowOf
  <2> QED
    BY <2>1, <2>2
<1>7. ASSUME NEW g \in Hooks, g # h PROVE ConnInv(g)' /\ HookInv(g)'
  BY <1>1, <1>3, <1>7, KeepHook, KeepRows DEF Inv
<1>8. TableInv'
  <2>1. hook'[h] \in {"resolving", "done"}
    BY <1>1, <1>2
  <2> QED
    BY <1>1, <1>3, <2>1, KeepTable DEF Inv
<1> QED
  BY <1>1, <1>2, <1>5, <1>6, <1>7, <1>8

LEMMA KilledStep ==
    ASSUME Inv, NEW h \in Hooks, Killed(h)
    PROVE  (\A g \in Hooks : ConnInv(g) /\ HookInv(g))' /\ TableInv'
<1>1. /\ UNCHANGED <<up, rules, decisions, conn, ticket, answer, out, offered>>
      /\ hook[h] \in {"prompt", "answered", "resolving"} /\ ConnInv(h) /\ HookInv(h)
      /\ hook' = [hook EXCEPT ![h] = "killed"]
      /\ hook \in [Hooks -> {"start", "creating", "prompt", "answered", "resolving"} \cup Ended]
  BY DEF Killed, Inv, TypeOK, daemonVars
<1>2. hook'[h] = "killed" /\ \A g \in Hooks \ {h} : hook'[g] = hook[g]
  BY <1>1
<1>3. ConnInv(h)'
  BY <1>1, <1>2, KeepRows DEF ConnInv, Ended
<1>4. HookInv(h)'
  BY <1>1, <1>2, KeepRows, NoneApart DEF HookInv, Verbs
<1>5. ASSUME NEW g \in Hooks, g # h PROVE ConnInv(g)' /\ HookInv(g)'
  BY <1>1, <1>2, <1>5, KeepHook, KeepRows DEF Inv
<1>6. TableInv'
  BY <1>1, <1>2, KeepTable DEF Inv
<1> QED
  BY <1>3, <1>4, <1>5, <1>6

-----------------------------------------------------------------------------
(* What the world around them keeps.                                         *)
LEMMA SwapStep ==
    ASSUME Inv, SwapRules \/ Restart
    PROVE  (\A g \in Hooks : ConnInv(g) /\ HookInv(g))' /\ TableInv'
<1>1. /\ UNCHANGED <<conn, decisions, hook, ticket, answer, out>>
      /\ Offer(rules')
  BY DEF SwapRules, Restart, hookVars
<1>2. ASSUME NEW g \in Hooks PROVE ConnInv(g)' /\ HookInv(g)'
  <2>1. ConnInv(g) /\ HookInv(g)
    BY DEF Inv
  <2>2. /\ offered[g] \subseteq offered'[g]
        /\ hook[g] = "creating" => Verdict(g)' \in offered'[g]
    BY <1>1 DEF Offer, Verdict
  <2>3. ConnInv(g)'
    BY <1>1, <2>1, KeepRows DEF ConnInv
  <2>4. HookInv(g)'
    BY <1>1, <2>1, <2>2, KeepRows DEF HookInv
  <2> QED
    BY <2>3, <2>4
<1>3. TableInv'
  BY <1>1, KeepTable DEF Inv
<1> QED
  BY <1>2, <1>3

LEMMA CrashStep ==
    ASSUME Inv, Crash
    PROVE  (\A g \in Hooks : ConnInv(g) /\ HookInv(g))' /\ TableInv'
<1>1. /\ UNCHANGED <<rules, decisions, hook, ticket, answer, out, offered>>
      /\ conn' = [h \in Hooks |-> Closed] /\ Closed.st = "closed"
  BY DEF Crash, hookVars, Closed
<1>2. ASSUME NEW g \in Hooks PROVE ConnInv(g)' /\ HookInv(g)'
  <2>1. ConnInv(g) /\ HookInv(g) /\ conn'[g].st = "closed" /\ Verdict(g)' = Verdict(g)
    BY <1>1 DEF Inv, Verdict
  <2>2. ConnInv(g)'
    BY <2>1 DEF ConnInv
  <2>3. HookInv(g)'
    BY <1>1, <2>1, KeepRows DEF HookInv
  <2> QED
    BY <2>2, <2>3
<1>3. TableInv'
  BY <1>1, KeepTable DEF Inv
<1> QED
  BY <1>2, <1>3

-----------------------------------------------------------------------------
LEMMA InitInv == Init => Inv
<1> SUFFICES ASSUME Init PROVE Inv
  OBVIOUS
<1>1. decisions = <<>> /\ DOMAIN decisions = {} /\ \A h : RowsOf(h) = {}
  BY DEF Init, RowsOf
<1>2. \A h \in Hooks : /\ conn[h].st = "closed" /\ hook[h] = "start"
                      /\ answer[h] = None /\ out[h] = None
  BY DEF Init, Closed
<1>3. \A h \in Hooks : ConnInv(h) /\ HookInv(h)
  BY <1>1, <1>2, NoneApart DEF ConnInv, HookInv, Verbs
<1>4. TableInv
  BY <1>1 DEF TableInv, OneRowPerRequest, AnswersStayHome
<1> QED
  BY <1>3, <1>4, TypeInit DEF Inv

LEMMA StepInv == Inv /\ [Next]_vars => Inv'
<1> SUFFICES ASSUME Inv, [Next]_vars PROVE Inv'
  OBVIOUS
<1> USE DEF Inv
<1>1. ASSUME NEW h \in Hooks, DaemonStep(h) PROVE Inv'
  BY <1>1, TypeDaemon, EvaluateStep, InsertStep, FailStep, UpdateStep DEF DaemonStep
<1>2. ASSUME NEW h \in Hooks, Ask(h) \/ HookStep(h) \/ HumanAnswers(h) \/ Killed(h) PROVE Inv'
  BY <1>2, TypeHook, AskStep, EndStep, PromptStep, HumanStep, ResolveStep, KilledStep DEF HookStep
<1>3. CASE SwapRules \/ Crash \/ Restart
  BY <1>3, TypeWorld, SwapStep, CrashStep
<1>4. CASE UNCHANGED vars
  <2>1. UNCHANGED <<up, rules, conn, decisions, hook, ticket, answer, out, offered>>
    BY <1>4 DEF vars, daemonVars, hookVars
  <2>2. \A g \in Hooks : ConnInv(g)' /\ HookInv(g)'
    BY <2>1, KeepHook, KeepRows
  <2>3. TableInv'
    BY <2>1, KeepTable
  <2>4. TypeOK'
    BY <1>4 DEF TypeOK, vars, daemonVars, hookVars, boundVars
  <2> QED
    BY <2>2, <2>3, <2>4
<1> QED
  BY <1>1, <1>2, <1>3, <1>4 DEF Next

LEMMA AlwaysInv == Spec => []Inv
BY InitInv, StepInv, PTL DEF Spec

-----------------------------------------------------------------------------
(* Every variable keeps its type, whatever the requests, the rules, the      *)
(* crashes and the failed writes.                                            *)
THEOREM TypeCorrect == Spec => []TypeOK
<1>1. Inv => TypeOK
  BY DEF Inv
<1> QED
  BY <1>1, AlwaysInv, PTL

(* Nothing is allowed or denied without its row (handle_decisions_create).   *)
THEOREM VerdictsAudited == Spec => []EveryVerdictAudited
<1>1. Inv => EveryVerdictAudited
  BY DEF Inv, HookInv, EveryVerdictAudited
<1> QED
  BY <1>1, AlwaysInv, PTL

(* An allow is the rules' or the human's (handle_permission_request).        *)
THEOREM AllowsSpoken == Spec => []NoSilentAllow
<1>1. Inv => NoSilentAllow
  BY DEF Inv, HookInv, NoSilentAllow
<1> QED
  BY <1>1, AlwaysInv, PTL

(* An answer is only ever written on the row of the request it answers       *)
(* (handle_decisions_resolve).                                               *)
THEOREM AnswersBelong == Spec => []AnswersStayHome
<1>1. Inv => AnswersStayHome
  BY DEF Inv, TableInv
<1> QED
  BY <1>1, AlwaysInv, PTL

(* No request has two rows, whichever of hook and daemon gave up first.      *)
THEOREM RowsUnique == Spec => []OneRowPerRequest
<1>1. Inv => OneRowPerRequest
  BY DEF Inv, TableInv
<1> QED
  BY <1>1, AlwaysInv, PTL

-----------------------------------------------------------------------------
(* The wrapper around the requests.                                         *)

(* A prompt is of a hook that has ended.                                     *)
PromptInv == \A h \in Hooks : prompt[h] # "none" => hook[h] \in Ended

PtyInv ==
    /\ Inv
    /\ PtyTypeOK
    /\ PromptInv
    /\ DenyEnforcedInTime

ptyAll == <<vars, ptyVars>>

(* What an ended hook said, and the human's answer to it, stay.              *)
LEMMA EndedStays ==
    ASSUME TypeOK, [Next]_vars, NEW h \in Hooks, hook[h] \in Ended
    PROVE  hook'[h] = hook[h] /\ out'[h] = out[h] /\ answer'[h] = answer[h]
<1> USE DEF TypeOK, Ended
<1>1. ASSUME NEW g \in Hooks, DaemonStep(g) PROVE UNCHANGED hookVars
  BY <1>1 DEF DaemonStep, Evaluate, Insert, InsertFails, Update, UpdateFails
<1>2. ASSUME NEW g \in Hooks, Ask(g) \/ HookStep(g) \/ HumanAnswers(g) \/ Killed(g)
      PROVE  hook'[h] = hook[h] /\ out'[h] = out[h] /\ answer'[h] = answer[h]
  <2>1. g # h
    BY <1>2 DEF Ask, HookStep, TakeVerdict, TakeError, Prompt, TimesOut, LosesDaemon,
                Resolve, ResolveReturns, HumanAnswers, Killed
  <2>2. CASE Ask(g) \/ HumanAnswers(g) \/ Killed(g)
    BY <2>1, <2>2 DEF Ask, Respond, HumanAnswers, Killed
  <2>3. CASE HookStep(g)
    BY <2>1, <2>3 DEF HookStep, TakeVerdict, TakeError, Prompt, TimesOut, LosesDaemon,
                      Resolve, ResolveReturns, Respond
  <2> QED
    BY <1>2, <2>2, <2>3
<1>3. CASE SwapRules \/ Crash \/ Restart \/ UNCHANGED vars
  BY <1>3 DEF SwapRules, Crash, Restart, vars, hookVars
<1> QED
  BY <1>1, <1>2, <1>3 DEF Next, hookVars

(* A deny that was told to Claude Code without a human has its row, so its   *)
(* request will not be evaluated again.                                      *)
LEMMA DenyHasRow ==
    ASSUME Inv, NEW h \in Hooks, out[h] = "deny", answer[h] = None
    PROVE  /\ conn[h].st # "create"
           /\ \E i \in RowsOf(h) : decisions[i].decision = "deny"
BY DEF Inv, HookInv, ConnInv

-----------------------------------------------------------------------------
LEMMA PtyInitInv == PtyInit => PtyInv
<1> SUFFICES ASSUME PtyInit PROVE PtyInv
  OBVIOUS
<1>1. Inv
  BY InitInv DEF PtyInit
<1>2. PtyTypeOK
  BY <1>1 DEF PtyInit, PtyTypeOK, Inv
<1>3. PromptInv /\ DenyEnforcedInTime
  BY DEF PtyInit, PromptInv, DenyEnforcedInTime
<1> QED
  BY <1>1, <1>2, <1>3 DEF PtyInv

(* A step of the requests leaves the prompts alone, and the times of the     *)
(* requests that have a row.                                                 *)
LEMMA RequestKeeps == ASSUME PtyInv, RequestStep PROVE PtyInv'
<1> USE DEF PtyInv
<1>1. Inv'
  BY StepInv DEF RequestStep
<1>2. PtyTypeOK'
  BY <1>1 DEF Inv, RequestStep, PtyTypeOK
<1>3. PromptInv'
  <2> SUFFICES ASSUME NEW h \in Hooks, prompt'[h] # "none" PROVE hook'[h] \in Ended
    BY DEF PromptInv
  <2>1. hook[h] \in Ended
    BY DEF RequestStep, PromptInv
  <2> QED
    BY <2>1, EndedStays DEF RequestStep, PtyTypeOK
<1>4. DenyEnforcedInTime'
  <2> SUFFICES ASSUME NEW h \in Hooks,
                      out'[h] = "deny", answer'[h] = None, prompt'[h] = "left", look'[h].ok
               PROVE  look'[h].at > ts'[h] + Lookback
    BY DEF DenyEnforcedInTime
  <2>1. prompt[h] = "left" /\ look[h].ok /\ look'[h] = look[h]
    BY DEF RequestStep
  <2>2. out[h] = "deny" /\ answer[h] = None
    BY <2>1, EndedStays DEF PromptInv, RequestStep, PtyTypeOK
  <2>3. ts'[h] = ts[h]
    BY <2>2, DenyHasRow DEF RequestStep
  <2> QED
    BY <2>1, <2>2, <2>3 DEF DenyEnforcedInTime
<1> QED
  BY <1>1, <1>2, <1>3, <1>4

(* Inv is about the requests' own variables, which the wrapper's steps leave *)
(* as they are (a failed query is one of the bounded faults).                *)
LEMMA InvAside ==
    ASSUME Inv, faults' \in Nat, UNCHANGED <<daemonVars, hookVars, crashes, offered>>
    PROVE  Inv'
<1>1. UNCHANGED <<up, rules, conn, decisions, hook, ticket, answer, out, offered>>
  BY DEF daemonVars, hookVars
<1>2. \A g \in Hooks : ConnInv(g)' /\ HookInv(g)'
  BY <1>1, KeepHook, KeepRows DEF Inv
<1>3. TableInv'
  BY <1>1, KeepTable DEF Inv
<1>4. TypeOK'
  BY <1>1 DEF Inv, TypeOK
<1> QED
  BY <1>2, <1>3, <1>4 DEF Inv

LEMMA DetectKeeps == ASSUME PtyInv, NEW h \in Hooks, Detect(h) PROVE PtyInv'
<1> USE DEF PtyInv
<1>1. UNCHANGED vars /\ now' = now /\ ts' = ts
  BY DEF Detect
<1>2. Inv'
  BY <1>1, StepInv
<1>3. PtyTypeOK'
  BY <1>1, <1>2 DEF Detect, PtyTypeOK, Inv
<1>4. PromptInv'
  BY <1>1 DEF Detect, PromptInv, PtyTypeOK, vars, hookVars
<1>5. ASSUME NEW g \in Hooks,
             out'[g] = "deny", answer'[g] = None, prompt'[g] = "left", look'[g].ok
      PROVE  look'[g].at > ts'[g] + Lookback
  <2>1. out[g] = "deny" /\ answer[g] = None
    BY <1>1, <1>5 DEF vars, hookVars
  <2>2. CASE g = h
    <3>1. ~HasRecentDeny /\ look'[h].at = now
      BY <1>5, <2>2 DEF Detect, PtyTypeOK
    <3>2. PICK i \in RowsOf(h) : decisions[i].decision = "deny"
      BY <2>1, <2>2, DenyHasRow
    <3>3. ~(ts[h] >= now - Lookback)
      BY <3>1, <3>2 DEF HasRecentDeny, RowsOf
    <3> QED
      BY <1>1, <2>2, <3>1, <3>3, LookbackAssumption DEF PtyTypeOK
  <2>3. CASE g # h
    BY <1>1, <1>5, <2>1, <2>3 DEF Detect, PtyTypeOK, DenyEnforcedInTime
  <2> QED
    BY <2>2, <2>3
<1> QED
  BY <1>2, <1>3, <1>4, <1>5 DEF DenyEnforcedInTime

LEMMA DetectFailsKeeps == ASSUME PtyInv, NEW h \in Hooks, DetectFails(h) PROVE PtyInv'
<1> USE DEF PtyInv
<1>1. Inv'
  BY InvAside DEF DetectFails, Inv, TypeOK
<1>2. PtyTypeOK'
  BY <1>1 DEF DetectFails, PtyTypeOK, Inv
<1>3. PromptInv'
  BY DEF DetectFails, PromptInv, PtyTypeOK, hookVars
<1>4. DenyEnforcedInTime'
  BY DEF DetectFails, DenyEnforcedInTime, PtyTypeOK, hookVars
<1> QED
  BY <1>1, <1>2, <1>3, <1>4

LEMMA PtyStepInv == PtyInv /\ [PtyNext]_ptyAll => PtyInv'
<1> SUFFICES ASSUME PtyInv, [PtyNext]_ptyAll PROVE PtyInv'
  OBVIOUS
<1> USE DEF PtyInv
<1>1. ASSUME NEW h \in Hooks, ClaudePrompts(h) PROVE PtyInv'
  <2>1. Inv'
    BY <1>1, StepInv DEF ClaudePrompts
  <2>2. PtyTypeOK'
    BY <1>1, <2>1 DEF ClaudePrompts, PtyTypeOK, Inv
  <2>3. PromptInv' /\ DenyEnforcedInTime'
    BY <1>1 DEF ClaudePrompts, PromptInv, DenyEnforcedInTime, PtyTypeOK, vars, hookVars
  <2> QED
    BY <2>1, <2>2, <2>3
<1>2. CASE Tick
  <2>1. Inv'
    BY <1>2, StepInv DEF Tick
  <2>2. PtyTypeOK'
    BY <1>2, <2>1 DEF Tick, PtyTypeOK, Inv
  <2>3. PromptInv' /\ DenyEnforcedInTime'
    BY <1>2 DEF Tick, PromptInv, DenyEnforcedInTime, vars, hookVars
  <2> QED
    BY <2>1, <2>2, <2>3
<1>3. CASE UNCHANGED ptyAll
  <2>1. Inv'
    BY <1>3, StepInv DEF ptyAll
  <2>2. PtyTypeOK'
    BY <1>3, <2>1 DEF ptyAll, ptyVars, PtyTypeOK, Inv
  <2>3. PromptInv' /\ DenyEnforcedInTime'
    BY <1>3 DEF ptyAll, ptyVars, PromptInv, DenyEnforcedInTime, vars, hookVars
  <2> QED
    BY <2>1, <2>2, <2>3
<1> QED
  BY <1>1, <1>2, <1>3, RequestKeeps, DetectKeeps, DetectFailsKeeps DEF PtyNext

LEMMA AlwaysPtyInv == PtySpec => []PtyInv
BY PtyInitInv, PtyStepInv, PTL DEF PtySpec, ptyAll

-----------------------------------------------------------------------------
(* Every variable keeps its type, the wrapper's too.                         *)
THEOREM PtyTypeCorrect == PtySpec => []PtyTypeOK
BY AlwaysPtyInv, PTL DEF PtyInv

(* A deny by rule that Claude Code was told of is typed for the user, unless *)
(* its prompt came after the lookback or the query failed                    *)
(* (has_recent_deny_sync, master_reader_loop).                               *)
THEOREM DenyIsEnforced == PtySpec => []DenyEnforcedInTime
BY AlwaysPtyInv, PTL DEF PtyInv

-----------------------------------------------------------------------------
(* The wrapper's threads (PtyTap).                                           *)

(* The child has printed the prompt in the bytes up to e.                    *)
Hit(e) ==
    /\ e \in Len(Pattern) .. Len(stream)
    /\ \A i \in 1 .. Len(Pattern) : stream[e - Len(Pattern) + i] = Pattern[i]

(* What lies before the window.                                              *)
Start == shown - Len(window)

(* The sequence of bytes the child prints, and how far it and the reader are.*)
TapTypes ==
    /\ gating \in BOOLEAN /\ stream \in Streams
    /\ shown \in Nat /\ written \in Nat /\ shown <= written /\ written <= Len(stream)
    /\ child \in {"running", "exited"} /\ main \in {"child", "reader", "writer", "returned"}
    /\ {reader, stdin, writer} \subseteq {"running", "ended"}
    /\ keys \in 0 .. MaxKeys
    /\ typed \in Seq(Nat) /\ channel \in Seq(Nat)
    /\ looked \in Seq([at : Nat, found : BOOLEAN])

(* The window ends at the last byte read.  It begins at the first one, or    *)
(* behind a prompt, or is full.                                              *)
WindowInv ==
    /\ window \in Seq(Bytes) /\ Len(window) <= shown /\ Len(window) <= WindowMax
    /\ gating => /\ window = SubSeq(stream, Start + 1, shown)
                 /\ Start = 0 \/ Len(window) = WindowMax \/ Hit(Start)
    /\ ~gating => window = <<>>

(* Each lookup has a prompt of its own, printed after the one before; what   *)
(* is in the window and not looked up came after the last one.               *)
LookupsInv ==
    /\ \A i \in DOMAIN looked :
          /\ looked[i].at <= shown
          /\ \E e \in 1 .. looked[i].at :
                /\ Hit(e) /\ (i > 1 => looked[i - 1].at < e)
                /\ Cardinality({f \in 1 .. e : Hit(f)}) >= i
    /\ looked # <<>> =>
          \A e \in 1 .. shown : Hit(e) /\ e - Len(Pattern) >= Start => Last(looked).at < e

(* A prompt at the end of what was read has been looked up, if the child     *)
(* prints text that fits the window, or has no character of several bytes.   *)
ServedInv ==
    gating /\ Hit(shown) /\ ValidText(stream)
           /\ (shown <= WindowMax \/ ~\E i \in 1 .. shown : stream[i] = Lead)
        => looked # <<>> /\ Last(looked).at = shown

(* How many elements of s are in T.                                          *)
Among(s, T) == Cardinality({i \in 1 .. Len(s) : s[i] \in T})

Found == {l \in [at : Nat, found : BOOLEAN] : l.found}

(* Who writes has a reason; who has ended has nothing left to pass on.       *)
ThreadsInv ==
    /\ Among(typed \o channel, {Refusal}) <= Among(looked, Found)
    /\ reader = "ended" => \/ child = "exited" /\ shown = written
                           \/ looked # <<>> /\ Last(looked).found
    /\ main \in {"writer", "returned"} => reader = "ended"

TapInv == TapTypes /\ WindowInv /\ LookupsInv /\ ServedInv /\ ThreadsInv

-----------------------------------------------------------------------------
(* Counting.                                                                 *)

LEMMA AmongType ==
    ASSUME NEW X, NEW s \in Seq(X), NEW T
    PROVE  Among(s, T) \in Nat /\ IsFiniteSet({i \in 1 .. Len(s) : s[i] \in T})
<1> DEFINE D == 1 .. Len(s)
           A == {i \in D : s[i] \in T}
<1>1. Len(s) \in Int /\ 1 \in Int
  OBVIOUS
<1>2. IsFiniteSet(1 .. Len(s))
  BY <1>1, FS_Interval
<1>3. A \in SUBSET D
  OBVIOUS
<1> HIDE DEF A
<1>4. IsFiniteSet(A)
  BY <1>2, <1>3, FS_Subset
<1>5. Cardinality(A) \in Nat
  BY <1>4, FS_CardinalityType
<1> QED
  BY <1>4, <1>5 DEF A, Among

(* One more element counts once or not at all.                               *)
LEMMA AmongAppend ==
    ASSUME NEW X, NEW s \in Seq(X), NEW x \in X, NEW T
    PROVE  Among(Append(s, x), T) = IF x \in T THEN Among(s, T) + 1 ELSE Among(s, T)
<1> DEFINE n == Len(s)
           w == Append(s, x)
           A == {i \in 1 .. n : s[i] \in T}
           B == {i \in 1 .. Len(w) : w[i] \in T}
<1>1. n \in Nat /\ Len(w) = n + 1 /\ w[n + 1] = x /\ \A i \in 1 .. n : w[i] = s[i]
  OBVIOUS
<1>2. IsFiniteSet(A) /\ Cardinality(A) \in Nat
  BY AmongType DEF Among
<1>3. n + 1 \notin A
  BY <1>1
<1> HIDE DEF w
<1>4. CASE x \in T
  <2>1. B = A \cup {n + 1}
    BY <1>1, <1>4
  <2> HIDE DEF A, B, n
  <2>2. Cardinality(A \cup {n + 1}) = Cardinality(A) + 1
    BY <1>2, <1>3, FS_AddElement
  <2> QED
    BY <1>4, <2>1, <2>2 DEF Among, A, B, w, n
<1>5. CASE x \notin T
  <2>1. B = A
    BY <1>1, <1>5
  <2> QED
    BY <1>5, <2>1 DEF Among, w
<1> QED
  BY <1>4, <1>5

(* What is left of a sequence counts no more than the whole.                 *)
LEMMA AmongFront ==
    ASSUME NEW X, NEW s \in Seq(X), NEW t \in Seq(X), NEW T
    PROVE  Among(s, T) <= Among(s \o t, T)
<1> DEFINE w == s \o t
           A == {i \in 1 .. Len(s) : s[i] \in T}
           B == {i \in 1 .. Len(w) : w[i] \in T}
<1>1. /\ w \in Seq(X) /\ Len(w) = Len(s) + Len(t) /\ Len(s) \in Nat /\ Len(t) \in Nat
      /\ \A i \in 1 .. Len(s) : w[i] = s[i]
  OBVIOUS
<1> HIDE DEF w
<1>2. A \in SUBSET B
  BY <1>1
<1>3. IsFiniteSet(B) /\ Cardinality(B) \in Nat /\ Cardinality(A) \in Nat
  BY <1>1, AmongType DEF Among
<1> HIDE DEF A, B
<1>4. Cardinality(A) <= Cardinality(B)
  BY <1>2, <1>3, FS_Subset
<1> QED
  BY <1>4 DEF Among, A, B, w

-----------------------------------------------------------------------------
(* Prompts in a segment of the stream.                                       *)

LEMMA PromptLen == Len(Pattern) \in Nat \ {0} /\ Pattern \in Seq(Bytes) /\ DOMAIN Pattern = 1 .. Len(Pattern)
<1>1. Pattern \in Seq(Bytes) /\ Pattern # <<>>
  BY TapAssumption
<1> QED
  BY <1>1

LEMMA Segment ==
    ASSUME stream \in Seq(Bytes), NEW s \in Nat, NEW t \in Nat, s <= t, t <= Len(stream)
    PROVE  /\ SubSeq(stream, s + 1, t) \in Seq(Bytes)
           /\ Len(SubSeq(stream, s + 1, t)) = t - s
           /\ DOMAIN SubSeq(stream, s + 1, t) = 1 .. t - s
           /\ \A i \in 1 .. t - s : SubSeq(stream, s + 1, t)[i] = stream[s + i]
<1>1. Len(stream) \in Nat
  OBVIOUS
<1>2. \A i \in s + 1 .. t : stream[i] \in Bytes
  BY <1>1
<1>3. Len(SubSeq(stream, s + 1, t)) = t - s
  BY <1>1
<1>4. SubSeq(stream, s + 1, t) \in Seq(Bytes)
  BY <1>1, <1>2
<1>5. \A i \in 1 .. t - s : SubSeq(stream, s + 1, t)[i] = stream[s + i]
  BY <1>1
<1> QED
  BY <1>3, <1>4, <1>5

(* A prompt ends in the segment where it ends in the stream, if it begins    *)
(* there.                                                                    *)
LEMMA SegmentHits ==
    ASSUME stream \in Seq(Bytes), NEW s \in Nat, NEW t \in Nat, s <= t, t <= Len(stream)
    PROVE  PromptEnds(SubSeq(stream, s + 1, t)) = {e \in Len(Pattern) .. t - s : Hit(s + e)}
<1> DEFINE bytes == SubSeq(stream, s + 1, t)
           L == Len(Pattern)
<1>1. /\ bytes \in Seq(Bytes) /\ Len(bytes) = t - s
      /\ \A i \in 1 .. t - s : bytes[i] = stream[s + i]
  BY Segment
<1>2. L \in Nat \ {0} /\ Pattern \in Seq(Bytes) /\ DOMAIN Pattern = 1 .. L /\ Len(stream) \in Nat
  BY PromptLen
<1> HIDE DEF bytes, L
<1>3. ASSUME NEW e \in L .. t - s
      PROVE  SubSeq(bytes, e - L + 1, e) = Pattern <=> Hit(s + e)
  <2> DEFINE piece == SubSeq(bytes, e - L + 1, e)
  <2>1. /\ piece \in Seq(Bytes) /\ Len(piece) = L
        /\ \A i \in 1 .. L : piece[i] = bytes[e - L + i]
    <3>1. e - L + 1 >= 1 /\ e <= Len(bytes) /\ e - (e - L + 1) + 1 = L /\ e \in Nat
      BY <1>1, <1>2
    <3>2. Len(piece) = L
      BY <1>1, <1>2, <3>1
    <3>3. \A i \in 1 .. L : piece[i] = bytes[e - L + i]
      BY <1>1, <1>2, <3>1
    <3>4. piece \in Seq(Bytes)
      BY <1>1, <1>2, <3>1
    <3> QED
      BY <3>2, <3>3, <3>4
  <2>2. \A i \in 1 .. L : e - L + i \in 1 .. t - s /\ s + (e - L + i) = (s + e) - L + i
    BY <1>2
  <2>3. \A i \in 1 .. L : piece[i] = stream[(s + e) - L + i]
    BY <1>1, <2>1, <2>2
  <2> HIDE DEF piece
  <2>4. piece = Pattern <=> \A i \in 1 .. L : piece[i] = Pattern[i]
    BY <1>2, <2>1
  <2>5. s + e \in L .. Len(stream)
    BY <1>2
  <2> QED
    BY <2>3, <2>4, <2>5 DEF Hit, piece, L
<1> QED
  BY <1>1, <1>3 DEF PromptEnds, bytes, L

(* No two prompts overlap.                                                   *)
LEMMA HitsApart ==
    ASSUME stream \in Seq(Bytes), NEW e, NEW f, Hit(e), Hit(f), e < f
    PROVE  e <= f - Len(Pattern)
<1> DEFINE L == Len(Pattern)
<1>1. L \in Nat \ {0} /\ e \in Nat /\ f \in Nat /\ e >= L /\ f >= L
  BY PromptLen DEF Hit
<1> SUFFICES ASSUME f - L < e PROVE FALSE
  BY <1>1
<1> DEFINE n == e - (f - L)
<1>2. n \in 1 .. L - 1
  BY <1>1
<1>3. PICK i \in 1 .. n : Pattern[i] # Pattern[L - n + i]
  BY <1>2, PromptAssumption
<1>4. i \in 1 .. L /\ L - n + i \in 1 .. L /\ f - L + i = e - L + (L - n + i)
  BY <1>1, <1>2
<1>5. stream[f - L + i] = Pattern[i]
  BY <1>4 DEF Hit
<1>6. stream[e - L + (L - n + i)] = Pattern[L - n + i]
  BY <1>4 DEF Hit
<1> QED
  BY <1>3, <1>4, <1>5, <1>6

-----------------------------------------------------------------------------
(* The reader.                                                               *)

LEMMA StreamType == ASSUME TapTypes PROVE stream \in Seq(Bytes) /\ Len(stream) \in Nat
<1>1. stream \in Seq(Bytes)
  BY TapAssumption DEF TapTypes
<1> QED
  BY <1>1

LEMMA SameBytes ==
    ASSUME NEW u \in Seq(Bytes), NEW v \in Seq(Bytes), Len(u) = Len(v),
           \A i \in 1 .. Len(u) : u[i] = v[i]
    PROVE  u = v
OBVIOUS

(* The window rolls over the stream.                                         *)
LEMMA RolledIs ==
    ASSUME TapTypes, WindowInv, gating, NEW t \in Nat, shown < t, t <= written
    PROVE  \E s \in Start .. t :
              /\ Rolled(SubSeq(stream, shown + 1, t)) = SubSeq(stream, s + 1, t)
              /\ t - s <= WindowMax
              /\ s = Start \/ t - s = WindowMax
<1> DEFINE chunk == SubSeq(stream, shown + 1, t)
           all == SubSeq(stream, Start + 1, t)
           m == t - Start
<1>1. /\ stream \in Seq(Bytes) /\ Len(stream) \in Nat /\ shown \in Nat /\ t \in Nat /\ t <= Len(stream)
      /\ shown < t /\ WindowMax \in Nat \ {0}
  BY StreamType, TapAssumption DEF TapTypes
<1>2. window \in Seq(Bytes) /\ Len(window) \in Nat /\ Len(window) <= shown
      /\ window = SubSeq(stream, Start + 1, shown)
  BY DEF WindowInv
<1>3. Start \in Nat /\ Start <= shown /\ Len(window) = shown - Start
  BY <1>1, <1>2 DEF Start
<1>4. /\ chunk \in Seq(Bytes) /\ Len(chunk) = t - shown
      /\ \A i \in 1 .. t - shown : chunk[i] = stream[shown + i]
  BY <1>1, Segment
<1>5. /\ all \in Seq(Bytes) /\ Len(all) = m
      /\ \A i \in 1 .. m : all[i] = stream[Start + i]
  BY <1>1, <1>3, Segment
<1>6. \A i \in 1 .. shown - Start : window[i] = stream[Start + i]
  BY <1>1, <1>2, <1>3, Segment
<1> HIDE DEF chunk, all
<1>7. window \o chunk = all
  <2> DEFINE both == window \o chunk
  <2>1. /\ both \in Seq(Bytes) /\ Len(both) = Len(window) + Len(chunk)
        /\ \A i \in 1 .. Len(both) :
              both[i] = IF i <= Len(window) THEN window[i] ELSE chunk[i - Len(window)]
    BY <1>2, <1>4
  <2> HIDE DEF both
  <2>2. Len(both) = m
    BY <1>1, <1>3, <1>4, <2>1
  <2>3. ASSUME NEW i \in 1 .. m PROVE both[i] = all[i]
    <3>1. CASE i <= shown - Start
      <4>1. i \in 1 .. shown - Start /\ i <= Len(window) /\ i \in 1 .. Len(both)
        BY <1>1, <1>3, <2>2, <3>1
      <4>2. both[i] = window[i] /\ window[i] = stream[Start + i] /\ all[i] = stream[Start + i]
        BY <1>5, <1>6, <2>1, <4>1
      <4> QED
        BY <4>2
    <3>2. CASE i > shown - Start
      <4>1. i - (shown - Start) \in 1 .. t - shown /\ shown + (i - (shown - Start)) = Start + i
        BY <1>1, <1>3, <3>2
      <4> QED
        BY <1>1, <1>3, <1>4, <1>5, <2>1, <2>2, <3>2, <4>1
    <3> QED
      BY <1>1, <1>3, <3>1, <3>2
  <2> QED
    BY <1>5, <2>1, <2>2, <2>3, SameBytes DEF both
<1>8. Rolled(chunk) = Newest(all, WindowMax)
  BY <1>7 DEF Rolled
<1>9. CASE m <= WindowMax
  <2>1. Rolled(chunk) = all
    BY <1>1, <1>5, <1>8, <1>9 DEF Newest
  <2>2. Start \in Start .. t
    BY <1>1, <1>3
  <2>3. Rolled(SubSeq(stream, shown + 1, t)) = SubSeq(stream, Start + 1, t)
    BY <2>1 DEF all, chunk
  <2>4. t - Start <= WindowMax
    BY <1>9
  <2> QED
    BY <2>2, <2>3, <2>4
<1>10. CASE m > WindowMax
  <2> DEFINE s == t - WindowMax
             rest == SubSeq(all, m - WindowMax + 1, m)
             last == SubSeq(stream, s + 1, t)
  <2>1. Rolled(chunk) = rest
    BY <1>5, <1>8, <1>10 DEF Newest
  <2>2. s \in Nat /\ s \in Start .. t /\ t - s = WindowMax
    BY <1>1, <1>3, <1>10
  <2>3. /\ rest \in Seq(Bytes) /\ Len(rest) = WindowMax
        /\ \A i \in 1 .. WindowMax : rest[i] = all[m - WindowMax + i]
    <3>1. m \in Nat /\ m - WindowMax + 1 >= 1
      BY <1>1, <1>3, <1>10
    <3>2. \A i \in m - WindowMax + 1 .. m : all[i] \in Bytes
      BY <1>1, <1>5, <3>1
    <3>3. m - (m - WindowMax + 1) + 1 = WindowMax
      BY <1>1, <3>1
    <3>4. Len(rest) = WindowMax
      BY <1>1, <1>5, <1>10, <3>1, <3>3
    <3>5. rest \in Seq(Bytes)
      BY <1>1, <1>5, <1>10, <3>1, <3>2
    <3>6. \A i \in 1 .. WindowMax : rest[i] = all[m - WindowMax + i]
      BY <1>1, <1>5, <1>10, <3>1, <3>3
    <3> QED
      BY <3>4, <3>5, <3>6
  <2>4. /\ last \in Seq(Bytes) /\ Len(last) = WindowMax
        /\ \A i \in 1 .. WindowMax : last[i] = stream[s + i]
    BY <1>1, <2>2, Segment
  <2> HIDE DEF rest, last
  <2>5. \A i \in 1 .. WindowMax : m - WindowMax + i \in 1 .. m /\ Start + (m - WindowMax + i) = s + i
    BY <1>1, <1>3, <1>10
  <2>6. ASSUME NEW i \in 1 .. WindowMax PROVE rest[i] = last[i]
    <3> DEFINE k == m - WindowMax + i
    <3>1. rest[i] = all[k] /\ k \in 1 .. m /\ last[i] = stream[Start + k]
      BY ONLY <2>3, <2>4, <2>5
    <3> HIDE DEF k
    <3> QED
      BY ONLY <1>5, <3>1
  <2>7. rest = last
    BY <2>3, <2>4, <2>6, SameBytes
  <2>8. Rolled(SubSeq(stream, shown + 1, t)) = SubSeq(stream, s + 1, t)
    BY <2>1, <2>7 DEF last, chunk
  <2>9. t - s <= WindowMax
    BY <1>1, <2>2
  <2> HIDE DEF s
  <2> QED
    BY <2>2, <2>8, <2>9
<1> QED
  BY <1>1, <1>3, <1>9, <1>10

(* What was printed is text if the child prints text, has printed the prompt *)
(* last and, before the window, a prompt, nothing, or only ASCII.            *)
LEMMA WindowIsText ==
    ASSUME stream \in Seq(Bytes), ValidText(stream), NEW s \in Nat, NEW t \in Nat, s < t,
           t <= Len(stream), Hit(t),
           s = 0 \/ Hit(s) \/ ~ \E i \in 1 .. t : stream[i] = Lead
    PROVE  ValidText(SubSeq(stream, s + 1, t))
<1> DEFINE bytes == SubSeq(stream, s + 1, t)
           L == Len(Pattern)
<1>1. /\ bytes \in Seq(Bytes) /\ Len(bytes) = t - s /\ DOMAIN bytes = 1 .. t - s
      /\ \A i \in 1 .. t - s : bytes[i] = stream[s + i]
  BY Segment
<1>2. Len(stream) \in Nat /\ DOMAIN stream = 1 .. Len(stream)
  OBVIOUS
<1>3. \A i \in 1 .. Len(stream) : stream[i] = Cont <=> i > 1 /\ stream[i - 1] = Lead
  BY <1>2 DEF ValidText
<1>4. \A e : Hit(e) => stream[e] \notin {Lead, Cont}
  <2> SUFFICES ASSUME NEW e, Hit(e) PROVE stream[e] \notin {Lead, Cont}
    OBVIOUS
  <2>1. L \in Nat \ {0} /\ e \in Nat /\ e - L + L = e
    BY PromptLen DEF Hit
  <2>2. stream[e - L + L] = Pattern[L] /\ Pattern[L] \notin {Lead, Cont}
    BY <2>1, PromptAssumption DEF Hit
  <2> QED
    BY <2>1, <2>2
<1>5. s # 0 => stream[s] # Lead
  <2>1. s # 0 => s \in 1 .. t
    OBVIOUS
  <2> QED
    BY <1>4, <2>1
<1> HIDE DEF bytes, L
<1>6. ASSUME NEW i \in 1 .. t - s PROVE bytes[i] = Cont <=> i > 1 /\ bytes[i - 1] = Lead
  <2>1. s + i \in 1 .. Len(stream) /\ (s + i) - 1 = s + (i - 1)
    BY <1>2
  <2>2. stream[s + i] = Cont <=> s + i > 1 /\ stream[s + (i - 1)] = Lead
    BY <1>3, <2>1
  <2>3. CASE i = 1
    <3>1. s + (i - 1) = s /\ (s + i > 1 => s # 0)
      BY <2>3
    <3>2. stream[s + i] # Cont
      BY <1>5, <2>2, <3>1
    <3> QED
      BY <1>1, <2>3, <3>2
  <2>4. CASE i > 1
    <3>1. i - 1 \in 1 .. t - s /\ s + i > 1
      BY <2>4
    <3> QED
      BY <1>1, <2>2, <2>4, <3>1
  <2> QED
    BY <2>3, <2>4
<1>7. Last(bytes) # Lead
  <2>1. t - s \in 1 .. t - s /\ s + (t - s) = t
    OBVIOUS
  <2>2. Last(bytes) = stream[t]
    BY <1>1, <2>1 DEF Last
  <2> QED
    BY <1>4, <2>2
<1> QED
  BY <1>1, <1>6, <1>7 DEF ValidText, bytes

(* A step that reads nothing leaves what is said of reading.                 *)
LEMMA SameReading ==
    ASSUME WindowInv, LookupsInv, ServedInv, UNCHANGED <<gating, stream, shown, window, looked>>
    PROVE  WindowInv' /\ LookupsInv' /\ ServedInv'
<1>1. \A e : Hit(e)' <=> Hit(e)
  BY DEF Hit
<1>2. Start' = Start
  BY DEF Start
<1>3. WindowInv'
  BY <1>1, <1>2 DEF WindowInv
<1>4. LookupsInv'
  BY <1>1, <1>2 DEF LookupsInv
<1>5. ServedInv'
  BY <1>1 DEF ServedInv
<1> QED
  BY <1>3, <1>4, <1>5

LEMMA LookedType ==
    ASSUME TapTypes
    PROVE  /\ Len(looked) \in Nat /\ DOMAIN looked = 1 .. Len(looked)
           /\ \A i \in DOMAIN looked : looked[i].at \in Nat /\ looked[i].found \in BOOLEAN
<1> DEFINE X == [at : Nat, found : BOOLEAN]
<1>1. looked \in Seq(X)
  BY DEF TapTypes
<1>2. \A l \in X : l.at \in Nat /\ l.found \in BOOLEAN
  OBVIOUS
<1> HIDE DEF X
<1> QED
  BY <1>1, <1>2

(* A window in which nothing was looked up had no prompt at its end.         *)
LEMMA MissStep ==
    ASSUME TapTypes, WindowInv, LookupsInv, ServedInv, gating,
           NEW t \in Nat, shown < t, t <= written, shown' = t, UNCHANGED <<gating, stream, looked>>,
           NEW s \in Start .. t, t - s <= WindowMax, s = Start \/ t - s = WindowMax,
           window' = SubSeq(stream, s + 1, t),
           ~ (ValidText(window') /\ PromptEnds(window') # {})
    PROVE  WindowInv' /\ LookupsInv' /\ ServedInv'
<1>0. \A e : Hit(e)' <=> Hit(e)
  BY DEF Hit
<1>1. /\ stream \in Seq(Bytes) /\ Len(stream) \in Nat /\ shown \in Nat /\ t <= Len(stream)
      /\ WindowMax \in Nat \ {0} /\ Len(Pattern) \in Nat \ {0} /\ Len(Pattern) <= WindowMax
  BY StreamType, PromptLen, TapAssumption, PromptAssumption DEF TapTypes
<1>2. Len(window) \in Nat /\ Start = shown - Len(window) /\ Start \in Nat
  BY <1>1 DEF WindowInv, Start
<1>3. s \in Nat /\ s <= t /\ s < t
  BY <1>1, <1>2
<1>4. window' \in Seq(Bytes) /\ Len(window') = t - s
  BY <1>1, <1>3, Segment
<1>5. Start' = s
  BY <1>3, <1>4 DEF Start
<1>6. s = 0 \/ t - s = WindowMax \/ Hit(s)
  <2>1. Start = 0 \/ Len(window) = WindowMax \/ Hit(Start)
    BY DEF WindowInv
  <2>2. CASE s = Start
    <3>1. Len(window) # WindowMax
      BY <1>1, <1>2, <1>3, <2>2
    <3> QED
      BY <2>1, <2>2, <3>1
  <2> QED
    BY <2>2
<1>7. WindowInv'
  BY <1>0, <1>1, <1>3, <1>4, <1>5, <1>6 DEF WindowInv
<1>8. LookupsInv'
  <2>0. \A i \in DOMAIN looked : looked[i].at <= shown
    BY DEF LookupsInv
  <2>1. \A i \in DOMAIN looked : looked[i].at <= t /\ looked[i].at \in Nat
    BY <1>1, <2>0, LookedType
  <2>2. ASSUME looked # <<>>, NEW e \in 1 .. t, Hit(e), e - Len(Pattern) >= s
        PROVE  Last(looked).at < e
    <3>1. Len(looked) \in DOMAIN looked /\ Last(looked) = looked[Len(looked)]
      BY <2>2 DEF Last, TapTypes
    <3>2. CASE e <= shown
      <4>1. e \in 1 .. shown /\ e - Len(Pattern) >= Start
        BY <1>1, <1>2, <1>3, <2>2, <3>2
      <4> QED
        BY <2>2, <4>1 DEF LookupsInv
    <3>3. CASE e > shown
      <4>1. looked[Len(looked)].at <= shown /\ looked[Len(looked)].at \in Nat
        BY <2>1, <3>1 DEF LookupsInv
      <4> QED
        BY <1>1, <3>1, <3>3, <4>1
    <3> QED
      BY <1>1, <3>2, <3>3
  <2>3. \A i \in DOMAIN looked :
           \E e \in 1 .. looked[i].at :
                /\ Hit(e) /\ (i > 1 => looked[i - 1].at < e)
                /\ Cardinality({f \in 1 .. e : Hit(f)}) >= i
    BY DEF LookupsInv
  <2> QED
    BY <1>0, <1>5, <2>1, <2>2, <2>3 DEF LookupsInv
<1>9. ServedInv'
  <2> SUFFICES ASSUME Hit(t), ValidText(stream),
                      t <= WindowMax \/ ~ \E i \in 1 .. t : stream[i] = Lead
               PROVE  FALSE
    BY <1>0 DEF ServedInv
  <2>1. s = 0 \/ Hit(s) \/ ~ \E i \in 1 .. t : stream[i] = Lead
    BY <1>1, <1>3, <1>6
  <2>2. ValidText(window')
    BY <1>1, <1>3, <2>1, WindowIsText
  <2>3. t >= Len(Pattern)
    BY DEF Hit
  <2>4. Hit(s) => s <= t - Len(Pattern)
    BY <1>1, <1>3, HitsApart
  <2>5. t - s \in Len(Pattern) .. t - s /\ s + (t - s) = t
    BY <1>1, <1>3, <1>6, <2>3, <2>4
  <2>6. PromptEnds(window') = {e \in Len(Pattern) .. t - s : Hit(s + e)}
    BY <1>1, <1>3, SegmentHits
  <2>7. t - s \in PromptEnds(window')
    BY <2>5, <2>6
  <2> QED
    BY <2>2, <2>7
<1> QED
  BY <1>7, <1>8, <1>9

(* Prompts up to a byte are counted.                                         *)
LEMMA HitsType == ASSUME NEW e \in Nat PROVE Cardinality({f \in 1 .. e : Hit(f)}) \in Nat
<1> DEFINE D == 1 .. e
           A == {f \in D : Hit(f)}
<1>0. 1 \in Int /\ e \in Int
  OBVIOUS
<1>1. IsFiniteSet(D) /\ A \in SUBSET D
  BY <1>0, FS_Interval
<1> HIDE DEF A, D
<1>2. Cardinality(A) \in Nat
  BY <1>1, FS_Subset, FS_CardinalityType
<1> QED
  BY <1>2 DEF A, D

(* One more prompt counts once more.                                         *)
LEMMA HitsGrow ==
    ASSUME NEW d \in Nat, NEW e \in Nat, d < e, Hit(e)
    PROVE  Cardinality({f \in 1 .. e : Hit(f)}) >= Cardinality({f \in 1 .. d : Hit(f)}) + 1
           /\ Cardinality({f \in 1 .. d : Hit(f)}) \in Nat
<1> DEFINE D == 1 .. d
           E == 1 .. e
           A == {f \in D : Hit(f)}
           B == {f \in E : Hit(f)}
<1>0. d \in Int /\ e \in Int /\ 1 \in Int
  OBVIOUS
<1>1. IsFiniteSet(D) /\ IsFiniteSet(E)
  BY <1>0, FS_Interval
<1>2. A \in SUBSET D /\ B \in SUBSET E /\ A \cup {e} \in SUBSET B /\ e \notin A
  OBVIOUS
<1> HIDE DEF A, B, D, E
<1>3. IsFiniteSet(A) /\ IsFiniteSet(B)
  BY <1>1, <1>2, FS_Subset
<1>4. Cardinality(A) \in Nat /\ Cardinality(B) \in Nat
  BY <1>3, FS_CardinalityType
<1>5. Cardinality(A \cup {e}) = Cardinality(A) + 1
  BY <1>2, <1>3, FS_AddElement
<1>6. Cardinality(A \cup {e}) <= Cardinality(B)
  BY <1>2, <1>3, FS_Subset
<1>7. Cardinality(B) >= Cardinality(A) + 1
  BY <1>4, <1>5, <1>6
<1> QED
  BY <1>4, <1>7 DEF A, B, D, E

(* A lookup has the last prompt in the window, and the window goes on behind *)
(* it.                                                                       *)
LEMMA LookupStep ==
    ASSUME TapTypes, WindowInv, LookupsInv, gating,
           NEW t \in Nat, shown < t, t <= written, shown' = t, UNCHANGED <<gating, stream>>,
           NEW s \in Start .. t, t - s <= WindowMax,
           NEW last \in PromptEnds(SubSeq(stream, s + 1, t)),
           \A f \in PromptEnds(SubSeq(stream, s + 1, t)) : f <= last,
           window' = After(SubSeq(stream, s + 1, t), last),
           NEW found \in BOOLEAN, looked' = Append(looked, [at |-> t, found |-> found])
    PROVE  WindowInv' /\ LookupsInv' /\ ServedInv'
<1> DEFINE bytes == SubSeq(stream, s + 1, t)
           n == Len(looked)
           end == s + last
<1>0. \A e : Hit(e)' <=> Hit(e)
  BY DEF Hit
<1>1. /\ stream \in Seq(Bytes) /\ Len(stream) \in Nat /\ shown \in Nat /\ t <= Len(stream)
      /\ WindowMax \in Nat \ {0} /\ Len(Pattern) \in Nat \ {0}
  BY StreamType, PromptLen, TapAssumption DEF TapTypes
<1>2. Len(window) \in Nat /\ Start = shown - Len(window) /\ Start \in Nat
  BY <1>1 DEF WindowInv, Start
<1>3. s \in Nat /\ s <= t
  BY <1>1, <1>2
<1>4. PromptEnds(bytes) = {e \in Len(Pattern) .. t - s : Hit(s + e)}
  BY <1>1, <1>3, SegmentHits
<1>5. last \in Len(Pattern) .. t - s /\ Hit(end)
  BY <1>4
<1>6. end \in Nat /\ end <= t /\ end - Len(Pattern) >= s /\ end >= 1 /\ last \in Nat
  BY <1>1, <1>3, <1>5
<1>7. window' = SubSeq(stream, end + 1, t)
  <2> DEFINE rest == SubSeq(bytes, last + 1, t - s)
             tail == SubSeq(stream, end + 1, t)
  <2>1. /\ bytes \in Seq(Bytes) /\ Len(bytes) = t - s
        /\ \A i \in 1 .. t - s : bytes[i] = stream[s + i]
    BY <1>1, <1>3, Segment
  <2>2. tail \in Seq(Bytes) /\ Len(tail) = t - end /\ \A i \in 1 .. t - end : tail[i] = stream[end + i]
    BY <1>1, <1>6, Segment
  <2>3. window' = rest
    BY <2>1 DEF After
  <2> HIDE DEF bytes, end
  <2>4. last \in 0 .. t - s /\ last <= t - s /\ t - s \in Nat
    BY <1>1, <1>3, <1>5, <1>6
  <2>5. Len(rest) = (t - s) - last
    BY SMTT(20), <1>1, <2>1, <2>4
  <2>6. rest \in Seq(Bytes)
    <3>1. \A i \in last + 1 .. t - s : bytes[i] \in Bytes
      BY <2>1, <2>4
    <3> QED
      BY <2>1, <2>4, <3>1
  <2>7. \A i \in 1 .. (t - s) - last : rest[i] = bytes[last + i]
    BY <2>1, <2>4
  <2>8. t - end = (t - s) - last /\ \A i \in 1 .. (t - s) - last : last + i \in 1 .. t - s /\ s + (last + i) = end + i
    BY SMTT(40), <1>3, <2>4 DEF end
  <2> HIDE DEF rest, tail
  <2>8a. Len(rest) = Len(tail) /\ \A i \in 1 .. Len(rest) : rest[i] = tail[i]
    <3>1. Len(rest) = Len(tail)
      BY ONLY <2>2, <2>5, <2>8
    <3>2. ASSUME NEW i \in 1 .. Len(rest) PROVE rest[i] = tail[i]
      <4>1. i \in 1 .. (t - s) - last /\ i \in 1 .. t - end
        BY ONLY <2>5, <2>8, <3>2
      <4>2. rest[i] = bytes[last + i] /\ bytes[last + i] = stream[s + (last + i)]
        BY ONLY <2>1, <2>7, <2>8, <4>1
      <4>3. tail[i] = stream[end + i] /\ s + (last + i) = end + i
        BY ONLY <2>2, <2>8, <4>1
      <4> QED
        BY ONLY <4>2, <4>3
    <3> QED
      BY ONLY <3>1, <3>2
  <2>9. rest = tail
    BY <2>2, <2>6, <2>8a, SameBytes
  <2> QED
    BY <2>3, <2>9 DEF tail
<1> HIDE DEF bytes
<1>8. window' \in Seq(Bytes) /\ Len(window') = t - end
  BY <1>1, <1>6, <1>7, Segment
<1>9. Start' = end
  BY <1>6, <1>8 DEF Start
<1>10. WindowInv'
  BY SMTT(20), <1>0, <1>1, <1>3, <1>5, <1>6, <1>7, <1>8, <1>9 DEF WindowInv
<1>11. /\ n \in Nat /\ DOMAIN looked = 1 .. n /\ DOMAIN looked' = 1 .. n + 1
       /\ looked'[n + 1] = [at |-> t, found |-> found]
       /\ \A i \in 1 .. n : looked'[i] = looked[i]
       /\ \A i \in 1 .. n : looked[i].at \in Nat /\ looked[i].at <= shown
  <2>1. looked \in Seq([at : Nat, found : BOOLEAN])
    BY DEF TapTypes
  <2>2. n \in Nat /\ DOMAIN looked = 1 .. n
    BY <2>1
  <2>3. \A i \in 1 .. n : looked[i].at \in Nat
    BY <2>2, LookedType
  <2>4. \A i \in 1 .. n : looked[i].at <= shown
    BY <2>2 DEF LookupsInv
  <2>5. DOMAIN looked' = 1 .. n + 1 /\ looked'[n + 1] = [at |-> t, found |-> found]
        /\ \A i \in 1 .. n : looked'[i] = looked[i]
    BY <2>1
  <2> QED
    BY <2>2, <2>3, <2>4, <2>5
<1>12. n # 0 => looked[n].at < end
  <2> SUFFICES ASSUME n # 0 PROVE looked[n].at < end
    OBVIOUS
  <2>1. Last(looked) = looked[n] /\ looked # <<>> /\ n \in 1 .. n
    BY <1>11 DEF Last
  <2>2. CASE end <= shown
    <3>1. end \in 1 .. shown /\ end - Len(Pattern) >= Start
      BY <1>1, <1>2, <1>3, <1>6, <2>2
    <3>2. Last(looked).at < end
      BY <1>5, <2>1, <3>1 DEF LookupsInv
    <3> QED
      BY <2>1, <3>2
  <2>3. CASE end > shown
    BY SMTT(20), <1>1, <1>6, <1>11, <2>1, <2>3
  <2> QED
    BY <1>1, <1>6, <2>2, <2>3
<1>13. ASSUME NEW i \in 1 .. n + 1
       PROVE  \E e \in 1 .. looked'[i].at :
                /\ Hit(e) /\ (i > 1 => looked'[i - 1].at < e)
                /\ Cardinality({f \in 1 .. e : Hit(f)}) >= i
  <2>1. CASE i <= n
    <3>1. i \in DOMAIN looked /\ (i > 1 => i - 1 \in 1 .. n)
      BY <1>11, <2>1
    <3>2. PICK e \in 1 .. looked[i].at : /\ Hit(e) /\ (i > 1 => looked[i - 1].at < e)
                                         /\ Cardinality({f \in 1 .. e : Hit(f)}) >= i
      BY <3>1 DEF LookupsInv
    <3> QED
      BY <1>11, <3>1, <3>2
  <2>2. CASE i = n + 1
    <3>1. Cardinality({f \in 1 .. end : Hit(f)}) >= n + 1
      <4>1. CASE n = 0
        <5>1. 0 \in Nat /\ 0 < end
          BY <1>6
        <5> HIDE DEF end
        <5>2. /\ Cardinality({f \in 1 .. end : Hit(f)}) >= Cardinality({f \in 1 .. 0 : Hit(f)}) + 1
              /\ Cardinality({f \in 1 .. 0 : Hit(f)}) \in Nat
          BY <1>5, <1>6, <5>1, HitsGrow
        <5> DEFINE a == Cardinality({f \in 1 .. 0 : Hit(f)})
                   b == Cardinality({f \in 1 .. end : Hit(f)})
        <5>3. a \in Nat /\ b \in Nat /\ b >= a + 1
          BY <1>6, <5>2, HitsType
        <5> HIDE DEF a, b
        <5>4. b >= n + 1
          BY <4>1, <5>3
        <5> QED
          BY <5>4 DEF b
      <4>2. CASE n # 0
        <5>1. n \in DOMAIN looked
          BY <1>11, <4>2
        <5>2. PICK e \in 1 .. looked[n].at : Hit(e) /\ Cardinality({f \in 1 .. e : Hit(f)}) >= n
          BY <5>1 DEF LookupsInv
        <5>3. e \in Nat /\ e < end /\ end \in Nat
          BY <1>6, <1>11, <1>12, <4>2, <5>1, <5>2
        <5> HIDE DEF end
        <5>4. /\ Cardinality({f \in 1 .. end : Hit(f)}) >= Cardinality({f \in 1 .. e : Hit(f)}) + 1
              /\ Cardinality({f \in 1 .. e : Hit(f)}) \in Nat
          BY <1>5, <5>3, HitsGrow
        <5> DEFINE a == Cardinality({f \in 1 .. e : Hit(f)})
                   b == Cardinality({f \in 1 .. end : Hit(f)})
        <5>5. a >= n /\ a \in Nat /\ b >= a + 1
          BY <5>2, <5>4
        <5>6. b \in Nat
          BY <5>3, HitsType
        <5> HIDE DEF a, b
        <5>7. b >= n + 1
          BY <1>11, <5>5, <5>6
        <5> QED
          BY <5>7 DEF b
      <4> QED
        BY <4>1, <4>2
    <3>2. looked'[i].at = t
      BY <1>11, <2>2
    <3>2a. i > 1 => looked'[i - 1] = looked[n] /\ n # 0
      <4>1. n \in Nat /\ i - 1 = n
        BY <1>11, <2>2
      <4>2. i > 1 => n \in 1 .. n /\ n # 0
        BY <2>2, <4>1
      <4> QED
        BY <1>11, <4>1, <4>2
    <3>3. end \in 1 .. looked'[i].at /\ (i > 1 => looked'[i - 1].at < end)
      BY SMTT(20), <1>6, <1>12, <3>2, <3>2a
    <3> QED
      BY <1>5, <2>2, <3>1, <3>3
  <2>3. i <= n \/ i = n + 1
    BY <1>11
  <2> QED
    BY <2>1, <2>2, <2>3
<1>14. looked' # <<>> /\ Last(looked').at = t
  BY <1>11 DEF Last
<1>15. ASSUME NEW e \in 1 .. t, Hit(e), e - Len(Pattern) >= end PROVE FALSE
  <2>1. e - s \in Len(Pattern) .. t - s /\ s + (e - s) = e
    BY <1>1, <1>3, <1>6, <1>15
  <2>2. e - s \in PromptEnds(bytes)
    BY <1>4, <1>15, <2>1
  <2>3. e - s <= last
    BY <2>2 DEF bytes
  <2> QED
    BY <1>1, <1>3, <1>6, <1>15, <2>3
<1>16. LookupsInv'
  <2>1. \A i \in 1 .. n + 1 : looked'[i].at <= t
    BY <1>1, <1>11
  <2>2. \A i \in DOMAIN looked' :
          \E e \in 1 .. looked'[i].at :
                /\ Hit(e) /\ (i > 1 => looked'[i - 1].at < e)
                /\ Cardinality({f \in 1 .. e : Hit(f)}) >= i
    BY <1>11, <1>13
  <2>3. \A e \in 1 .. t : ~ (Hit(e) /\ e - Len(Pattern) >= end)
    BY <1>15
  <2>4. \A i \in DOMAIN looked' :
          /\ looked'[i].at <= shown'
          /\ \E e \in 1 .. looked'[i].at :
                /\ Hit(e)' /\ (i > 1 => looked'[i - 1].at < e)
                /\ Cardinality({f \in 1 .. e : Hit(f)'}) >= i
    <3>1. \A e : {f \in 1 .. e : Hit(f)'} = {f \in 1 .. e : Hit(f)}
      BY <1>0
    <3> QED
      BY <1>0, <1>11, <2>1, <2>2, <3>1
  <2>5. \A e \in 1 .. shown' : Hit(e)' /\ e - Len(Pattern) >= Start' => Last(looked').at < e
    BY <1>0, <1>9, <2>3
  <2> QED
    BY <2>4, <2>5 DEF LookupsInv
<1>17. ServedInv'
  BY <1>14 DEF ServedInv
<1> QED
  BY <1>10, <1>16, <1>17

(* One of the ends of the prompt is the last.                                *)
LEMMA LastEnd ==
    ASSUME NEW bytes \in Seq(Bytes), PromptEnds(bytes) # {}
    PROVE  \E e \in PromptEnds(bytes) : \A f \in PromptEnds(bytes) : f <= e
<1> DEFINE N == Len(bytes)
           E == PromptEnds(bytes)
           T == {N - e : e \in E}
<1>1. N \in Nat /\ \A e \in E : e \in Nat /\ e <= N
  BY PromptLen DEF PromptEnds
<1> HIDE DEF E, N
<1>2. T \in SUBSET Nat /\ T # {}
  BY <1>1 DEF E
<1>3. PICK m \in T : \A k \in T : m <= k
  <2> HIDE DEF T
  <2> QED
    BY <1>2, LeastNatural
<1>4. PICK e \in E : m = N - e
  BY <1>3
<1>5. \A f \in E : N - e <= N - f
  BY <1>3, <1>4
<1>6. \A f \in E : f <= e
  BY <1>1, <1>4, <1>5
<1> QED
  BY <1>4, <1>6 DEF E

-----------------------------------------------------------------------------
(* Refusals and lookups.                                                     *)

Refusals == Among(typed \o channel, {Refusal})

LEMMA CountsType == ASSUME TapTypes PROVE Refusals \in Nat /\ Among(looked, Found) \in Nat
<1>1. typed \o channel \in Seq(Nat)
  BY DEF TapTypes
<1>2. looked \in Seq([at : Nat, found : BOOLEAN])
  BY DEF TapTypes
<1>3. Among(looked, Found) \in Nat
  <2> DEFINE X == [at : Nat, found : BOOLEAN]
  <2>1. looked \in Seq(X)
    BY <1>2
  <2> HIDE DEF X
  <2> QED
    BY <2>1, AmongType
<1>4. Among(typed \o channel, {Refusal}) \in Nat
  BY <1>1, AmongType
<1> QED
  BY <1>3, <1>4 DEF Refusals

LEMMA LastAdded ==
    ASSUME NEW X, NEW s \in Seq(X), NEW x \in X
    PROVE  Append(s, x) # <<>> /\ Last(Append(s, x)) = x
<1>1. Len(Append(s, x)) = Len(s) + 1 /\ Append(s, x)[Len(s) + 1] = x /\ Append(s, x) \in Seq(X)
  OBVIOUS
<1> QED
  BY <1>1 DEF Last

LEMMA SendLast ==
    ASSUME NEW u \in Seq(Nat), NEW v \in Seq(Nat), NEW k \in Nat
    PROVE  u \o Append(v, k) = Append(u \o v, k)
<1> DEFINE a == u \o Append(v, k)
           b == Append(u \o v, k)
<1>1. /\ u \o v \in Seq(Nat) /\ Append(v, k) \in Seq(Nat) /\ Len(u) \in Nat /\ Len(v) \in Nat
      /\ Len(u \o v) = Len(u) + Len(v) /\ Len(Append(v, k)) = Len(v) + 1
  OBVIOUS
<1>2. a \in Seq(Nat) /\ Len(a) = Len(u) + Len(v) + 1
  BY <1>1
<1>3. b \in Seq(Nat) /\ Len(b) = Len(u) + Len(v) + 1
  BY <1>1
<1>4. \A i \in 1 .. Len(u) + Len(v) + 1 : a[i] = b[i]
  BY <1>1
<1> HIDE DEF a, b
<1>5. a = b
  BY <1>2, <1>3, <1>4
<1> QED
  BY <1>5 DEF a, b

LEMMA HeadMoves ==
    ASSUME NEW u \in Seq(Nat), NEW v \in Seq(Nat), v # <<>>
    PROVE  /\ Head(v) \in Nat /\ Tail(v) \in Seq(Nat)
           /\ Append(u, Head(v)) \o Tail(v) = u \o v
<1> DEFINE a == Append(u, Head(v)) \o Tail(v)
           b == u \o v
<1>1. /\ Len(u) \in Nat /\ Len(v) \in Nat /\ Len(v) >= 1
      /\ Head(v) = v[1] /\ v[1] \in Nat
      /\ Tail(v) \in Seq(Nat) /\ Len(Tail(v)) = Len(v) - 1
      /\ \A i \in 1 .. Len(v) - 1 : Tail(v)[i] = v[i + 1]
  OBVIOUS
<1>2. Append(u, Head(v)) \in Seq(Nat) /\ Len(Append(u, Head(v))) = Len(u) + 1
  BY <1>1
<1>3. a \in Seq(Nat) /\ Len(a) = Len(u) + Len(v)
  BY <1>1, <1>2
<1>4. b \in Seq(Nat) /\ Len(b) = Len(u) + Len(v)
  BY <1>1
<1>5. \A i \in 1 .. Len(u) + Len(v) : a[i] = b[i]
  BY <1>1, <1>2
<1> HIDE DEF a, b
<1>6. a = b
  BY <1>3, <1>4, <1>5
<1> QED
  BY <1>1, <1>6 DEF a, b

LEMMA SendCounts ==
    ASSUME TapTypes, NEW k \in Nat, channel' = Append(channel, k), typed' = typed
    PROVE  Refusals' = IF k = Refusal THEN Refusals + 1 ELSE Refusals
<1> DEFINE w == typed \o channel
<1>0. typed \in Seq(Nat) /\ channel \in Seq(Nat)
  BY DEF TapTypes
<1>1. w \in Seq(Nat) /\ typed' \o channel' = Append(w, k)
  BY <1>0, SendLast
<1>2. Refusals' = Among(Append(w, k), {Refusal})
  BY <1>1 DEF Refusals, Among
<1> HIDE DEF w
<1>3. Among(Append(w, k), {Refusal}) = IF k \in {Refusal} THEN Among(w, {Refusal}) + 1 ELSE Among(w, {Refusal})
  BY <1>1, AmongAppend
<1> QED
  BY <1>2, <1>3 DEF w, Refusals

LEMMA LookupCounts ==
    ASSUME TapTypes, NEW t \in Nat, NEW found \in BOOLEAN,
           looked' = Append(looked, [at |-> t, found |-> found])
    PROVE  Among(looked, Found)' = IF found THEN Among(looked, Found) + 1 ELSE Among(looked, Found)
<1> DEFINE X == [at : Nat, found : BOOLEAN]
           l == [at |-> t, found |-> found]
<1>1. looked \in Seq(X) /\ l \in X
  BY DEF TapTypes
<1>2. l \in Found <=> found
  BY <1>1 DEF Found
<1>3. looked' = Append(looked, l)
  OBVIOUS
<1> HIDE DEF X, l
<1>4. Among(Append(looked, l), Found) = IF l \in Found THEN Among(looked, Found) + 1 ELSE Among(looked, Found)
  BY <1>1, AmongAppend
<1>5. Among(looked, Found)' = Among(Append(looked, l), Found)
  BY <1>3 DEF Among, Found
<1> QED
  BY <1>2, <1>4, <1>5

-----------------------------------------------------------------------------
(* Every step keeps the invariant.                                           *)

LEMMA InitTap == TapInit => TapInv
<1> SUFFICES ASSUME TapInit PROVE TapInv
  OBVIOUS
<1>1. stream \in Seq(Bytes) /\ Len(stream) \in Nat /\ MaxKeys \in Nat /\ WindowMax \in Nat \ {0}
  BY TapAssumption DEF TapInit
<1>2. TapTypes
  BY <1>1 DEF TapInit, TapTypes
<1>2a. window = <<>> /\ shown = 0
  BY DEF TapInit
<1>3. Start = 0 /\ Len(window) = 0
  <2>1. Len(<<>>) = 0
    OBVIOUS
  <2>2. Len(window) = 0
    BY <1>2a, <2>1
  <2>3. Start = 0 - 0
    BY <1>2a, <2>2, Zenon DEF Start
  <2>4. 0 - 0 = 0
    OBVIOUS
  <2> QED
    BY <2>2, <2>3, <2>4
<1>4. SubSeq(stream, 1, 0) = <<>>
  BY <1>1
<1>5. WindowInv
  BY <1>1, <1>3, <1>4 DEF TapInit, WindowInv
<1>6. LookupsInv
  BY DEF TapInit, LookupsInv
<1>7. ~ Hit(shown)
  BY PromptLen DEF TapInit, Hit
<1>8. ServedInv
  BY <1>7 DEF ServedInv
<1>9. Refusals = 0
  <2>1. typed \o channel = <<>>
    BY DEF TapInit
  <2>2. {i \in 1 .. Len(typed \o channel) : (typed \o channel)[i] \in {Refusal}} = {}
    BY <2>1
  <2> QED
    BY <2>2, FS_EmptySet DEF Refusals, Among
<1>10. Refusals <= Among(looked, Found)
  BY <1>2, <1>9, CountsType
<1>11. ThreadsInv
  BY <1>10 DEF TapInit, ThreadsInv, Refusals
<1> QED
  BY <1>2, <1>5, <1>6, <1>8, <1>11 DEF TapInv

LEMMA ReadKeeps ==
    ASSUME TapInv, NEW n \in 1 .. BufSize, Read(n)
    PROVE  TapInv'
<1> DEFINE t == shown + n
<1>1. TapTypes /\ WindowInv /\ LookupsInv /\ ServedInv /\ ThreadsInv
  BY DEF TapInv
<1>2. /\ reader = "running" /\ shown \in Nat /\ written \in Nat /\ n \in Nat /\ n >= 1 /\ t \in Nat
      /\ shown < t /\ t <= written /\ shown' = t
      /\ UNCHANGED <<childVars, inputVars, writerVars, main>>
  BY <1>1, TapAssumption DEF Read, TapTypes
<1>3. UNCHANGED <<gating, stream, written, child, stdin, keys, writer, typed, main>>
  BY <1>2 DEF childVars, inputVars, writerVars
<1>4. Refusals \in Nat /\ Among(looked, Found) \in Nat /\ Refusals <= Among(looked, Found)
  BY <1>1, CountsType DEF ThreadsInv, Refusals
<1>5. main \notin {"writer", "returned"}
  BY <1>1, <1>2 DEF ThreadsInv
<1>6. ASSUME UNCHANGED <<looked, channel, reader>>
      PROVE  TapTypes' /\ ThreadsInv'
  <2>1. TapTypes'
    BY <1>1, <1>2, <1>3, <1>6 DEF TapTypes
  <2>2. Refusals' = Refusals /\ Among(looked, Found)' = Among(looked, Found)
    BY <1>3, <1>6 DEF Refusals, Among, Found
  <2>3. ThreadsInv'
    BY <1>2, <1>3, <1>4, <1>5, <1>6, <2>2 DEF ThreadsInv, Refusals
  <2> QED
    BY <2>1, <2>3
<1>7. CASE ~ gating
  <2>1. UNCHANGED <<window, looked, channel, reader>> /\ window = <<>>
    BY <1>1, <1>7 DEF Read, WindowInv
  <2>2. Start' = shown' /\ Len(window') = 0
    BY <1>2, <2>1 DEF Start
  <2>3. WindowInv'
    BY <1>2, <1>3, <1>7, <2>1, <2>2, TapAssumption DEF WindowInv
  <2>4. LookupsInv'
    <3>1. \A e : Hit(e)' <=> Hit(e)
      BY <1>3 DEF Hit
    <3>2. \A i \in DOMAIN looked : looked[i].at \in Nat /\ looked[i].at <= shown
      BY <1>1, LookedType DEF LookupsInv
    <3>3. \A i \in DOMAIN looked : looked[i].at <= t
      BY <1>2, <3>2
    <3>4. \A e \in 1 .. t : ~ (e - Len(Pattern) >= t)
      BY <1>2, PromptLen
    <3>5. \A i \in DOMAIN looked :
             \E e \in 1 .. looked[i].at :
                /\ Hit(e) /\ (i > 1 => looked[i - 1].at < e)
                /\ Cardinality({f \in 1 .. e : Hit(f)}) >= i
      BY <1>1 DEF LookupsInv
    <3>6. \A e \in 1 .. shown' : ~ (Hit(e)' /\ e - Len(Pattern)' >= Start')
      BY <1>2, <2>2, <3>4
    <3>7. \A i \in DOMAIN looked' :
             /\ looked'[i].at <= shown'
             /\ \E e \in 1 .. looked'[i].at :
                /\ Hit(e)' /\ (i > 1 => looked'[i - 1].at < e)
                /\ Cardinality({f \in 1 .. e : Hit(f)'}) >= i
      BY <1>2, <2>1, <3>1, <3>3, <3>5
    <3> QED
      BY <3>6, <3>7 DEF LookupsInv
  <2>5. ServedInv'
    BY <1>3, <1>7 DEF ServedInv
  <2> QED
    BY <1>6, <2>1, <2>3, <2>4, <2>5 DEF TapInv
<1>8. CASE gating
  <2>1. PICK s \in Start .. t :
              /\ Rolled(SubSeq(stream, shown + 1, t)) = SubSeq(stream, s + 1, t)
              /\ t - s <= WindowMax
              /\ s = Start \/ t - s = WindowMax
    BY <1>1, <1>2, <1>8, RolledIs
  <2> DEFINE bytes == SubSeq(stream, s + 1, t)
             ends == IF ValidText(bytes) THEN PromptEnds(bytes) ELSE {}
             last == CHOOSE e \in ends : \A f \in ends : f <= e
  <2>2. Search(bytes)
    BY <1>8, <2>1 DEF Read
  <2>3. CASE ends = {}
    <3>1. window' = bytes /\ UNCHANGED <<looked, channel, reader>>
      BY <2>2, <2>3 DEF Search
    <3>2. ~ (ValidText(bytes) /\ PromptEnds(bytes) # {})
      BY <2>3
    <3>3. WindowInv' /\ LookupsInv' /\ ServedInv'
      <4>1. window' = SubSeq(stream, s + 1, t) /\ ~ (ValidText(window') /\ PromptEnds(window') # {})
        BY <3>1, <3>2
      <4>2. UNCHANGED <<gating, stream, looked>>
        BY <1>3, <3>1
      <4> HIDE DEF t
      <4> QED
        BY <1>1, <1>2, <1>8, <2>1, <4>1, <4>2, MissStep
    <3> QED
      BY <1>6, <3>1, <3>3 DEF TapInv
  <2>4. CASE ends # {}
    <3>1. ends = PromptEnds(bytes)
      BY <2>4
    <3>2. bytes \in Seq(Bytes)
      <4>1. s \in Nat /\ s <= t
        BY <1>1, <1>2 DEF Start, WindowInv
      <4>2. stream \in Seq(Bytes) /\ t <= Len(stream)
        BY <1>1, <1>2, StreamType DEF TapTypes
      <4> HIDE DEF t
      <4> QED
        BY <1>2, <4>1, <4>2, Segment
    <3>3. \E e \in ends : \A f \in ends : f <= e
      <4> HIDE DEF bytes
      <4> QED
        BY <2>4, <3>1, <3>2, LastEnd
    <3>4. last \in ends /\ \A f \in ends : f <= last
      <4> HIDE DEF ends
      <4> QED
        BY <3>3
    <3>5. PICK found \in BOOLEAN :
             /\ looked' = Append(looked, [at |-> shown', found |-> found])
             /\ IF found /\ writer = "ended" THEN reader' = "ended" /\ UNCHANGED channel
                ELSE /\ channel' = IF found THEN Append(channel, Refusal) ELSE channel
                     /\ UNCHANGED reader
      BY <2>2, <2>4 DEF Search
    <3>6. window' = After(bytes, last)
      BY <2>2, <2>4 DEF Search
    <3>7. looked' = Append(looked, [at |-> t, found |-> found])
      BY <1>2, <3>5
    <3>8. WindowInv' /\ LookupsInv' /\ ServedInv'
      <4>1. PICK e : e = last
        OBVIOUS
      <4>2. /\ e \in PromptEnds(SubSeq(stream, s + 1, t))
            /\ \A f \in PromptEnds(SubSeq(stream, s + 1, t)) : f <= e
            /\ window' = After(SubSeq(stream, s + 1, t), e)
        BY <3>1, <3>4, <3>6, <4>1
      <4> HIDE DEF t, last, ends, bytes
      <4> QED
        BY <1>1, <1>2, <1>3, <1>8, <2>1, <3>7, <4>2, LookupStep
    <3>9. Among(looked, Found)' = IF found THEN Among(looked, Found) + 1 ELSE Among(looked, Found)
      <4> HIDE DEF t
      <4> QED
        BY <1>1, <1>2, <3>7, LookupCounts
    <3>10. TapTypes'
      <4>1. channel' \in Seq(Nat)
        <5>1. channel \in Seq(Nat) /\ Refusal \in Nat
          BY <1>1 DEF TapTypes, Refusal
        <5>2. Append(channel, Refusal) \in Seq(Nat)
          BY <5>1
        <5>3. channel' = channel \/ channel' = Append(channel, Refusal)
          BY <3>5
        <5> QED
          BY <5>1, <5>2, <5>3
      <4>2. looked' \in Seq([at : Nat, found : BOOLEAN])
        BY <1>1, <1>2, <3>7 DEF TapTypes
      <4>3. {reader', stdin', writer'} \subseteq {"running", "ended"}
        BY <1>1, <1>3, <3>5 DEF TapTypes
      <4> QED
        BY <1>1, <1>2, <1>3, <4>1, <4>2, <4>3 DEF TapTypes
    <3>11. Refusals' <= Among(looked, Found)'
      <4>1. CASE channel' = channel
        <5>1. Refusals' = Refusals
          BY <1>3, <4>1 DEF Refusals, Among
        <5> QED
          BY <1>4, <3>9, <5>1
      <4>2. CASE found /\ channel' = Append(channel, Refusal)
        <5>1. Refusals' = Refusals + 1
          BY <1>1, <1>3, <4>2, SendCounts DEF Refusal
        <5> QED
          BY <1>4, <3>9, <4>2, <5>1
      <4> QED
        BY <3>5, <4>1, <4>2
    <3>12. reader' = "ended" => looked' # <<>> /\ Last(looked').found
      <4>1. reader' = "ended" => found
        BY <1>2, <3>5
      <4> DEFINE X == [at : Nat, found : BOOLEAN]
                 l == [at |-> t, found |-> found]
      <4>2. looked' # <<>> /\ Last(looked') = l
        <5>1. looked \in Seq(X) /\ l \in X
          BY <1>1, <1>2 DEF TapTypes
        <5> HIDE DEF X, l
        <5>2. Append(looked, l) # <<>> /\ Last(Append(looked, l)) = l
          BY <5>1, LastAdded
        <5>3. looked' = Append(looked, l)
          BY <3>7 DEF l
        <5> QED
          BY <5>2, <5>3
      <4> QED
        BY <4>1, <4>2
    <3>13. ThreadsInv'
      BY <1>3, <1>5, <3>11, <3>12 DEF ThreadsInv, Refusals
    <3> QED
      BY <3>8, <3>10, <3>13 DEF TapInv
  <2> QED
    BY <2>3, <2>4
<1> QED
  BY <1>7, <1>8

(* The writer types what was sent, or drops it.                              *)
LEMMA TypeKeeps == ASSUME TapInv, Type PROVE TapInv'
<1>1. TapTypes /\ WindowInv /\ LookupsInv /\ ServedInv /\ ThreadsInv
  BY DEF TapInv
<1>2. /\ UNCHANGED <<gating, stream, written, child, shown, window, reader, looked, stdin, keys, writer, main>>
      /\ channel # <<>> /\ typed' = Append(typed, Head(channel)) /\ channel' = Tail(channel)
  BY DEF Type, childVars, readerVars, inputVars
<1>3. WindowInv' /\ LookupsInv' /\ ServedInv'
  BY <1>1, <1>2, SameReading
<1>4. typed \in Seq(Nat) /\ channel \in Seq(Nat) /\ channel # <<>>
  BY <1>1, <1>2 DEF TapTypes
<1>5. /\ Head(channel) \in Nat /\ Tail(channel) \in Seq(Nat)
      /\ Append(typed, Head(channel)) \o Tail(channel) = typed \o channel
  BY <1>4, HeadMoves
<1>6. TapTypes'
  BY <1>1, <1>2, <1>5 DEF TapTypes
<1>7. typed' \o channel' = typed \o channel
  BY <1>2, <1>5
<1>8. Refusals' = Refusals /\ Among(looked, Found)' = Among(looked, Found)
  BY <1>2, <1>7 DEF Refusals, Among, Found
<1>9. ThreadsInv'
  BY <1>1, <1>2, <1>8 DEF ThreadsInv, Refusals
<1> QED
  BY <1>3, <1>6, <1>9 DEF TapInv

LEMMA TypeFailsKeeps == ASSUME TapInv, TypeFails PROVE TapInv'
<1>1. TapTypes /\ WindowInv /\ LookupsInv /\ ServedInv /\ ThreadsInv
  BY DEF TapInv
<1>2. /\ UNCHANGED <<gating, stream, written, child, shown, window, reader, looked, stdin, keys, typed, main>>
      /\ writer' = "ended" /\ channel' = <<>>
  BY DEF TypeFails, childVars, readerVars, inputVars
<1>3. WindowInv' /\ LookupsInv' /\ ServedInv'
  BY <1>1, <1>2, SameReading
<1>4. TapTypes'
  BY <1>1, <1>2 DEF TapTypes
<1>5. typed' \o channel' = typed /\ typed \in Seq(Nat) /\ channel \in Seq(Nat)
  BY <1>1, <1>2 DEF TapTypes
<1>6. Among(typed, {Refusal}) <= Among(typed \o channel, {Refusal})
  BY <1>5, AmongFront
<1>7. Refusals' = Among(typed, {Refusal}) /\ Among(looked, Found)' = Among(looked, Found)
  BY <1>2, <1>5 DEF Refusals, Among, Found
<1>8. Refusals \in Nat /\ Among(looked, Found) \in Nat /\ Among(typed, {Refusal}) \in Nat
  BY <1>1, <1>5, CountsType, AmongType
<1>9. Refusals' <= Among(looked, Found)'
  BY <1>1, <1>6, <1>7, <1>8 DEF ThreadsInv, Refusals
<1>10. ThreadsInv'
  BY <1>1, <1>2, <1>9 DEF ThreadsInv, Refusals
<1> QED
  BY <1>3, <1>4, <1>10 DEF TapInv

(* A key of the user is not a refusal.                                       *)
LEMMA KeyKeeps == ASSUME TapInv, Key PROVE TapInv'
<1>1. TapTypes /\ WindowInv /\ LookupsInv /\ ServedInv /\ ThreadsInv
  BY DEF TapInv
<1>2. /\ UNCHANGED <<gating, stream, written, child, shown, window, reader, looked, writer, typed, main>>
      /\ keys < MaxKeys /\ keys' = keys + 1
      /\ IF writer = "ended" THEN stdin' = "ended" /\ UNCHANGED channel
         ELSE channel' = Append(channel, keys') /\ UNCHANGED stdin
  BY DEF Key, childVars, readerVars, writerVars
<1>3. WindowInv' /\ LookupsInv' /\ ServedInv'
  BY <1>1, <1>2, SameReading
<1>4. keys \in Nat /\ keys' \in Nat /\ keys' \in 0 .. MaxKeys /\ keys' # Refusal
  BY <1>1, <1>2, TapAssumption DEF TapTypes, Refusal
<1>5. channel' \in Seq(Nat)
  <2>1. channel \in Seq(Nat)
    BY <1>1 DEF TapTypes
  <2>2. Append(channel, keys') \in Seq(Nat)
    BY <1>4, <2>1
  <2>3. channel' = channel \/ channel' = Append(channel, keys')
    BY <1>2
  <2> QED
    BY <2>1, <2>2, <2>3
<1>6. stdin' \in {"running", "ended"}
  BY <1>1, <1>2 DEF TapTypes
<1>7. TapTypes'
  BY <1>1, <1>2, <1>4, <1>5, <1>6 DEF TapTypes
<1>8. Refusals' = Refusals
  <2>1. CASE channel' = channel
    BY <1>2, <2>1 DEF Refusals, Among
  <2>2. CASE channel' = Append(channel, keys')
    BY <1>1, <1>2, <1>4, <2>2, SendCounts
  <2> QED
    BY <1>2, <2>1, <2>2
<1>9. Among(looked, Found)' = Among(looked, Found)
  BY <1>2 DEF Among, Found
<1>10. ThreadsInv'
  BY <1>1, <1>2, <1>8, <1>9 DEF ThreadsInv, Refusals
<1> QED
  BY <1>3, <1>7, <1>10 DEF TapInv

(* A step that neither reads nor sends.                                      *)
LEMMA QuietStep ==
    ASSUME TapInv, TapTypes', UNCHANGED <<gating, stream, shown, window, looked, typed, channel>>,
           reader' = "ended" => \/ child' = "exited" /\ shown = written'
                                \/ looked # <<>> /\ Last(looked).found,
           main' \in {"writer", "returned"} => reader' = "ended"
    PROVE  TapInv'
<1>1. TapTypes /\ WindowInv /\ LookupsInv /\ ServedInv /\ ThreadsInv
  BY DEF TapInv
<1>2. WindowInv' /\ LookupsInv' /\ ServedInv'
  BY <1>1, SameReading
<1>3. Refusals' = Refusals /\ Among(looked, Found)' = Among(looked, Found)
  BY DEF Refusals, Among, Found
<1>4. ThreadsInv'
  BY <1>1, <1>3 DEF ThreadsInv, Refusals
<1> QED
  BY <1>2, <1>4 DEF TapInv

LEMMA TapStepInv == TapInv /\ [TapNext]_tapVars => TapInv'
<1> SUFFICES ASSUME TapInv, [TapNext]_tapVars PROVE TapInv'
  OBVIOUS
<1>1. TapTypes /\ WindowInv /\ LookupsInv /\ ServedInv /\ ThreadsInv
  BY DEF TapInv
<1> USE DEF childVars, readerVars, inputVars, writerVars
<1>3. CASE ChildWrites
  <2>1. TapTypes'
    BY <1>1, <1>3, StreamType DEF ChildWrites, TapTypes
  <2>2. UNCHANGED <<gating, stream, shown, window, looked, typed, channel>>
    BY <1>3 DEF ChildWrites
  <2>3. reader' = "ended" => \/ child' = "exited" /\ shown = written'
                             \/ looked # <<>> /\ Last(looked).found
    BY <1>1, <1>3 DEF ChildWrites, ThreadsInv
  <2>4. main' \in {"writer", "returned"} => reader' = "ended"
    BY <1>1, <1>3 DEF ChildWrites, ThreadsInv
  <2> QED
    BY <2>1, <2>2, <2>3, <2>4, QuietStep
<1>4. CASE ChildExits
  <2>1. TapTypes'
    BY <1>1, <1>4 DEF ChildExits, TapTypes
  <2>2. UNCHANGED <<gating, stream, shown, window, looked, typed, channel>>
    BY <1>4 DEF ChildExits
  <2>3. reader' = "ended" => \/ child' = "exited" /\ shown = written'
                             \/ looked # <<>> /\ Last(looked).found
    BY <1>1, <1>4 DEF ChildExits, ThreadsInv
  <2>4. main' \in {"writer", "returned"} => reader' = "ended"
    BY <1>1, <1>4 DEF ChildExits, ThreadsInv
  <2> QED
    BY <2>1, <2>2, <2>3, <2>4, QuietStep
<1>5. CASE Key
  BY <1>5, KeyKeeps
<1>6. CASE StdinEnds
  <2>1. TapTypes'
    BY <1>1, <1>6 DEF StdinEnds, TapTypes
  <2>2. UNCHANGED <<gating, stream, shown, window, looked, typed, channel>>
    BY <1>6 DEF StdinEnds
  <2>3. reader' = "ended" => \/ child' = "exited" /\ shown = written'
                             \/ looked # <<>> /\ Last(looked).found
    BY <1>1, <1>6 DEF StdinEnds, ThreadsInv
  <2>4. main' \in {"writer", "returned"} => reader' = "ended"
    BY <1>1, <1>6 DEF StdinEnds, ThreadsInv
  <2> QED
    BY <2>1, <2>2, <2>3, <2>4, QuietStep
<1>7. CASE ReadEnds
  <2>1. TapTypes'
    BY <1>1, <1>7 DEF ReadEnds, TapTypes
  <2>2. UNCHANGED <<gating, stream, shown, window, looked, typed, channel>>
    BY <1>7 DEF ReadEnds
  <2>3. reader' = "ended" => \/ child' = "exited" /\ shown = written'
                             \/ looked # <<>> /\ Last(looked).found
    BY <1>1, <1>7 DEF ReadEnds, ThreadsInv
  <2>4. main' \in {"writer", "returned"} => reader' = "ended"
    BY <1>1, <1>7 DEF ReadEnds, ThreadsInv
  <2> QED
    BY <2>1, <2>2, <2>3, <2>4, QuietStep
<1>8. CASE \E n \in 1 .. BufSize : Read(n)
  BY <1>8, ReadKeeps
<1>9. CASE Type
  BY <1>9, TypeKeeps
<1>10. CASE TypeFails
  BY <1>10, TypeFailsKeeps
<1>11. CASE WriterEnds
  <2>1. TapTypes'
    BY <1>1, <1>11 DEF WriterEnds, TapTypes
  <2>2. UNCHANGED <<gating, stream, shown, window, looked, typed, channel>>
    BY <1>11 DEF WriterEnds
  <2>3. reader' = "ended" => \/ child' = "exited" /\ shown = written'
                             \/ looked # <<>> /\ Last(looked).found
    BY <1>1, <1>11 DEF WriterEnds, ThreadsInv
  <2>4. main' \in {"writer", "returned"} => reader' = "ended"
    BY <1>1, <1>11 DEF WriterEnds, ThreadsInv
  <2> QED
    BY <2>1, <2>2, <2>3, <2>4, QuietStep
<1>12. CASE ChildReaped
  <2>1. TapTypes'
    BY <1>1, <1>12 DEF ChildReaped, Joined, TapTypes
  <2>2. UNCHANGED <<gating, stream, shown, window, looked, typed, channel>>
    BY <1>12 DEF ChildReaped, Joined
  <2>3. reader' = "ended" => \/ child' = "exited" /\ shown = written'
                             \/ looked # <<>> /\ Last(looked).found
    BY <1>1, <1>12 DEF ChildReaped, Joined, ThreadsInv
  <2>4. main' \in {"writer", "returned"} => reader' = "ended"
    BY <1>1, <1>12 DEF ChildReaped, Joined, ThreadsInv
  <2> QED
    BY <2>1, <2>2, <2>3, <2>4, QuietStep
<1>13. CASE JoinReader
  <2>1. TapTypes'
    BY <1>1, <1>13 DEF JoinReader, Joined, TapTypes
  <2>2. UNCHANGED <<gating, stream, shown, window, looked, typed, channel>>
    BY <1>13 DEF JoinReader, Joined
  <2>3. reader' = "ended" => \/ child' = "exited" /\ shown = written'
                             \/ looked # <<>> /\ Last(looked).found
    BY <1>1, <1>13 DEF JoinReader, Joined, ThreadsInv
  <2>4. main' \in {"writer", "returned"} => reader' = "ended"
    BY <1>1, <1>13 DEF JoinReader, Joined, ThreadsInv
  <2> QED
    BY <2>1, <2>2, <2>3, <2>4, QuietStep
<1>14. CASE JoinWriter
  <2>1. TapTypes'
    BY <1>1, <1>14 DEF JoinWriter, Joined, TapTypes
  <2>2. UNCHANGED <<gating, stream, shown, window, looked, typed, channel>>
    BY <1>14 DEF JoinWriter, Joined
  <2>3. reader' = "ended" => \/ child' = "exited" /\ shown = written'
                             \/ looked # <<>> /\ Last(looked).found
    BY <1>1, <1>14 DEF JoinWriter, Joined, ThreadsInv
  <2>4. main' \in {"writer", "returned"} => reader' = "ended"
    BY <1>1, <1>14 DEF JoinWriter, Joined, ThreadsInv
  <2> QED
    BY <2>1, <2>2, <2>3, <2>4, QuietStep
<1>15. CASE UNCHANGED tapVars
  <2>1. TapTypes'
    BY <1>1, <1>15 DEF tapVars, TapTypes
  <2>2. UNCHANGED <<gating, stream, shown, window, looked, typed, channel>>
    BY <1>15 DEF tapVars
  <2>3. reader' = "ended" => \/ child' = "exited" /\ shown = written'
                             \/ looked # <<>> /\ Last(looked).found
    BY <1>1, <1>15 DEF tapVars, ThreadsInv
  <2>4. main' \in {"writer", "returned"} => reader' = "ended"
    BY <1>1, <1>15 DEF tapVars, ThreadsInv
  <2> QED
    BY <2>1, <2>2, <2>3, <2>4, QuietStep
<1> QED
  BY <1>3, <1>4, <1>5, <1>6, <1>7, <1>8, <1>9, <1>10, <1>11, <1>12, <1>13, <1>14, <1>15
     DEF TapNext, ReaderStep, WriterStep, MainStep

LEMMA AlwaysTapInv == TapSpec => []TapInv
<1> QED
  BY InitTap, TapStepInv, PTL DEF TapSpec

-----------------------------------------------------------------------------
(* What the invariant says of the reader.                                    *)

LEMMA PrintedHits ==
    ASSUME TapInv
    PROVE  /\ PromptEnds(Printed) = {e \in Len(Pattern) .. shown : Hit(e)}
           /\ Printed \in Seq(Bytes) /\ Len(Printed) = shown
           /\ \A i \in 1 .. shown : Printed[i] = stream[i]
<1>1. stream \in Seq(Bytes) /\ shown \in Nat /\ shown <= Len(stream) /\ 0 \in Nat /\ 0 <= shown
  BY StreamType DEF TapInv, TapTypes
<1>2. PromptEnds(SubSeq(stream, 0 + 1, shown)) = {e \in Len(Pattern) .. shown - 0 : Hit(0 + e)}
  BY <1>1, SegmentHits
<1>3. /\ SubSeq(stream, 0 + 1, shown) \in Seq(Bytes)
      /\ Len(SubSeq(stream, 0 + 1, shown)) = shown - 0
      /\ \A i \in 1 .. shown - 0 : SubSeq(stream, 0 + 1, shown)[i] = stream[0 + i]
  BY <1>1, Segment
<1>4. 0 + 1 = 1 /\ shown - 0 = shown
  BY <1>1
<1>5. \A e \in Len(Pattern) .. shown : 0 + e = e
  OBVIOUS
<1>6. \A i \in 1 .. shown : 0 + i = i
  OBVIOUS
<1> QED
  BY <1>2, <1>3, <1>4, <1>5, <1>6 DEF Printed

LEMMA WindowIsNewest == ASSUME TapInv PROVE window = Newest(Printed, Len(window))
<1>1. /\ stream \in Seq(Bytes) /\ shown \in Nat /\ shown <= Len(stream) /\ Len(stream) \in Nat
      /\ window \in Seq(Bytes) /\ Len(window) \in Nat /\ Len(window) <= shown
  BY StreamType DEF TapInv, TapTypes, WindowInv
<1>2. /\ Printed \in Seq(Bytes) /\ Len(Printed) = shown
      /\ \A i \in 1 .. shown : Printed[i] = stream[i]
  BY PrintedHits
<1> DEFINE rest == SubSeq(Printed, shown - Len(window) + 1, shown)
<1>3. /\ rest \in Seq(Bytes) /\ Len(rest) = Len(window)
      /\ \A i \in 1 .. Len(window) : rest[i] = stream[shown - Len(window) + i]
  <2>1. Len(rest) = Len(window)
    BY <1>1, <1>2
  <2>2. \A i \in shown - Len(window) + 1 .. shown : Printed[i] \in Bytes
    BY <1>1, <1>2
  <2>3. rest \in Seq(Bytes)
    BY <1>1, <1>2, <2>2
  <2>4. \A i \in 1 .. Len(window) : rest[i] = Printed[shown - Len(window) + i]
    BY <1>1, <1>2
  <2>5. \A i \in 1 .. Len(window) : shown - Len(window) + i \in 1 .. shown
    BY <1>1
  <2> QED
    BY <1>2, <2>1, <2>3, <2>4, <2>5
<1>4. \A i \in 1 .. Len(window) : window[i] = stream[shown - Len(window) + i]
  <2>1. CASE gating
    <3>1. Start \in Nat /\ Start <= shown /\ shown - Start = Len(window) /\ Start = shown - Len(window)
      BY <1>1 DEF Start
    <3>2. window = SubSeq(stream, Start + 1, shown)
      BY <2>1 DEF TapInv, WindowInv
    <3>3. PICK s : s = Start
      OBVIOUS
    <3>4. window = SubSeq(stream, s + 1, shown) /\ s \in Nat /\ s <= shown
      BY <3>1, <3>2, <3>3
    <3>5. \A i \in 1 .. shown - s : SubSeq(stream, s + 1, shown)[i] = stream[s + i]
      BY <1>1, <3>4, Segment
    <3> QED
      BY <3>1, <3>3, <3>4, <3>5
  <2>2. CASE ~ gating
    <3>1. window = <<>>
      BY <2>2 DEF TapInv, WindowInv
    <3>2. Len(<<>>) = 0
      OBVIOUS
    <3> QED
      BY <3>1, <3>2
  <2> QED
    BY <2>1, <2>2
<1> HIDE DEF rest
<1>5. window = rest
  BY <1>1, <1>3, <1>4, SameBytes
<1>6. CASE shown > Len(window)
  BY <1>2, <1>5, <1>6 DEF Newest, rest
<1>7. CASE shown = Len(window)
  <2>1. \A i \in 1 .. shown : window[i] = Printed[i]
    BY <1>1, <1>2, <1>4, <1>7
  <2>2. window = Printed
    BY <1>1, <1>2, <1>7, <2>1, SameBytes
  <2>3. ~ (Len(Printed) > Len(window))
    BY <1>1, <1>2, <1>7
  <2> QED
    BY <2>2, <2>3 DEF Newest
<1> QED
  BY <1>1, <1>6, <1>7

(* The prompt is served: the window holds what was read since the last       *)
(* lookup, so one at its end is found, and found once.                       *)
THEOREM PromptsAreServed == TapSpec => []PromptIsServed
<1>1. ASSUME TapInv PROVE TapTypeOK
  <2>1. TapTypes /\ WindowInv
    BY <1>1 DEF TapInv
  <2>2. Len(window) <= WindowMax /\ window = Newest(Printed, Len(window))
    BY <1>1, <2>1, WindowIsNewest DEF WindowInv
  <2>3. shown \in 0 .. written /\ written \in 0 .. Len(stream)
    BY <2>1, StreamType DEF TapTypes
  <2> QED
    BY <2>1, <2>2, <2>3 DEF TapTypes, TapTypeOK
<1>2. ASSUME TapInv PROVE PromptIsLookedUp
  <2>1. shown \in PromptEnds(Printed) => Hit(shown)
    BY <1>2, PrintedHits
  <2> QED
    BY <1>2, <2>1 DEF TapInv, ServedInv, PromptIsLookedUp
<1>3. ASSUME TapInv PROVE PromptIsAnsweredOnce
  <2>1. TapTypes /\ LookupsInv /\ ThreadsInv
    BY <1>3 DEF TapInv
  <2>2. PromptEnds(Printed) = {e \in Len(Pattern) .. shown : Hit(e)} /\ shown \in Nat
    BY <1>3, <2>1, PrintedHits DEF TapTypes
  <2>3. ASSUME NEW i \in DOMAIN looked
        PROVE  LET from == IF i = 1 THEN 0 ELSE looked[i - 1].at
               IN \E e \in PromptEnds(Printed) :
                     from < e /\ e <= looked[i].at
                     /\ (i > 1 => Cardinality({f \in PromptEnds(Printed) : f <= e}) >= i)
    <3>1. PICK e \in 1 .. looked[i].at :
             /\ Hit(e) /\ (i > 1 => looked[i - 1].at < e)
             /\ Cardinality({f \in 1 .. e : Hit(f)}) >= i
      BY <2>1 DEF LookupsInv
    <3>2. i \in Nat \ {0} /\ looked[i].at \in Nat /\ looked[i].at <= shown
      BY <2>1, LookedType DEF LookupsInv
    <3>3. e \in PromptEnds(Printed) /\ e \in Nat /\ e >= 1 /\ e <= looked[i].at
      BY <2>2, <3>1, <3>2 DEF Hit
    <3>4. {f \in PromptEnds(Printed) : f <= e} = {f \in 1 .. e : Hit(f)}
      <4>1. \A f : Hit(f) => f \in Nat /\ f >= Len(Pattern) /\ f >= 1
        BY PromptLen DEF Hit
      <4> QED
        BY <2>2, <3>2, <3>3, <4>1
    <3>5. (IF i = 1 THEN 0 ELSE looked[i - 1].at) < e
      BY <3>1, <3>2, <3>3
    <3> QED
      BY <3>1, <3>3, <3>4, <3>5
  <2>4. Cardinality({i \in DOMAIN (typed \o channel) : (typed \o channel)[i] = Refusal}) = Refusals
    <3>1. typed \o channel \in Seq(Nat)
      BY <2>1 DEF TapTypes
    <3>2. DOMAIN (typed \o channel) = 1 .. Len(typed \o channel)
      BY <3>1
    <3> QED
      BY <3>2 DEF Refusals, Among
  <2>5. Cardinality({i \in DOMAIN looked : looked[i].found}) = Among(looked, Found)
    <3>1. DOMAIN looked = 1 .. Len(looked)
      BY <2>1, LookedType
    <3>2. \A i \in 1 .. Len(looked) : looked[i] \in Found <=> looked[i].found
      <4> DEFINE X == [at : Nat, found : BOOLEAN]
      <4>1. looked \in Seq(X)
        BY <2>1 DEF TapTypes
      <4> HIDE DEF X
      <4>2. \A i \in 1 .. Len(looked) : looked[i] \in X
        BY <4>1
      <4>3. Found = {l \in X : l.found}
        BY DEF Found, X
      <4> QED
        BY <4>2, <4>3
    <3>3. {i \in DOMAIN looked : looked[i].found} = {i \in 1 .. Len(looked) : looked[i] \in Found}
      BY <3>1, <3>2
    <3> QED
      BY <3>3 DEF Among
  <2>6. Refusals <= Among(looked, Found)
    BY <2>1 DEF ThreadsInv, Refusals
  <2> QED
    BY <2>3, <2>4, <2>5, <2>6 DEF PromptIsAnsweredOnce
<1>4. ASSUME TapInv PROVE OutputIsComplete
  BY <1>4 DEF TapInv, ThreadsInv, OutputIsComplete
<1>5. TapInv => PromptIsServed
  BY <1>1, <1>2, <1>3, <1>4 DEF PromptIsServed
<1> QED
  BY <1>5, AlwaysTapInv, PTL

-----------------------------------------------------------------------------
(* The rules of the daemon (PolicyReload).                                   *)

QuietInv ==
    /\ (pc = "watch" /\ ~missed) => handle = file
    /\ (pc = "wait" /\ events = 0 /\ ~missed /\ Settled) => handle = file
    /\ (pc = "store" /\ events = 0) => loaded = file

ReloadInv == ReloadTypeOK /\ QuietInv

-----------------------------------------------------------------------------
(* Every line of a file that parses is a rule (RuleSet::load).               *)
LEMMA ParsedRules ==
    ASSUME NEW lines, lines = NoFile \/ lines \in Seq(Rule \cup {Malformed}), Parses(lines)
    PROVE  lines \in Seq(Rule)
<1>1. /\ lines \in Seq(Rule \cup {Malformed})
      /\ \A i \in DOMAIN lines : lines[i] # Malformed
  BY DEF Parses
<1>2. Len(lines) \in Nat /\ lines \in [1..Len(lines) -> Rule \cup {Malformed}]
  BY <1>1
<1>3. lines \in [1..Len(lines) -> Rule]
  BY <1>1, <1>2
<1> QED
  BY <1>2, <1>3

(* The user's steps change the file and tell the reloader.                   *)
UserStep == Replace \/ Delete \/ BeginWrite \/ WriteOn

LEMMA UserType == ASSUME ReloadTypeOK, UserStep PROVE ReloadTypeOK'
<1>1. events' \in Nat /\ missed' \in BOOLEAN
  <2>1. Notify
    BY DEF UserStep, Replace, Delete, BeginWrite, WriteOn
  <2>2. events' \in Nat
    BY <2>1 DEF Notify, ReloadTypeOK
  <2>3. missed' \in BOOLEAN
    BY <2>1 DEF Notify, ReloadTypeOK
  <2> QED
    BY <2>2, <2>3
<1>2. UNCHANGED <<pc, loaded, handle>>
  BY DEF UserStep, Replace, Delete, BeginWrite, WriteOn
<1>3. edits' \in 0..MaxEdits
  BY MaxEditsAssumption DEF UserStep, Replace, Delete, BeginWrite, WriteOn, Edit, ReloadTypeOK
<1>4. file' = NoFile \/ file' \in Seq(Rule \cup {Malformed})
  <2>1. CASE Replace
    BY <2>1, VersionsAssumption DEF Replace
  <2>2. CASE Delete
    BY <2>2 DEF Delete
  <2>3. CASE BeginWrite
    <3>1. <<>> \in Seq(Rule \cup {Malformed})
      OBVIOUS
    <3> QED
      BY <2>3, <3>1 DEF BeginWrite
  <2>4. CASE WriteOn
    <3>1. writing \in Seq(Rule \cup {Malformed})
      BY <2>4, VersionsAssumption DEF WriteOn, ReloadTypeOK
    <3>2. PICK n \in Len(file)..Len(writing) : file' = SubSeq(writing, 1, n)
      BY <2>4 DEF WriteOn
    <3>3. file # NoFile => Len(file) \in Nat
      BY DEF ReloadTypeOK
    <3> QED
      BY <3>1, <3>2, <3>3 DEF ReloadTypeOK
  <2> QED
    BY <2>1, <2>2, <2>3, <2>4 DEF UserStep
<1>5. writing' \in Versions \cup {NoFile}
  BY DEF UserStep, Replace, Delete, BeginWrite, WriteOn, ReloadTypeOK
<1> QED
  BY <1>1, <1>2, <1>3, <1>4, <1>5 DEF ReloadTypeOK

(* After a change every place of the reloader reads again, has an event      *)
(* queued, or has missed it.                                                 *)
LEMMA UserQuiet == ASSUME ReloadInv, UserStep PROVE QuietInv'
<1>1. Notify /\ UNCHANGED <<pc, loaded, handle>> /\ events \in Nat
  BY DEF UserStep, Replace, Delete, BeginWrite, WriteOn, ReloadInv, ReloadTypeOK
<1>2. pc \in {"wait", "store"} => events' # 0
  BY <1>1 DEF Notify
<1>3. pc = "watch" => missed'
  BY <1>1 DEF Notify
<1> QED
  BY <1>1, <1>2, <1>3 DEF QuietInv

(* The reloader's own steps.                                                 *)
LEMMA ReloaderStep ==
    ASSUME ReloadInv, Reloader
    PROVE  ReloadInv'
<1> USE DEF ReloadInv, Settled
<1>1. CASE FindPolicy
  <2>1. handle' = NoFile \/ handle' \in Seq(Rule)
    <3>1. <<>> \in Seq(Rule)
      OBVIOUS
    <3> QED
      BY <1>1, <3>1 DEF FindPolicy, ReloadTypeOK
  <2> QED
    BY <1>1, <2>1 DEF FindPolicy, ReloadTypeOK, QuietInv
<1>2. CASE Load
  <2>1. handle' = NoFile \/ handle' \in Seq(Rule)
    BY <1>2, ParsedRules DEF Load, ReloadTypeOK
  <2> QED
    BY <1>2, <2>1 DEF Load, ReloadTypeOK, QuietInv
<1>3. CASE Watch
  BY <1>3 DEF Watch, ReloadTypeOK, QuietInv
<1>4. CASE Wake
  BY <1>4 DEF Wake, ReloadTypeOK, QuietInv
<1>5. CASE ReadFile
  BY <1>5 DEF ReadFile, ReloadTypeOK, QuietInv
<1>6. CASE Store
  <2>1. handle' = NoFile \/ handle' \in Seq(Rule)
    BY <1>6, ParsedRules DEF Store, ReloadTypeOK
  <2>2. ReloadTypeOK'
    BY <1>6, <2>1 DEF Store, ReloadTypeOK
  <2>3. QuietInv'
    BY <1>6 DEF Store, QuietInv
  <2> QED
    BY <2>2, <2>3
<1> QED
  BY <1>1, <1>2, <1>3, <1>4, <1>5, <1>6 DEF Reloader

LEMMA ReloadInitInv == ReloadInit => ReloadInv
<1> SUFFICES ASSUME ReloadInit PROVE ReloadInv
  OBVIOUS
<1>1. file = NoFile \/ file \in Seq(Rule \cup {Malformed})
  BY VersionsAssumption DEF ReloadInit
<1>2. edits \in 0..MaxEdits
  BY MaxEditsAssumption DEF ReloadInit
<1>3. ReloadTypeOK
  BY <1>1, <1>2 DEF ReloadInit, ReloadTypeOK
<1>4. QuietInv
  BY DEF ReloadInit, QuietInv
<1> QED
  BY <1>3, <1>4 DEF ReloadInv

LEMMA ReloadStepInv == ReloadInv /\ [ReloadNext]_reload => ReloadInv'
<1> SUFFICES ASSUME ReloadInv, [ReloadNext]_reload PROVE ReloadInv'
  OBVIOUS
<1>1. CASE UserStep
  BY <1>1, UserType, UserQuiet DEF ReloadInv
<1>2. CASE Reloader
  BY <1>2, ReloaderStep
<1>3. CASE UNCHANGED reload
  BY <1>3 DEF reload, ReloadInv, ReloadTypeOK, QuietInv, Settled
<1> QED
  BY <1>1, <1>2, <1>3 DEF ReloadNext, UserStep

LEMMA AlwaysReloadInv == ReloadSpec => []ReloadInv
BY ReloadInitInv, ReloadStepInv, PTL DEF ReloadSpec

-----------------------------------------------------------------------------
(* Every variable keeps its type, whatever is saved and however it is        *)
(* written.                                                                  *)
THEOREM ReloadTypeCorrect == ReloadSpec => []ReloadTypeOK
<1>1. ReloadInv => ReloadTypeOK
  BY DEF ReloadInv
<1> QED
  BY <1>1, AlwaysReloadInv, PTL

(* The reloader never settles on an older file than the last one it was told *)
(* of (the callback reads after its sleep, watcher.rs).                      *)
THEOREM QuietIsCurrent == ReloadSpec => []CurrentWhenQuiet
<1>1. ReloadInv => CurrentWhenQuiet
  BY DEF ReloadInv, QuietInv, CurrentWhenQuiet
<1> QED
  BY <1>1, AlwaysReloadInv, PTL

-----------------------------------------------------------------------------
(* One deny rule that fires decides (Engine::eval's order).                  *)
LEMMA DenyDecides ==
    ASSUME NEW lines, NEW call, Firing(lines, "deny", call) # {}
    PROVE  Eval(lines, call).decision = "deny"
BY DEF Eval, First, Outcome

(* And a deny comes from nothing else.                                       *)
LEMMA OnlyDenyDenies ==
    ASSUME NEW lines, NEW call, Firing(lines, "deny", call) = {}
    PROVE  Eval(lines, call).decision # "deny"
BY DEF Eval, First, Outcome, DefaultAsk

(* What one line of a policy denies, the policy denies.                      *)
THEOREM DenySurvives == ReloadSpec => []DenyIsSticky
<1>1. ASSUME NEW call \in Calls, NEW i \in DOMAIN handle,
             Eval(<<handle[i]>>, call).decision = "deny"
      PROVE  Eval(handle, call).decision = "deny"
  <2>1. PICK j \in Firing(<<handle[i]>>, "deny", call) : TRUE
    BY <1>1, OnlyDenyDenies
  <2>2. handle[i].verb = "deny" /\ Fires(handle[i], call)
    BY <2>1 DEF Firing
  <2>3. i \in Firing(handle, "deny", call)
    BY <1>1, <2>2 DEF Firing
  <2> QED
    BY <2>3, DenyDecides
<1>2. DenyIsSticky
  BY <1>1 DEF DenyIsSticky
<1> QED
  BY <1>2, PTL

-----------------------------------------------------------------------------
(* eval and trace.                                                           *)

(* The lines of a verb.                                                      *)
Verbed(lines, verb) == {i \in DOMAIN lines : lines[i].verb = verb}

(* One verb's part of a ruleset: its lines, in the order of the file.        *)
LEMMA VerbGroup ==
    ASSUME NEW lines \in Seq(Rule), NEW verb
    PROVE  LET g == Only([i \in DOMAIN lines |-> i], Verbed(lines, verb))
           IN  /\ g \in Seq(DOMAIN lines)
               /\ \A k \in 1 .. Len(g) : lines[g[k]].verb = verb
               /\ \A i \in DOMAIN lines :
                      lines[i].verb = verb => \E k \in 1 .. Len(g) : g[k] = i
               /\ \A j, k \in 1 .. Len(g) : j < k => g[j] < g[k]
<1> DEFINE s == [i \in DOMAIN lines |-> i]
           T == Verbed(lines, verb)
           g == Only(s, T)
<1>1. s \in Seq(DOMAIN lines) /\ Len(s) = Len(lines) /\ DOMAIN lines = 1 .. Len(s)
  OBVIOUS
<1>2. \A i \in 1 .. Len(s) : s[i] = i
  BY <1>1
<1> HIDE DEF s
<1>3. g \in Seq(DOMAIN lines) /\ \E p : Places(p, g, s, Len(s), T)
  BY <1>1, OnlyPlaces
<1> HIDE DEF g
<1>4. PICK p : Places(p, g, s, Len(s), T)
  BY <1>3
<1>5. \A k \in 1 .. Len(g) : p[k] \in 1 .. Len(s) /\ g[k] = p[k] /\ g[k] \in T
  BY <1>2, <1>4 DEF Places
<1>6. \A i \in T : \E k \in 1 .. Len(g) : g[k] = i
  BY <1>1, <1>2, <1>4, <1>5 DEF Places, Verbed
<1>7. \A j, k \in 1 .. Len(g) : j < k => g[j] < g[k]
  BY <1>4, <1>5 DEF Places
<1>8. /\ \A k \in 1 .. Len(g) : lines[g[k]].verb = verb
      /\ \A i \in DOMAIN lines : lines[i].verb = verb => i \in T
  BY <1>5 DEF Verbed
<1> QED
  BY <1>3, <1>6, <1>7, <1>8 DEF g, s

(* Where the lines of a verb stand among all of them.                        *)
LEMMA GroupedLines ==
    ASSUME NEW lines \in Seq(Rule)
    PROVE  /\ Grouped(lines) \in Seq(DOMAIN lines)
           /\ \A verb \in Verbs : \A i \in DOMAIN lines :
                  lines[i].verb = verb =>
                      \E k \in 1 .. Len(Grouped(lines)) : Grouped(lines)[k] = i
           /\ \A j, k \in 1 .. Len(Grouped(lines)) :
                  LET a == Grouped(lines)[j]
                      b == Grouped(lines)[k]
                  IN  j < k => \/ lines[a].verb = lines[b].verb /\ a < b
                               \/ lines[a].verb = "deny" /\ lines[b].verb \in {"ask", "allow"}
                               \/ lines[a].verb = "ask" /\ lines[b].verb = "allow"
<1> DEFINE G(verb) == Only([i \in DOMAIN lines |-> i], Verbed(lines, verb))
           d == G("deny")
           a == G("ask")
           w == G("allow")
           g == d \o a \o w
<1>1. Grouped(lines) = g
  BY DEF Grouped, Verbed
<1>2. ASSUME NEW verb \in Verbs
      PROVE  /\ G(verb) \in Seq(DOMAIN lines)
             /\ \A k \in 1 .. Len(G(verb)) : lines[G(verb)[k]].verb = verb
             /\ \A i \in DOMAIN lines :
                    lines[i].verb = verb => \E k \in 1 .. Len(G(verb)) : G(verb)[k] = i
             /\ \A j, k \in 1 .. Len(G(verb)) : j < k => G(verb)[j] < G(verb)[k]
  BY VerbGroup
<1> HIDE DEF G
<1>3. d \in Seq(DOMAIN lines) /\ a \in Seq(DOMAIN lines) /\ w \in Seq(DOMAIN lines)
  BY <1>2 DEF Verbs
<1>4. /\ \A k \in 1 .. Len(d) : lines[d[k]].verb = "deny"
      /\ \A k \in 1 .. Len(a) : lines[a[k]].verb = "ask"
      /\ \A k \in 1 .. Len(w) : lines[w[k]].verb = "allow"
  BY <1>2 DEF Verbs
<1>5. /\ \A j, k \in 1 .. Len(d) : j < k => d[j] < d[k]
      /\ \A j, k \in 1 .. Len(a) : j < k => a[j] < a[k]
      /\ \A j, k \in 1 .. Len(w) : j < k => w[j] < w[k]
  BY <1>2 DEF Verbs
<1>6. \A i \in DOMAIN lines :
          /\ lines[i].verb = "deny" => \E k \in 1 .. Len(d) : d[k] = i
          /\ lines[i].verb = "ask" => \E k \in 1 .. Len(a) : a[k] = i
          /\ lines[i].verb = "allow" => \E k \in 1 .. Len(w) : w[k] = i
  BY <1>2 DEF Verbs
<1> HIDE DEF d, a, w
<1>7. /\ g \in Seq(DOMAIN lines)
      /\ Len(g) = Len(d) + Len(a) + Len(w)
      /\ Len(d) \in Nat /\ Len(a) \in Nat /\ Len(w) \in Nat
  BY <1>3
<1>8. \A k \in 1 .. Len(g) :
          \/ k \in 1 .. Len(d) /\ g[k] = d[k]
          \/ k - Len(d) \in 1 .. Len(a) /\ g[k] = a[k - Len(d)]
          \/ k - Len(d) - Len(a) \in 1 .. Len(w) /\ g[k] = w[k - Len(d) - Len(a)]
  BY <1>3, <1>7
<1>9. /\ \A k \in 1 .. Len(d) : k \in 1 .. Len(g) /\ g[k] = d[k]
      /\ \A k \in 1 .. Len(a) : k + Len(d) \in 1 .. Len(g) /\ g[k + Len(d)] = a[k]
      /\ \A k \in 1 .. Len(w) :
             k + Len(d) + Len(a) \in 1 .. Len(g) /\ g[k + Len(d) + Len(a)] = w[k]
  BY <1>3, <1>7
<1> HIDE DEF g
<1>10. \A verb \in Verbs : \A i \in DOMAIN lines :
           lines[i].verb = verb => \E k \in 1 .. Len(g) : g[k] = i
  <2> SUFFICES ASSUME NEW i \in DOMAIN lines, lines[i].verb \in Verbs
               PROVE  \E k \in 1 .. Len(g) : g[k] = i
    OBVIOUS
  <2>1. CASE lines[i].verb = "deny"
    BY <2>1, <1>6, <1>9
  <2>2. CASE lines[i].verb = "ask"
    BY <2>2, <1>6, <1>9
  <2>3. CASE lines[i].verb = "allow"
    BY <2>3, <1>6, <1>9
  <2> QED
    BY <2>1, <2>2, <2>3 DEF Verbs
<1>11. ASSUME NEW j \in 1 .. Len(g), NEW k \in 1 .. Len(g), j < k
       PROVE  \/ lines[g[j]].verb = lines[g[k]].verb /\ g[j] < g[k]
              \/ lines[g[j]].verb = "deny" /\ lines[g[k]].verb \in {"ask", "allow"}
              \/ lines[g[j]].verb = "ask" /\ lines[g[k]].verb = "allow"
  <2>1. j \in Nat /\ k \in Nat
    BY <1>7
  <2>2. CASE k \in 1 .. Len(d) /\ g[k] = d[k]
    <3>0. j \in 1 .. Len(d)
      BY <1>7, <1>11, <2>1, <2>2
    <3>1. j \in 1 .. Len(d) /\ g[j] = d[j]
      BY <1>9, <3>0
    <3> QED
      BY <1>4, <1>5, <1>11, <2>2, <3>1
  <2>3. CASE k - Len(d) \in 1 .. Len(a) /\ g[k] = a[k - Len(d)]
    <3>1. lines[g[k]].verb = "ask"
      BY <1>4, <2>3
    <3>2. CASE j \in 1 .. Len(d) /\ g[j] = d[j]
      BY <1>4, <3>1, <3>2
    <3>3. CASE j - Len(d) \in 1 .. Len(a) /\ g[j] = a[j - Len(d)]
      <4>1. j - Len(d) < k - Len(d)
        BY <1>7, <1>11, <2>1
      <4>2. g[j] < g[k]
        BY <1>5, <2>3, <3>3, <4>1
      <4> QED
        BY <1>4, <3>1, <3>3, <4>2
    <3>4. CASE j - Len(d) - Len(a) \in 1 .. Len(w) /\ g[j] = w[j - Len(d) - Len(a)]
      BY <1>7, <1>11, <2>1, <2>3, <3>4
    <3> QED
      BY <1>8, <3>2, <3>3, <3>4
  <2>4. CASE k - Len(d) - Len(a) \in 1 .. Len(w) /\ g[k] = w[k - Len(d) - Len(a)]
    <3>1. lines[g[k]].verb = "allow"
      BY <1>4, <2>4
    <3>2. CASE j \in 1 .. Len(d) /\ g[j] = d[j]
      BY <1>4, <3>1, <3>2
    <3>3. CASE j - Len(d) \in 1 .. Len(a) /\ g[j] = a[j - Len(d)]
      BY <1>4, <3>1, <3>3
    <3>4. CASE j - Len(d) - Len(a) \in 1 .. Len(w) /\ g[j] = w[j - Len(d) - Len(a)]
      <4>1. j - Len(d) - Len(a) < k - Len(d) - Len(a)
        BY <1>7, <1>11, <2>1
      <4>2. g[j] < g[k]
        BY <1>5, <2>4, <3>4, <4>1
      <4> QED
        BY <1>4, <3>1, <3>4, <4>2
    <3> QED
      BY <1>8, <3>2, <3>3, <3>4
  <2> QED
    BY <1>8, <2>2, <2>3, <2>4
<1>12. \A j, k \in 1 .. Len(g) :
           LET i == g[j]
               l == g[k]
           IN  j < k => \/ lines[i].verb = lines[l].verb /\ i < l
                        \/ lines[i].verb = "deny" /\ lines[l].verb \in {"ask", "allow"}
                        \/ lines[i].verb = "ask" /\ lines[l].verb = "allow"
  BY ONLY <1>11
<1>13. g \in Seq(DOMAIN lines)
  BY <1>7
<1> QED
  BY ONLY <1>1, <1>10, <1>12, <1>13

(* trace visits the lines one after the other.                               *)
Visiting(u, order, lines, call) ==
    /\ u[0] = Unvisited
    /\ \A n \in 1 .. Len(order) : u[n] = Visit(lines, call, u[n - 1], order[n])

LEMMA TraceVisits ==
    ASSUME NEW lines \in Seq(Rule), NEW call
    PROVE  \E u : /\ Visiting(u, Grouped(lines), lines, call)
                  /\ Trace(lines, call) = u[Len(Grouped(lines))]
<1> DEFINE order == Grouped(lines)
           N == Len(order)
           X == [decisive : SUBSET (DOMAIN lines),
                 outcome  : [decision : Verbs, line : DOMAIN lines] \cup {DefaultAsk}]
           base == Unvisited
           V(x, n) == Visit(lines, call, x, order[n])
           step == [n \in 1 .. N |-> [x \in X |-> V(x, n)]]
           Eq(f) == f = [n \in 0 .. N |-> IF n = 0 THEN Unvisited ELSE V(f[n - 1], n)]
           u == CHOOSE f : Eq(f)
<1>0. Trace(lines, call) = u[N]
  BY DEF Trace
<1>1. order \in Seq(DOMAIN lines)
  BY GroupedLines
<1> HIDE DEF order
<1>2. N \in Nat /\ \A n \in 1 .. N : order[n] \in DOMAIN lines
  BY <1>1
<1>3. base \in X
  BY DEF Unvisited
<1>4. \A n \in 1 .. N : \A x \in X : V(x, n) \in X
  <2> SUFFICES ASSUME NEW n \in 1 .. N, NEW x \in X PROVE V(x, n) \in X
    OBVIOUS
  <2> DEFINE i == order[n]
  <2>0. i \in DOMAIN lines
    BY <1>2
  <2> HIDE DEF i
  <2>0b. lines[i] \in Rule
    BY <2>0
  <2>1. i \in DOMAIN lines /\ lines[i].verb \in Verbs
    BY <2>0, <2>0b DEF Rule
  <2>2. Outcome(lines[i].verb, i) \in [decision : Verbs, line : DOMAIN lines]
    BY <2>1 DEF Outcome
  <2> HIDE DEF X
  <2>3. V(x, n) = [decisive |-> IF Fires(lines[i], call) /\ x.outcome = DefaultAsk
                                THEN x.decisive \cup {i} ELSE x.decisive,
                   outcome  |-> IF Fires(lines[i], call) /\ x.outcome = DefaultAsk
                                THEN Outcome(lines[i].verb, i) ELSE x.outcome]
    BY DEF Visit, i
  <2> USE DEF X
  <2> QED
    BY <2>1, <2>2, <2>3
<1> HIDE DEF N, X, V
<1>5. \A n \in 1 .. N : \A x \in X : step[n][x] = V(x, n)
  OBVIOUS
<1>6. step \in [1 .. N -> [X -> X]]
  BY <1>4
<1> HIDE DEF step, base, Eq, u
<1>7. \E f \in [0 .. N -> X] : Iterates(f, N, base, step)
  BY ONLY <1>2, <1>3, <1>6, Recursion
<1>8. PICK f \in [0 .. N -> X] : f[0] = base /\ \A n \in 1 .. N : f[n] = step[n][f[n - 1]]
  BY <1>7 DEF Iterates
<1>9. ASSUME NEW n \in 1 .. N PROVE f[n - 1] \in X /\ f[n] = V(f[n - 1], n)
  <2>1. n - 1 \in 0 .. N
    BY <1>2
  <2>2. f[n - 1] \in X
    BY <2>1
  <2>3. step[n][f[n - 1]] = V(f[n - 1], n)
    BY <1>5, <2>2
  <2> QED
    BY <1>8, <2>2, <2>3
<1>10. Eq(f)
  <2>1. f = [n \in 0 .. N |-> f[n]]
    BY <1>8
  <2>2. \A n \in 0 .. N : f[n] = IF n = 0 THEN Unvisited ELSE V(f[n - 1], n)
    <3>1. \A n \in 0 .. N : n = 0 \/ n \in 1 .. N
      BY <1>2
    <3> QED
      BY <1>8, <1>9, <3>1 DEF base
  <2> QED
    BY <2>1, <2>2 DEF Eq
<1>11. Eq(u)
  BY <1>10 DEF u
<1>12. u[0] = Unvisited /\ \A n \in 1 .. N : u[n] = V(u[n - 1], n)
  BY <1>2, <1>11 DEF Eq
<1>13. Visiting(u, order, lines, call)
  BY <1>12 DEF Visiting, V, N
<1> QED
  BY <1>0, <1>13 DEF order, N

(* The first line of the order that fires decides, and only it.              *)
LEMMA TraceDecides ==
    ASSUME NEW lines \in Seq(Rule), NEW call,
           NEW m \in 1 .. Len(Grouped(lines)),
           Fires(lines[Grouped(lines)[m]], call),
           \A n \in 1 .. m - 1 : ~ Fires(lines[Grouped(lines)[n]], call)
    PROVE  LET i == Grouped(lines)[m]
           IN  Trace(lines, call) = [decisive |-> {i}, outcome |-> Outcome(lines[i].verb, i)]
<1> DEFINE order == Grouped(lines)
           N == Len(order)
           i == order[m]
           D == [decisive |-> {i}, outcome |-> Outcome(lines[i].verb, i)]
<1>1. PICK u : Visiting(u, order, lines, call) /\ Trace(lines, call) = u[N]
  BY TraceVisits
<1>2. N \in Nat /\ i \in DOMAIN lines /\ m \in 1 .. N
  BY GroupedLines
<1>3. D.outcome # DefaultAsk
  BY <1>2 DEF Outcome, DefaultAsk
<1> DEFINE S == {n \in 0 .. N : u[n] = IF n < m THEN Unvisited ELSE D}
<1>4. 0 \in S
  BY <1>1, <1>2 DEF Visiting
<1>5. \A n \in 0 .. N - 1 : n \in S => n + 1 \in S
  <2> SUFFICES ASSUME NEW n \in 0 .. N - 1, n \in S PROVE n + 1 \in S
    OBVIOUS
  <2>1. n + 1 \in 1 .. N /\ n + 1 \in 0 .. N /\ (n + 1) - 1 = n
    BY <1>2
  <2>2. u[n + 1] = Visit(lines, call, u[n], order[n + 1])
    BY <1>1, <2>1 DEF Visiting
  <2>3. CASE n + 1 < m
    <3>1. u[n] = Unvisited /\ n + 1 \in 1 .. m - 1
      BY <2>1, <2>3, <1>2
    <3>2. ~ Fires(lines[order[n + 1]], call)
      BY <3>1
    <3>3. u[n + 1] = Unvisited
      BY <2>2, <3>1, <3>2 DEF Visit, Unvisited
    <3> QED
      BY <2>1, <2>3, <3>3
  <2>4. CASE n + 1 = m
    <3>1. u[n] = Unvisited
      BY <2>1, <2>4, <1>2
    <3>2. u[n + 1] = Visit(lines, call, Unvisited, i)
      BY <2>2, <2>4, <3>1
    <3>3. Unvisited.decisive \cup {i} = {i} /\ Unvisited.outcome = DefaultAsk
      BY DEF Unvisited
    <3>4. u[n + 1] = D
      BY <3>2, <3>3 DEF Visit
    <3> QED
      BY <2>1, <2>4, <3>4, <1>2
  <2>5. CASE m < n + 1
    <3>1. u[n] = D
      BY <2>1, <2>5, <1>2
    <3>2. u[n + 1] = D
      BY <1>3, <2>2, <3>1 DEF Visit
    <3> QED
      BY <2>1, <2>5, <3>2, <1>2
  <2> QED
    BY <1>2, <2>1, <2>3, <2>4, <2>5
<1> HIDE DEF S, N, D
<1>6. \A n \in 0 .. N : n \in S
  BY <1>2, <1>4, <1>5, CountUp
<1>7. N \in S /\ ~ (N < m)
  BY <1>2, <1>6
<1> QED
  BY <1>1, <1>7 DEF S, D

(* Without a line that fires nothing is noted.                               *)
LEMMA TraceOfNone ==
    ASSUME NEW lines \in Seq(Rule), NEW call,
           \A n \in 1 .. Len(Grouped(lines)) : ~ Fires(lines[Grouped(lines)[n]], call)
    PROVE  Trace(lines, call) = Unvisited
<1> DEFINE order == Grouped(lines)
           N == Len(order)
<1>1. PICK u : Visiting(u, order, lines, call) /\ Trace(lines, call) = u[N]
  BY TraceVisits
<1>2. N \in Nat
  BY GroupedLines
<1> DEFINE S == {n \in 0 .. N : u[n] = Unvisited}
<1>3. 0 \in S
  BY <1>1, <1>2 DEF Visiting
<1>4. \A n \in 0 .. N - 1 : n \in S => n + 1 \in S
  <2> SUFFICES ASSUME NEW n \in 0 .. N - 1, n \in S PROVE n + 1 \in S
    OBVIOUS
  <2>1. n + 1 \in 1 .. N /\ n + 1 \in 0 .. N /\ (n + 1) - 1 = n
    BY <1>2
  <2>2. u[n + 1] = Visit(lines, call, u[n], order[n + 1])
    BY <1>1, <2>1 DEF Visiting
  <2>3. u[n + 1] = Unvisited
    BY <2>1, <2>2 DEF Visit, Unvisited
  <2> QED
    BY <2>1, <2>3
<1> HIDE DEF S, N
<1>5. \A n \in 0 .. N : n \in S
  BY <1>2, <1>3, <1>4, CountUp
<1> QED
  BY <1>1, <1>2, <1>5 DEF S

(* The first line of a verb that fires.                                      *)
LEMMA LeastFiring ==
    ASSUME NEW lines \in Seq(Rule), NEW call, NEW verb, Firing(lines, verb, call) # {}
    PROVE  /\ Min(Firing(lines, verb, call)) \in Firing(lines, verb, call)
           /\ \A i \in Firing(lines, verb, call) : Min(Firing(lines, verb, call)) <= i
<1> DEFINE F == Firing(lines, verb, call)
<1>1. F \in SUBSET Nat
  BY DEF Firing
<1> HIDE DEF F
<1>2. \E m \in F : \A i \in F : m <= i
  BY <1>1, LeastNatural DEF F
<1>3. Min(F) = CHOOSE m \in F : \A i \in F : m <= i
  BY DEF Min
<1> QED
  BY <1>2, <1>3 DEF F

(* trace decides as eval does when the first line of a verb that fires has   *)
(* no line of a stronger verb that does.                                     *)
LEMMA TraceFollows ==
    ASSUME NEW lines \in Seq(Rule), NEW call, NEW verb \in Verbs,
           Firing(lines, verb, call) # {},
           verb = "ask" => Firing(lines, "deny", call) = {},
           verb = "allow" => Firing(lines, "deny", call) = {} /\ Firing(lines, "ask", call) = {}
    PROVE  /\ Trace(lines, call).outcome = First(lines, verb, call)
           /\ Trace(lines, call).decisive = {First(lines, verb, call).line}
           /\ First(lines, verb, call).line # 0
<1> DEFINE F == Firing(lines, verb, call)
           i == Min(F)
           order == Grouped(lines)
<1>1. i \in F /\ \A j \in F : i <= j
  BY LeastFiring
<1>2. First(lines, verb, call) = Outcome(verb, i)
  BY DEF First
<1> HIDE DEF i
<1>3. i \in DOMAIN lines /\ lines[i].verb = verb /\ Fires(lines[i], call)
  BY <1>1 DEF Firing
<1>4. PICK m \in 1 .. Len(order) : order[m] = i
  BY <1>3, GroupedLines
<1>5. order \in Seq(DOMAIN lines) /\ Len(order) \in Nat
  BY GroupedLines
<1>6. \A n \in 1 .. m - 1 : ~ Fires(lines[order[n]], call)
  <2> SUFFICES ASSUME NEW n \in 1 .. m - 1, Fires(lines[order[n]], call) PROVE FALSE
    OBVIOUS
  <2>1. n \in 1 .. Len(order) /\ n < m
    BY <1>5
  <2> DEFINE j == order[n]
  <2>2. j \in DOMAIN lines
    BY <1>5, <2>1
  <2>3. \/ lines[j].verb = lines[i].verb /\ j < i
        \/ lines[j].verb = "deny" /\ lines[i].verb \in {"ask", "allow"}
        \/ lines[j].verb = "ask" /\ lines[i].verb = "allow"
    BY <1>4, <2>1, GroupedLines
  <2> HIDE DEF j
  <2>4. j \in Firing(lines, lines[j].verb, call)
    BY <2>2 DEF Firing, j
  <2>5. CASE lines[j].verb = verb /\ j < i
    <3>1. i <= j
      BY <1>1, <2>4, <2>5
    <3> QED
      BY <1>3, <2>2, <2>5, <3>1
  <2> QED
    BY <1>3, <2>3, <2>4, <2>5
<1>7. Trace(lines, call) = [decisive |-> {i}, outcome |-> Outcome(verb, i)]
  BY <1>3, <1>4, <1>6, TraceDecides
<1>8. i # 0
  BY <1>3
<1> QED
  BY <1>2, <1>7, <1>8 DEF Outcome

(* eval and trace ask in the same order.                                     *)
LEMMA TraceAgrees ==
    ASSUME NEW lines \in Seq(Rule), NEW call
    PROVE  /\ Trace(lines, call).outcome = Eval(lines, call)
           /\ Trace(lines, call).decisive = {Eval(lines, call).line} \ {0}
<1> DEFINE F(verb) == Firing(lines, verb, call)
<1>1. CASE F("deny") # {}
  <2>1. Eval(lines, call) = First(lines, "deny", call)
    BY <1>1 DEF Eval
  <2> QED
    BY <1>1, <2>1, TraceFollows DEF Verbs
<1>2. CASE F("deny") = {} /\ F("ask") # {}
  <2>1. Eval(lines, call) = First(lines, "ask", call)
    BY <1>2 DEF Eval
  <2> QED
    BY <1>2, <2>1, TraceFollows DEF Verbs
<1>3. CASE F("deny") = {} /\ F("ask") = {} /\ F("allow") # {}
  <2>1. Eval(lines, call) = First(lines, "allow", call)
    BY <1>3 DEF Eval
  <2> QED
    BY <1>3, <2>1, TraceFollows DEF Verbs
<1>4. CASE F("deny") = {} /\ F("ask") = {} /\ F("allow") = {}
  <2>1. Eval(lines, call) = DefaultAsk
    BY <1>4 DEF Eval
  <2>2. ASSUME NEW i \in DOMAIN lines PROVE ~ Fires(lines[i], call)
    <3>0. lines[i] \in Rule
      OBVIOUS
    <3>1. lines[i].verb \in Verbs
      BY <3>0 DEF Rule
    <3> QED
      BY <1>4, <3>1 DEF Firing, Verbs
  <2>3. \A n \in 1 .. Len(Grouped(lines)) : Grouped(lines)[n] \in DOMAIN lines
    BY GroupedLines
  <2>4. Trace(lines, call) = Unvisited
    BY <2>2, <2>3, TraceOfNone
  <2> QED
    BY <2>1, <2>4 DEF Unvisited, DefaultAsk, Outcome
<1> QED
  BY <1>1, <1>2, <1>3, <1>4

(* What trace shows a user is what eval decided, under whatever rules come   *)
(* into force (Engine::trace).                                               *)
THEOREM TraceIsFaithful == ReloadSpec => []TraceExplainsEval
<1>1. ReloadInv => TraceExplainsEval
  <2> SUFFICES ASSUME ReloadInv, handle # NoFile, NEW call \in Calls
               PROVE  /\ Trace(handle, call).outcome = Eval(handle, call)
                      /\ Trace(handle, call).decisive = {Eval(handle, call).line} \ {0}
    BY DEF TraceExplainsEval
  <2>1. handle \in Seq(Rule)
    BY DEF ReloadInv, ReloadTypeOK
  <2> QED
    BY <2>1, TraceAgrees
<1> QED
  BY <1>1, AlwaysReloadInv, PTL
=============================================================================
