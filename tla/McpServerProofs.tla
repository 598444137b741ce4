-------------------------- MODULE McpServerProofs --------------------------
(***************************************************************************)
(* The MCP server: the rolling quota, for every quota, window and number   *)
(* of calls, whatever the stores behind it do; and the stores, for every   *)
(* feed, batch and number of failures: what they keep of an observation,   *)
(* what forget takes away, and what the tools then show.                   *)
(***************************************************************************)
EXTENDS McpServer, ListingProofs

(* How many of the admitted calls have given their permit back.              *)
Returned == Len(admitted) - Len(pending)

QuotaTypes ==
    /\ now \in Nat /\ permits \in Nat
    /\ pending \in Seq(Nat) /\ admitted \in Seq(Nat)
    /\ session \in {"closed", "open"}

(* A permit is in the pool or on its way back.                               *)
PermitsAccount ==
    /\ Len(pending) <= Len(admitted)
    /\ session = "open" => permits + Len(pending) = MaxPerWindow
    /\ session = "closed" => permits = 0 /\ pending = <<>> /\ admitted = <<>>

(* Calls come in the order of the clock.                                     *)
CallsInOrder == \A i \in DOMAIN admitted : admitted[i] <= now

(* The permits come back in the order of their calls, each a window later.   *)
PermitsFollowCalls ==
    /\ \A j \in DOMAIN pending : pending[j] = admitted[Returned + j] + Window
    /\ \A i \in 1 .. Returned : admitted[i] + Window <= now

(* The quota, over any window.                                               *)
Spaced ==
    \A i \in DOMAIN admitted :
        i + MaxPerWindow \in DOMAIN admitted => admitted[i + MaxPerWindow] - admitted[i] >= Window

QuotaInv == QuotaTypes /\ PermitsAccount /\ CallsInOrder /\ PermitsFollowCalls /\ Spaced

(* The session is closed and no call has come.                               *)
LEMMA InitQuota == Init => QuotaInv
BY DEF Init, MemoryInit, QuotaInv, QuotaTypes, PermitsAccount, CallsInOrder, PermitsFollowCalls,
       Spaced, Returned

(* The stores move the clock on, or leave it.                                *)
LEMMA ClockForward == ASSUME now \in Nat, MemoryNext PROVE now' \in Nat /\ now <= now'
<1>1. CASE \E b \in BOOLEAN : StartDaemon(b) BY <1>1 DEF StartDaemon
<1>2. CASE Fetch \/ StoreEpisode \/ Mark BY <1>2 DEF Fetch, StoreEpisode, Mark
<1>3. CASE CrashDaemon BY <1>3 DEF CrashDaemon
<1>4. CASE \E ok \in BOOLEAN : AddPromise(ok) \/ Supersede(ok) \/ InsertBelief(ok)
  BY <1>4 DEF AddPromise, Supersede, InsertBelief
<1>5. CASE \E scope \in Scopes : BeginForget(scope) BY <1>5 DEF BeginForget
<1>6. CASE Unlearn \/ ForgetStops
  <2>1. CASE Unlearn BY <2>1 DEF Unlearn
  <2>2. CASE ForgetStops BY <2>2 DEF ForgetStops
  <2> QED BY <1>6, <2>1, <2>2
<1>7. CASE \E ok \in BOOLEAN : AppendDeletion(ok) BY <1>7 DEF AppendDeletion
<1>8. CASE DestroyBrain \/ DestroyAudit \/ DestroyStops \/ Tick
  BY <1>8 DEF DestroyBrain, DestroyAudit, DestroyStops, Tick
<1> QED BY <1>1, <1>2, <1>3, <1>4, <1>5, <1>6, <1>7, <1>8 DEF MemoryNext

(* A step of the stores leaves the quota; only the clock may move.           *)
LEMMA StoresStep == ASSUME QuotaInv, MemoryNext, UNCHANGED mcpVars PROVE QuotaInv'
<1>1. now \in Nat BY DEF QuotaInv, QuotaTypes
<1>2. now' \in Nat /\ now <= now' BY <1>1, ClockForward
<1>3. QuotaTypes' BY <1>2 DEF QuotaInv, QuotaTypes, mcpVars
<1>4. PermitsAccount' /\ Spaced' BY DEF QuotaInv, PermitsAccount, Spaced, mcpVars
<1>5. CallsInOrder'
  BY <1>1, <1>2 DEF QuotaInv, QuotaTypes, CallsInOrder, mcpVars
<1>6. PermitsFollowCalls'
  <2>1. Returned' = Returned BY DEF Returned, mcpVars
  <2>2. \A i \in 1 .. Returned : admitted[i] \in Nat /\ Window \in Nat
    BY QuotaAssumption DEF QuotaInv, QuotaTypes, PermitsAccount, Returned
  <2> QED BY <1>1, <1>2, <2>1, <2>2 DEF QuotaInv, PermitsFollowCalls, mcpVars
<1> QED BY <1>3, <1>4, <1>5, <1>6 DEF QuotaInv

(* A session starts with every permit and ends with none on its way.         *)
LEMMA SessionStep == ASSUME QuotaInv, Connect \/ Disconnect PROVE QuotaInv'
<1>1. now' = now BY DEF Connect, Disconnect
<1>2. /\ pending' = <<>> /\ admitted' = <<>>
      /\ \/ session' = "open" /\ permits' = MaxPerWindow
         \/ session' = "closed" /\ permits' = 0
  BY DEF Connect, Disconnect
<1> QED BY <1>1, <1>2, QuotaAssumption
        DEF QuotaInv, QuotaTypes, PermitsAccount, CallsInOrder, PermitsFollowCalls, Spaced, Returned

(* A call takes a permit that comes back a window later.                     *)
LEMMA CallStep == ASSUME QuotaInv, Call PROVE QuotaInv'
<1> DEFINE n == Len(admitted)
<1>0. /\ now \in Nat /\ permits \in Nat /\ permits > 0
      /\ pending \in Seq(Nat) /\ admitted \in Seq(Nat)
      /\ session = "open" /\ session' = session /\ now' = now
      /\ permits' = permits - 1
      /\ pending' = Append(pending, now + Window) /\ admitted' = Append(admitted, now)
      /\ Len(pending) <= n /\ permits + Len(pending) = MaxPerWindow
      /\ Window \in Nat /\ MaxPerWindow \in Nat
  BY QuotaAssumption
  DEF QuotaInv, QuotaTypes, PermitsAccount, Call, ReleaseAt, memoryVars
<1>1. /\ Len(pending') = Len(pending) + 1 /\ Len(admitted') = n + 1
      /\ Returned' = Returned /\ Returned \in Nat
      /\ \A i \in 1 .. n : admitted'[i] = admitted[i] /\ admitted[i] \in Nat
      /\ admitted'[n + 1] = now
      /\ \A j \in 1 .. Len(pending) : pending'[j] = pending[j]
      /\ pending'[Len(pending) + 1] = now + Window
  BY <1>0 DEF Returned
<1>a. n \in Nat /\ now \in Nat /\ Window \in Nat /\ MaxPerWindow \in Nat BY <1>0
<1>b. Len(pending) \in Nat /\ Len(pending) <= n BY <1>0
<1>2. QuotaTypes' BY <1>0 DEF QuotaInv, QuotaTypes
<1>3. PermitsAccount'
  <2>1. Len(pending') <= Len(admitted') BY <1>0, <1>1
  <2>2. permits' + Len(pending') = MaxPerWindow BY <1>0, <1>1
  <2>3. session' # "closed" BY <1>0
  <2> QED BY <2>1, <2>2, <2>3 DEF PermitsAccount
<1>4. CallsInOrder' BY <1>0, <1>1 DEF QuotaInv, CallsInOrder
<1>5. PermitsFollowCalls'
  <2>1. \A j \in DOMAIN pending' : pending'[j] = admitted'[Returned' + j] + Window
    <3>0. DOMAIN pending' = 1 .. Len(pending) + 1 BY <1>0
    <3> SUFFICES ASSUME NEW j \in 1 .. Len(pending) + 1
                 PROVE  pending'[j] = admitted'[Returned + j] + Window
      BY <1>1, <3>0
    <3>1. CASE j = Len(pending) + 1
      <4>1. Returned + j = n + 1 BY <1>0, <3>1 DEF Returned
      <4> QED BY <1>1, <3>1, <4>1
    <3>2. CASE j \in 1 .. Len(pending)
      <4>1. Returned + j \in 1 .. n BY <1>0, <3>2 DEF Returned
      <4>2. j \in DOMAIN pending BY <1>0, <3>2
      <4>3. PermitsFollowCalls BY DEF QuotaInv
      <4>4. pending[j] = admitted[Returned + j] + Window
        BY <4>2, <4>3 DEF PermitsFollowCalls
      <4> QED BY <1>1, <3>2, <4>1, <4>4
    <3> QED BY <1>b, <3>1, <3>2
  <2>2. \A i \in 1 .. Returned' : admitted'[i] + Window <= now'
    <3> SUFFICES ASSUME NEW i \in 1 .. Returned PROVE admitted'[i] + Window <= now
      BY <1>0, <1>1
    <3>1. i \in 1 .. n BY <1>0 DEF Returned
    <3>p. PermitsFollowCalls BY DEF QuotaInv
    <3>2. admitted[i] + Window <= now BY <3>p DEF PermitsFollowCalls
    <3> QED BY <1>1, <3>1, <3>2
  <2> QED BY <2>1, <2>2 DEF PermitsFollowCalls
<1>6. Spaced'
  <2>d. DOMAIN admitted' = 1 .. n + 1 BY <1>0
  <2> SUFFICES ASSUME NEW i \in 1 .. n + 1, i + MaxPerWindow \in 1 .. n + 1
               PROVE  admitted'[i + MaxPerWindow] - admitted'[i] >= Window
    BY <2>d DEF Spaced
  <2>0. MaxPerWindow > 0 BY QuotaAssumption
  <2>1. i \in 1 .. n BY <1>0, <2>0
  <2>2. CASE i + MaxPerWindow \in 1 .. n
    <3>1. i \in DOMAIN admitted /\ i + MaxPerWindow \in DOMAIN admitted
      BY <1>0, <2>1, <2>2
    <3>2. admitted[i + MaxPerWindow] - admitted[i] >= Window
      BY <3>1 DEF QuotaInv, Spaced
    <3> QED BY <1>1, <2>1, <2>2, <3>2
  <2>3. CASE i + MaxPerWindow = n + 1
    <3>1. i \in 1 .. Returned BY <1>0, <2>1, <2>3 DEF Returned
    <3>p. PermitsFollowCalls BY DEF QuotaInv
    <3>2. admitted[i] + Window <= now BY <3>1, <3>p DEF PermitsFollowCalls
    <3>3. admitted'[i] = admitted[i] /\ admitted[i] \in Nat BY <1>1, <2>1
    <3>4. admitted'[i + MaxPerWindow] = now BY <1>1, <2>3
    <3> QED BY <1>a, <3>2, <3>3, <3>4
  <2> QED BY <1>a, <2>2, <2>3
<1> QED BY <1>2, <1>3, <1>4, <1>5, <1>6 DEF QuotaInv

(* A permit comes back no earlier than a window after its call.              *)
LEMMA GiveBackStep == ASSUME QuotaInv, GiveBack PROVE QuotaInv'
<1>0. /\ now \in Nat /\ permits \in Nat
      /\ pending \in Seq(Nat) /\ admitted \in Seq(Nat) /\ pending # <<>>
      /\ session' = session /\ now' = now /\ admitted' = admitted
      /\ permits' = permits + 1 /\ pending' = Tail(pending)
      /\ pending[1] <= now /\ Len(pending) <= Len(admitted)
      /\ Window \in Nat /\ MaxPerWindow \in Nat
  BY QuotaAssumption DEF QuotaInv, QuotaTypes, PermitsAccount, GiveBack, memoryVars
<1>1. /\ Len(pending) \in Nat \ {0} /\ Len(admitted) \in Nat
      /\ pending' \in Seq(Nat) /\ Len(pending') = Len(pending) - 1
      /\ \A j \in 1 .. Len(pending) - 1 : pending'[j] = pending[j + 1]
  BY <1>0
<1>a. permits \in Nat /\ permits' = permits + 1 BY <1>0
<1>b. Len(pending) \in Nat /\ Len(pending') = Len(pending) - 1 BY <1>1
<1>2. Returned' = Returned + 1 /\ Returned \in Nat BY <1>0, <1>1 DEF Returned
<1>3. QuotaTypes' BY <1>0, <1>1 DEF QuotaInv, QuotaTypes
<1>4. PermitsAccount'
  <2>1. Len(pending') <= Len(admitted') BY <1>0, <1>1
  <2>2. session = "open" BY <1>0 DEF QuotaInv, QuotaTypes, PermitsAccount
  <2>3. permits + Len(pending) = MaxPerWindow BY <2>2 DEF QuotaInv, PermitsAccount
  <2>4. permits' + Len(pending') = MaxPerWindow BY <1>a, <1>b, <2>3
  <2>5. session' # "closed" BY <1>0, <2>2
  <2> QED BY <2>1, <2>4, <2>5 DEF PermitsAccount
<1>5. CallsInOrder' /\ Spaced' BY <1>0 DEF QuotaInv, CallsInOrder, Spaced
<1>6. PermitsFollowCalls'
  <2>0. PermitsFollowCalls /\ DOMAIN pending = 1 .. Len(pending) BY <1>0 DEF QuotaInv
  <2>1. \A j \in 1 .. Len(pending) : pending[j] = admitted[Returned + j] + Window
    BY <2>0 DEF PermitsFollowCalls
  <2>2. \A j \in DOMAIN pending' : pending'[j] = admitted'[Returned' + j] + Window
    <3>0. DOMAIN pending' = 1 .. Len(pending) - 1 BY <1>1
    <3> SUFFICES ASSUME NEW j \in 1 .. Len(pending) - 1
                 PROVE  pending'[j] = admitted[Returned + 1 + j] + Window
      BY <1>0, <1>2, <3>0
    <3>1. j + 1 \in 1 .. Len(pending) /\ Returned + (j + 1) = Returned + 1 + j
      BY <1>1, <1>2
    <3>2. pending[j + 1] = admitted[Returned + (j + 1)] + Window BY <2>1, <3>1
    <3> QED BY <1>1, <3>1, <3>2
  <2>3. \A i \in 1 .. Returned' : admitted'[i] + Window <= now'
    <3> SUFFICES ASSUME NEW i \in 1 .. Returned + 1 PROVE admitted[i] + Window <= now
      BY <1>0, <1>2
    <3>1. CASE i \in 1 .. Returned BY <2>0, <3>1 DEF PermitsFollowCalls
    <3>2. CASE i = Returned + 1
      <4>1. pending[1] = admitted[Returned + 1] + Window BY <1>1, <2>1
      <4> QED BY <1>0, <3>2, <4>1
    <3> QED BY <1>2, <3>1, <3>2
  <2> QED BY <2>2, <2>3 DEF PermitsFollowCalls
<1> QED BY <1>3, <1>4, <1>5, <1>6 DEF QuotaInv

(* Every step keeps the invariant of the quota.                              *)
LEMMA NextQuota == QuotaInv /\ [Next]_vars => QuotaInv'
<1> SUFFICES ASSUME QuotaInv, [Next]_vars PROVE QuotaInv' OBVIOUS
<1>1. CASE MemoryNext /\ UNCHANGED mcpVars BY <1>1, StoresStep
<1>2. CASE Connect \/ Disconnect BY <1>2, SessionStep
<1>3. CASE Call BY <1>3, CallStep
<1>4. CASE GiveBack BY <1>4, GiveBackStep
<1>5. CASE UNCHANGED vars
  BY <1>5 DEF vars, memoryVars, mcpVars, QuotaInv, QuotaTypes, PermitsAccount, CallsInOrder,
             PermitsFollowCalls, Spaced, Returned
<1> QED BY <1>1, <1>2, <1>3, <1>4, <1>5 DEF Next

(* No interval as long as the window sees more calls than the quota, and no  *)
(* permit is lost, for every quota and every window, whatever the clock and  *)
(* the stores do between the calls (RateLimiter::check).                     *)
THEOREM QuotaRolls == Spec => []RollingQuota
<1>1. QuotaInv => RollingQuota
  BY DEF QuotaInv, PermitsAccount, Spaced, RollingQuota
<1> QED BY <1>1, InitQuota, NextQuota, PTL DEF Spec
-----------------------------------------------------------------------------
(* The stores behind the session.  An observation is through when what the   *)
(* watermark will say of it is so; the parts of StoresInv say how far the    *)
(* daemon is with the observations after the watermark, and that its crashes *)
(* and replays, forget and destroy take nothing of that back.                *)

PromiseRow == [obs : 1 .. Len(Feed), due : Int \cup {None}, with : Texts \cup {None},
               status : {"open"}, created : Nat]

BeliefRow == [obs : 1 .. Len(Feed), topic : Texts \cup {None}, from : Int,
              superseded : Int \cup {None}]

DaemonPlaces == {"down", "idle", "store", "promise", "supersede", "insert", "mark"}
InBatch == daemon.at \in {"store", "promise", "supersede", "insert", "mark"}

Steps == {"promise", "supersede", "belief", "forget", "receipt", "destroy"}

DaemonState ==
    [at : DaemonPlaces, seen : 0 .. Len(Feed), pos : 0 .. Len(Feed), last : 0 .. Len(Feed),
     brain : {"file", "gone"}, audit : {"file", "gone"}]

ForgetterState ==
    [at : {"idle", "unlearn"}, scope : Scopes \cup {None},
     left : SUBSET Episode, removed : SUBSET Episode]

UsedState == [crashes : Nat, failed : SUBSET Steps, forgets : Nat, destroys : Nat]

CoverState ==
    [obs : 1 .. Len(Feed), minted : Nat, mark : 0 .. Len(Feed), rest : SUBSET Episode]

PastState ==
    [ephemeral : SUBSET (1 .. Len(Feed)), unlearned : SUBSET Episode,
     forgotten : SUBSET CoverState, gap : SUBSET (1 .. Len(Feed)),
     missed : SUBSET ({"promise", "belief"} \X (1 .. Len(Feed)))]

USE DEF DaemonState, ForgetterState, UsedState, PastState

FileTypes ==
    /\ brain \in SUBSET Episode /\ minted \in Nat
    /\ promises \in Seq(PromiseRow) /\ beliefs \in Seq(BeliefRow)
    /\ mark \in 0 .. Len(Feed) /\ receipts \in Seq(Int)
    /\ holder \in {None, "daemon", "forget", "mcp"}

RunTypes ==
    /\ daemon \in DaemonState
    /\ forgetter \in ForgetterState
    /\ destroyer \in {"idle", "audit", "done"}
    /\ now \in Nat
    /\ used \in UsedState
    /\ past \in PastState

(* Where the daemon stands, and what it knows of the watermark.              *)
DaemonInv ==
    /\ daemon.pos <= daemon.last
    /\ InBatch => daemon.seen < daemon.pos
    /\ daemon.at = "mark" => daemon.pos = daemon.last
    /\ daemon.at \in {"supersede", "insert"} => Here.topic # None
    /\ daemon.at # "down" => IF daemon.audit = "file" THEN daemon.seen = mark ELSE mark = 0
    /\ destroyer = "done" => mark = 0 /\ daemon.audit = "gone"
    /\ destroyer # "idle" => used.destroys > 0

(* What there is of an observation.                                          *)
Stored(i) ==
    \/ \E e \in brain \cup past.unlearned : e.obs = i
    \/ i \in past.ephemeral
    \/ destroyer = "audit" \/ "destroy" \in used.failed

PromiseKept(i) ==
    \/ Feed[i].promise = None \/ <<"promise", i>> \in past.missed
    \/ \E j \in DOMAIN promises : promises[j].obs = i

BeliefKept(i) ==
    \/ Feed[i].topic = None \/ <<"belief", i>> \in past.missed
    \/ \E j \in DOMAIN beliefs : beliefs[j].obs = i

(* Its topic is not left without a current belief, and no older observation  *)
(* has the last word.                                                        *)
Repaired(i) == i \in past.gap => <<"belief", i>> \in past.missed

Overtaken(i) ==
    "supersede" \notin used.failed =>
        \A j \in DOMAIN beliefs :
            IsCurrent(beliefs[j]) /\ beliefs[j].topic = Feed[i].topic => i <= beliefs[j].obs

Through(i) == Stored(i) /\ PromiseKept(i) /\ BeliefKept(i) /\ Repaired(i) /\ Overtaken(i)

ThroughInv ==
    /\ \A i \in 1 .. mark : Through(i)
    /\ daemon.audit = "file" /\ InBatch =>
        /\ \A i \in daemon.seen + 1 .. daemon.pos - 1 : Through(i)
        /\ daemon.at # "store" => Stored(daemon.pos)
        /\ daemon.at \in {"supersede", "insert"} => PromiseKept(daemon.pos)
        /\ daemon.at = "mark" => Through(daemon.pos)

(* The table of beliefs.                                                     *)
RowsInv ==
    /\ \A j \in DOMAIN beliefs :
          beliefs[j].topic = Feed[beliefs[j].obs].topic /\ beliefs[j].topic # None
    /\ \A i \in past.gap : Feed[i].topic # None

OneCurrent ==
    "supersede" \notin used.failed =>
        /\ \A j, k \in DOMAIN beliefs :
              IsCurrent(beliefs[j]) /\ IsCurrent(beliefs[k])
              /\ beliefs[j].topic = beliefs[k].topic => j = k
        /\ daemon.at = "insert" =>
              \A j \in DOMAIN beliefs : beliefs[j].topic = Here.topic => ~ IsCurrent(beliefs[j])

TopicHeld ==
    \A j \in DOMAIN beliefs :
        \/ \E k \in DOMAIN beliefs : beliefs[k].topic = beliefs[j].topic /\ IsCurrent(beliefs[k])
        \/ \E i \in past.gap : Feed[i].topic = beliefs[j].topic

(* The episodes, and what forget does to them.                               *)
EpisodesInv ==
    /\ IsFiniteSet(brain) /\ IsFiniteSet(past.unlearned)
    /\ \A e \in brain \cup past.unlearned \cup forgetter.left : e.id <= minted
    /\ \A e, f \in brain : e.id = f.id => e = f
    /\ brain \cap past.unlearned = {} /\ forgetter.left \cap past.unlearned = {}
    /\ forgetter.removed \subseteq past.unlearned
    /\ forgetter.at = "idle" => forgetter.removed = {} /\ forgetter.left = {}

ReceiptsInv ==
    LET claimed == Total(receipts)
        running == Cardinality(forgetter.removed)
        gone    == Cardinality(past.unlearned)
    IN /\ claimed + running <= gone
       /\ used.failed \cap {"forget", "receipt"} = {} /\ used.destroys = 0 =>
             claimed + running = gone

(* The watermark does not go back behind a receipt that is still there, and  *)
(* the daemon stores only what is ahead of it.                               *)
ForgottenInv ==
    \A f \in past.forgotten :
        /\ f.minted <= minted /\ f.mark <= mark
        /\ \A e \in brain :
              e.obs = f.obs => e \in f.rest \/ (e.id > f.minted /\ e.obs > f.mark)

StoresInv ==
    /\ FileTypes /\ RunTypes /\ DaemonInv /\ ThroughInv /\ RowsInv /\ OneCurrent /\ TopicHeld
    /\ EpisodesInv /\ ReceiptsInv /\ ForgottenInv

(* The feed is a finite list of observations.                                *)
LEMMA FeedItems == Len(Feed) \in Nat /\ \A i \in 1 .. Len(Feed) : Feed[i] \in Observation
BY FeedAssumption

(* Nothing is stored and nobody runs.                                        *)
LEMMA InitStores == MemoryInit => StoresInv
<1> SUFFICES ASSUME MemoryInit PROVE StoresInv
  OBVIOUS
<1> USE DEF MemoryInit
<1>1. FileTypes
  <2>1. 0 \in 0 .. Len(Feed)
    BY FeedItems
  <2> QED
    BY <2>1 DEF FileTypes
<1>2. RunTypes
  BY FeedItems DEF RunTypes, Down, Resting, Past0, DaemonPlaces
<1>3. DaemonInv
  BY DEF DaemonInv, Down, InBatch
<1>4. ThroughInv
  BY DEF ThroughInv, Down
<1>5. RowsInv /\ TopicHeld
  BY DEF RowsInv, TopicHeld, Past0
<1>6. OneCurrent
  BY DEF OneCurrent, Down
<1>7. EpisodesInv
  BY FS_EmptySet DEF EpisodesInv, Resting, Past0
<1>8. ReceiptsInv
  BY FS_EmptySet, TotalEmpty DEF ReceiptsInv, Resting, Past0
<1>9. ForgottenInv
  BY DEF ForgottenInv, Past0
<1> QED
  BY <1>1, <1>2, <1>3, <1>4, <1>5, <1>6, <1>7, <1>8, <1>9 DEF StoresInv

(* Steps that write nothing the stores keep.                                 *)
LEMMA StoresFrame ==
    ASSUME StoresInv, holder' \in {None, "daemon", "forget", "mcp"}, now' \in Nat,
           UNCHANGED <<brain, minted, promises, beliefs, mark, receipts, daemon, forgetter,
                       destroyer, used, past>>
    PROVE  StoresInv'
<1>1. FileTypes' /\ RunTypes'
  BY DEF StoresInv, FileTypes, RunTypes
<1>2. DaemonInv'
  BY DEF StoresInv, DaemonInv, InBatch, Here
<1>3. ThroughInv'
  BY DEF StoresInv, ThroughInv, InBatch, Through, Stored, PromiseKept, BeliefKept, Repaired,
         Overtaken, IsCurrent
<1>4. RowsInv' /\ TopicHeld'
  BY DEF StoresInv, RowsInv, TopicHeld, IsCurrent
<1>5. OneCurrent'
  BY DEF StoresInv, OneCurrent, IsCurrent, Here
<1>6. EpisodesInv'
  BY DEF StoresInv, EpisodesInv
<1>7. ReceiptsInv' /\ ForgottenInv'
  BY DEF StoresInv, ReceiptsInv, ForgottenInv
<1> QED
  BY <1>1, <1>2, <1>3, <1>4, <1>5, <1>6, <1>7 DEF StoresInv

(* A step that leaves the rows leaves their topics.                          *)
LEMMA KeptTables ==
    ASSUME StoresInv, UNCHANGED beliefs, past'.gap = past.gap, used.failed \subseteq used'.failed
    PROVE  RowsInv' /\ TopicHeld'
BY DEF StoresInv, RowsInv, TopicHeld, IsCurrent

(* A step that leaves the brain leaves what is said of its episodes.         *)
LEMMA KeptEpisodes ==
    ASSUME StoresInv, UNCHANGED <<brain, minted, forgetter>>, past'.unlearned = past.unlearned
    PROVE  EpisodesInv'
BY DEF StoresInv, EpisodesInv

(* A step that neither deletes nor writes a receipt leaves the account.      *)
LEMMA KeptReceipts ==
    ASSUME StoresInv, UNCHANGED <<receipts, forgetter>>, past'.unlearned = past.unlearned,
           used.failed \subseteq used'.failed, used'.destroys = used.destroys
    PROVE  ReceiptsInv'
BY DEF StoresInv, ReceiptsInv

(* What an observation has keeps, while no row and no episode goes.          *)
LEMMA KeptStored ==
    ASSUME NEW i, Stored(i), brain \cup past.unlearned \subseteq brain' \cup past'.unlearned,
           past.ephemeral \subseteq past'.ephemeral, used.failed \subseteq used'.failed,
           destroyer = "audit" => destroyer' = "audit" \/ "destroy" \in used'.failed
    PROVE  Stored(i)'
BY DEF Stored

(* A row that is kept stays, and a statement that failed stays failed.       *)
LEMMA KeptRows ==
    ASSUME NEW i, PromiseKept(i), BeliefKept(i), UNCHANGED <<promises, beliefs>>,
           past.missed \subseteq past'.missed
    PROVE  PromiseKept(i)' /\ BeliefKept(i)'
BY DEF PromiseKept, BeliefKept

(* What no observation overtakes stays so while no belief is written.        *)
LEMMA KeptOrder ==
    ASSUME NEW i, Repaired(i), Overtaken(i), UNCHANGED beliefs,
           past.missed \subseteq past'.missed, past'.gap \subseteq past.gap,
           used.failed \subseteq used'.failed
    PROVE  Repaired(i)' /\ Overtaken(i)'
BY DEF Repaired, Overtaken, IsCurrent

(* A daemon starts at the watermark, or at 0 where there is none.            *)
LEMMA StartDaemonStores == ASSUME StoresInv, NEW b \in BOOLEAN, StartDaemon(b) PROVE StoresInv'
<1>0. /\ daemon' = [at |-> "idle", seen |-> mark, pos |-> 0, last |-> 0,
                    brain |-> IF b THEN "file" ELSE "gone", audit |-> "file"]
      /\ holder' \in {"daemon", holder}
      /\ destroyer' = IF destroyer = "done" THEN "idle" ELSE destroyer
      /\ UNCHANGED <<brain, minted, promises, beliefs, mark, receipts, forgetter, now, used, past>>
  BY DEF StartDaemon, Down, Resume
<1>1. FileTypes' /\ RunTypes'
  <2>1. FileTypes'
    BY <1>0 DEF StoresInv, FileTypes
  <2>2. mark \in 0 .. Len(Feed) /\ 0 \in 0 .. Len(Feed)
    BY FeedItems DEF StoresInv, FileTypes
  <2>3. daemon' \in DaemonState
    BY <1>0, <2>2 DEF DaemonPlaces
  <2>4. RunTypes'
    BY <1>0, <2>3 DEF StoresInv, RunTypes
  <2> QED
    BY <2>1, <2>4
<1>2. DaemonInv'
  BY <1>0 DEF StoresInv, DaemonInv, InBatch
<1>3. ThroughInv'
  <2>1. ASSUME NEW i \in 1 .. mark PROVE Through(i)'
    <3>1. Through(i)
      BY DEF StoresInv, ThroughInv
    <3>2. mark \in Nat /\ mark # 0
      BY DEF StoresInv, FileTypes
    <3>3. destroyer' = destroyer
      BY <1>0, <3>2 DEF StoresInv, DaemonInv
    <3> QED
      BY <1>0, <3>1, <3>3, KeptStored, KeptRows, KeptOrder DEF Through
  <2> QED
    BY <1>0, <2>1 DEF ThroughInv, InBatch
<1>4. RowsInv' /\ TopicHeld' /\ EpisodesInv' /\ ReceiptsInv'
  BY <1>0, KeptTables, KeptEpisodes, KeptReceipts
<1>5. OneCurrent'
  BY <1>0 DEF StoresInv, OneCurrent, IsCurrent
<1>6. ForgottenInv'
  BY <1>0 DEF StoresInv, ForgottenInv
<1> QED
  BY <1>1, <1>2, <1>3, <1>4, <1>5, <1>6 DEF StoresInv

(* A batch starts behind the last one.                                       *)
LEMMA FetchStores == ASSUME StoresInv, Fetch PROVE StoresInv'
<1>0. /\ daemon.at = "idle" /\ daemon.seen < Len(Feed)
      /\ daemon' = [daemon EXCEPT !.at = "store", !.pos = daemon.seen + 1, !.last = BatchEnd]
      /\ UNCHANGED <<brain, minted, promises, beliefs, mark, receipts, holder, forgetter,
                     destroyer, now, used, past>>
  BY DEF Fetch, files
<1>1. /\ daemon \in DaemonState
      /\ Len(Feed) \in Nat
  BY FeedItems DEF StoresInv, RunTypes
<1>2. BatchEnd \in daemon.seen + 1 .. Len(Feed) /\ daemon.seen + 1 \in 0 .. Len(Feed)
  BY <1>0, <1>1, BatchAssumption DEF BatchEnd
<1>3. /\ daemon'.at = "store" /\ daemon'.pos = daemon.seen + 1 /\ daemon'.last = BatchEnd
      /\ daemon'.seen = daemon.seen /\ daemon'.audit = daemon.audit
  BY <1>0, <1>1
<1>4. FileTypes' /\ RunTypes'
  <2>1. FileTypes'
    BY <1>0 DEF StoresInv, FileTypes
  <2>2. daemon' \in DaemonState
    <3>1. BatchEnd \in 0 .. Len(Feed) /\ "store" \in DaemonPlaces
      BY <1>1, <1>2 DEF DaemonPlaces
    <3> QED
      BY <1>0, <1>1, <1>2, <3>1
  <2>3. RunTypes'
    BY <1>0, <2>2 DEF StoresInv, RunTypes
  <2> QED
    BY <2>1, <2>3
<1>5. DaemonInv'
  BY <1>0, <1>1, <1>2, <1>3 DEF StoresInv, DaemonInv, InBatch
<1>6. ThroughInv'
  <2>1. ASSUME NEW i \in 1 .. mark PROVE Through(i)'
    BY <1>0, KeptStored, KeptRows, KeptOrder DEF Through, StoresInv, ThroughInv
  <2>2. \A i \in daemon'.seen + 1 .. daemon'.pos - 1 : FALSE
    BY <1>1, <1>3
  <2> QED
    BY <1>0, <1>3, <2>1, <2>2 DEF ThroughInv
<1>7. RowsInv' /\ TopicHeld' /\ EpisodesInv' /\ ReceiptsInv'
  BY <1>0, KeptTables, KeptEpisodes, KeptReceipts
<1>8. OneCurrent'
  BY <1>0, <1>3 DEF StoresInv, OneCurrent, IsCurrent
<1>9. ForgottenInv'
  BY <1>0 DEF StoresInv, ForgottenInv
<1> QED
  BY <1>4, <1>5, <1>6, <1>7, <1>8, <1>9 DEF StoresInv

(* A crash loses what the daemon knew and nothing that is stored.            *)
LEMMA CrashStores == ASSUME StoresInv, CrashDaemon PROVE StoresInv'
<1>0. /\ daemon' = Down /\ holder' \in {None, holder}
      /\ used' = [used EXCEPT !.crashes = @ + 1]
      /\ UNCHANGED <<brain, minted, promises, beliefs, mark, receipts, forgetter, destroyer,
                     now, past>>
  BY DEF CrashDaemon
<1>1. /\ used \in UsedState
      /\ 0 \in 0 .. Len(Feed)
  BY FeedItems DEF StoresInv, RunTypes
<1>2. used'.failed = used.failed /\ used'.destroys = used.destroys
  BY <1>0, <1>1
<1>3. FileTypes' /\ RunTypes'
  <2>1. FileTypes'
    BY <1>0 DEF StoresInv, FileTypes
  <2>2. daemon' \in DaemonState
    BY <1>0, <1>1 DEF Down, DaemonPlaces
  <2>3. used' \in UsedState
    BY <1>0, <1>1
  <2>4. RunTypes'
    BY <1>0, <2>2, <2>3 DEF StoresInv, RunTypes
  <2> QED
    BY <2>1, <2>4
<1>4. DaemonInv'
  BY <1>0, <1>2 DEF StoresInv, DaemonInv, InBatch, Down
<1>5. ThroughInv'
  <2>1. ASSUME NEW i \in 1 .. mark PROVE Through(i)'
    BY <1>0, <1>2, KeptStored, KeptRows, KeptOrder DEF Through, StoresInv, ThroughInv
  <2> QED
    BY <1>0, <2>1 DEF ThroughInv, Down
<1>6. RowsInv' /\ TopicHeld' /\ EpisodesInv' /\ ReceiptsInv'
  BY <1>0, <1>2, KeptTables, KeptEpisodes, KeptReceipts
<1>7. OneCurrent'
  BY <1>0, <1>2 DEF StoresInv, OneCurrent, IsCurrent, Down
<1>8. ForgottenInv'
  BY <1>0 DEF StoresInv, ForgottenInv
<1> QED
  BY <1>3, <1>4, <1>5, <1>6, <1>7, <1>8 DEF StoresInv

(* The daemon stores an observation after the watermark, if the audit db is  *)
(* the one it opened; otherwise there is no watermark.                       *)
LEMMA AheadOfMark ==
    ASSUME StoresInv, InBatch
    PROVE  /\ daemon.pos \in 1 .. Len(Feed) /\ mark < daemon.pos
           /\ daemon.audit = "file" => daemon.seen = mark
<1>1. /\ daemon.seen \in 0 .. Len(Feed) /\ daemon.pos \in 0 .. Len(Feed) /\ mark \in 0 .. Len(Feed)
      /\ Len(Feed) \in Nat
  BY FeedItems DEF StoresInv, RunTypes, FileTypes
<1>2. daemon.seen < daemon.pos /\ daemon.at # "down"
  BY DEF StoresInv, DaemonInv, InBatch
<1> QED
  BY <1>1, <1>2 DEF StoresInv, DaemonInv

(* An observation has an episode before its rows.                            *)
LEMMA StoreEpisodeStores == ASSUME StoresInv, StoreEpisode PROVE StoresInv'
<1>0. /\ daemon.at = "store" /\ daemon' = [daemon EXCEPT !.at = "promise"]
      /\ UNCHANGED <<promises, beliefs, mark, receipts, holder, forgetter, destroyer, now, used>>
  BY DEF StoreEpisode
<1>1. /\ daemon \in DaemonState
      /\ past \in PastState
      /\ brain \in SUBSET Episode /\ minted \in Nat /\ now \in Nat /\ Len(Feed) \in Nat
  BY FeedItems DEF StoresInv, RunTypes, FileTypes
<1>2. /\ daemon.pos \in 1 .. Len(Feed) /\ mark < daemon.pos
  BY <1>0, AheadOfMark DEF InBatch
<1>3. /\ daemon'.at = "promise" /\ daemon'.pos = daemon.pos /\ daemon'.last = daemon.last
      /\ daemon'.seen = daemon.seen /\ daemon'.audit = daemon.audit
  BY <1>0, <1>1
<1> DEFINE e == [id |-> minted + 1, obs |-> daemon.pos, at |-> now]
<1>4. e \in Episode /\ e.id = minted + 1 /\ e.obs = daemon.pos
  BY <1>1, <1>2 DEF Episode
<1> HIDE DEF e
<1>5. \/ /\ brain' = brain \cup {e} /\ minted' = minted + 1 /\ past' = past
      \/ /\ past' = [past EXCEPT !.ephemeral = @ \cup {daemon.pos}]
         /\ UNCHANGED <<brain, minted>>
  BY DEF StoreEpisode, e
<1>6. /\ past'.unlearned = past.unlearned /\ past'.forgotten = past.forgotten
      /\ past'.gap = past.gap /\ past'.missed = past.missed
      /\ past.ephemeral \subseteq past'.ephemeral
      /\ brain \subseteq brain' /\ minted <= minted'
  BY <1>1, <1>5
<1>7. FileTypes' /\ RunTypes'
  <2>1. FileTypes'
    BY <1>0, <1>1, <1>4, <1>5 DEF StoresInv, FileTypes
  <2>2. daemon' \in DaemonState
    BY <1>0, <1>1 DEF DaemonPlaces
  <2>3. past' \in PastState
    BY <1>1, <1>2, <1>5
  <2>4. RunTypes'
    BY <1>0, <2>2, <2>3 DEF StoresInv, RunTypes
  <2> QED
    BY <2>1, <2>4
<1>8. DaemonInv'
  BY <1>0, <1>3 DEF StoresInv, DaemonInv, InBatch
<1>9. ThroughInv'
  <2>1. ASSUME NEW i, Through(i) PROVE Through(i)'
    BY <1>0, <1>6, <2>1, KeptStored, KeptRows, KeptOrder DEF Through
  <2>2. Stored(daemon.pos)'
    <3>1. CASE brain' = brain \cup {e}
      BY <1>3, <1>4, <3>1 DEF Stored
    <3>2. CASE past' = [past EXCEPT !.ephemeral = @ \cup {daemon.pos}]
      BY <1>1, <1>3, <3>2 DEF Stored
    <3> QED
      BY <1>5, <3>1, <3>2
  <2>3. \A i \in 1 .. mark' : Through(i)'
    BY <1>0, <2>1 DEF StoresInv, ThroughInv
  <2>4. daemon.audit = "file" => \A i \in daemon.seen + 1 .. daemon.pos - 1 : Through(i)'
    BY <1>0, <2>1 DEF StoresInv, ThroughInv, InBatch
  <2> QED
    BY <1>3, <2>2, <2>3, <2>4 DEF ThroughInv
<1>10. RowsInv' /\ TopicHeld' /\ ReceiptsInv'
  BY <1>0, <1>6, KeptTables, KeptReceipts
<1>11. OneCurrent'
  BY <1>0, <1>3 DEF StoresInv, OneCurrent, IsCurrent
<1>12. EpisodesInv'
  <2>1. CASE UNCHANGED <<brain, minted>>
    BY <1>0, <1>6, <2>1, KeptEpisodes
  <2>2. CASE brain' = brain \cup {e} /\ minted' = minted + 1 /\ past' = past
    <3>0. /\ IsFiniteSet(brain) /\ IsFiniteSet(past.unlearned)
          /\ \A x \in brain \cup past.unlearned \cup forgetter.left : x.id <= minted
          /\ \A x, y \in brain : x.id = y.id => x = y
          /\ brain \cap past.unlearned = {} /\ forgetter.left \cap past.unlearned = {}
      BY DEF StoresInv, EpisodesInv
    <3>1. \A x \in brain \cup past.unlearned \cup forgetter.left : x.id \in Nat
      BY <1>1 DEF Episode, StoresInv, RunTypes
    <3>2. IsFiniteSet(brain')
      BY <2>2, <3>0, FS_AddElement
    <3>3. \A x \in brain \cup past.unlearned \cup forgetter.left : x.id < e.id /\ x.id <= minted'
      BY <1>1, <1>4, <2>2, <3>0, <3>1
    <3>4. e.id <= minted' /\ ~ (e.id < e.id)
      BY <1>1, <1>4, <2>2
    <3>5. \A x \in brain' \cup past'.unlearned \cup forgetter'.left : x.id <= minted'
      BY <1>0, <2>2, <3>3, <3>4
    <3>6. \A x, y \in brain' : x.id = y.id => x = y
      BY <2>2, <3>0, <3>3, <3>4
    <3>7. brain' \cap past'.unlearned = {}
      BY <2>2, <3>0, <3>3, <3>4
    <3> QED
      BY <1>0, <2>2, <3>0, <3>2, <3>5, <3>6, <3>7 DEF StoresInv, EpisodesInv
  <2> QED
    BY <1>5, <2>1, <2>2
<1>13. ForgottenInv'
  <2> SUFFICES ASSUME NEW f \in past.forgotten
               PROVE  /\ f.minted <= minted' /\ f.mark <= mark
                      /\ \A x \in brain' :
                            x.obs = f.obs => x \in f.rest \/ (x.id > f.minted /\ x.obs > f.mark)
    BY <1>0, <1>6 DEF ForgottenInv
  <2>1. /\ f.minted <= minted /\ f.mark <= mark
        /\ \A x \in brain :
              x.obs = f.obs => x \in f.rest \/ (x.id > f.minted /\ x.obs > f.mark)
    BY DEF StoresInv, ForgottenInv
  <2>2. f.minted \in Nat /\ f.mark \in Nat /\ mark \in Nat
    BY <1>1 DEF StoresInv, FileTypes, CoverState
  <2>3. f.minted <= minted'
    BY <1>1, <1>5, <2>1, <2>2
  <2>4. e.id > f.minted /\ e.obs > f.mark
    BY <1>1, <1>2, <1>4, <2>1, <2>2
  <2> QED
    BY <1>5, <2>1, <2>3, <2>4
<1> QED
  BY <1>7, <1>8, <1>9, <1>10, <1>11, <1>12, <1>13 DEF StoresInv

(* A statement that fails is one of the failures the bound counts.           *)
LEMMA StatementUsed ==
    ASSUME used \in UsedState, NEW table \in Steps, NEW ok \in BOOLEAN, Statement(table, ok)
    PROVE  /\ used' \in UsedState /\ used'.destroys = used.destroys
           /\ used'.failed = IF ok THEN used.failed ELSE used.failed \cup {table}
BY DEF Statement, Failed

(* A statement that fails is remembered for its observation.                 *)
LEMMA MissedType ==
    ASSUME past \in PastState, daemon.pos \in 1 .. Len(Feed),
           NEW table \in {"promise", "belief"}, NEW ok \in BOOLEAN
    PROVE  /\ Missed(table, ok) \in SUBSET ({"promise", "belief"} \X (1 .. Len(Feed)))
           /\ past.missed \subseteq Missed(table, ok)
BY DEF Missed

(* The next place of a batch.                                                *)
LEMMA OnwardDaemon ==
    ASSUME StoresInv, InBatch
    PROVE  /\ Onward \in DaemonState
           /\ Onward.seen = daemon.seen /\ Onward.last = daemon.last
           /\ Onward.audit = daemon.audit
           /\ \/ Onward.at = "store" /\ Onward.pos = daemon.pos + 1 /\ daemon.pos < daemon.last
              \/ Onward.at = "mark" /\ Onward.pos = daemon.pos /\ daemon.pos = daemon.last
<1>1. daemon \in DaemonState /\ daemon.pos <= daemon.last /\ Len(Feed) \in Nat
  BY FeedItems DEF StoresInv, RunTypes, DaemonInv
<1>2. daemon.pos \in Nat /\ daemon.last \in Nat /\ daemon.last <= Len(Feed)
  BY <1>1
<1>3. CASE daemon.pos < daemon.last
  <2>1. Onward = [daemon EXCEPT !.at = "store", !.pos = @ + 1]
    BY <1>3 DEF Onward
  <2>2. daemon.pos + 1 \in 0 .. Len(Feed) /\ "store" \in DaemonPlaces
    BY <1>1, <1>2, <1>3 DEF DaemonPlaces
  <2> QED
    BY <1>1, <1>3, <2>1, <2>2
<1>4. CASE daemon.pos = daemon.last
  <2>1. Onward = [daemon EXCEPT !.at = "mark"]
    BY <1>2, <1>4 DEF Onward
  <2>2. "mark" \in DaemonPlaces
    BY DEF DaemonPlaces
  <2> QED
    BY <1>1, <1>4, <2>1, <2>2
<1> QED
  BY <1>1, <1>2, <1>3, <1>4

(* An observation that is through lets the batch go on.                      *)
LEMMA OnwardStep ==
    ASSUME StoresInv, InBatch, daemon' = Onward, UNCHANGED <<mark, destroyer>>,
           used'.destroys = used.destroys,
           \A i \in 1 .. mark : Through(i)',
           daemon.audit = "file" => \A i \in daemon.seen + 1 .. daemon.pos : Through(i)'
    PROVE  DaemonInv' /\ ThroughInv'
<1>1. /\ daemon'.seen = daemon.seen /\ daemon'.last = daemon.last /\ daemon'.audit = daemon.audit
      /\ \/ daemon'.at = "store" /\ daemon'.pos = daemon.pos + 1 /\ daemon.pos < daemon.last
         \/ daemon'.at = "mark" /\ daemon'.pos = daemon.pos /\ daemon.pos = daemon.last
  BY OnwardDaemon
<1>2. daemon.pos \in Nat /\ daemon.last \in Nat /\ daemon.seen \in Nat /\ daemon.at # "down"
      /\ daemon.seen < daemon.pos
  BY FeedItems DEF StoresInv, RunTypes, InBatch, DaemonInv
<1>3. DaemonInv'
  BY <1>1, <1>2 DEF StoresInv, DaemonInv, InBatch
<1>4. ThroughInv'
  <2>1. CASE daemon'.at = "store" /\ daemon'.pos = daemon.pos + 1
    <3>1. daemon'.pos - 1 = daemon.pos
      BY <1>2, <2>1
    <3> QED
      BY <1>1, <2>1, <3>1 DEF ThroughInv
  <2>2. CASE daemon'.at = "mark" /\ daemon'.pos = daemon.pos
    <3>1. daemon.audit = "file" => \A i \in daemon.seen + 1 .. daemon.pos - 1 : Through(i)'
      BY <1>2
    <3>2. daemon.audit = "file" => Through(daemon.pos)'
      <4>1. daemon.pos \in daemon.seen + 1 .. daemon.pos
        BY <1>2
      <4>2. daemon'.pos = daemon.pos
        BY <2>2
      <4> QED
        BY <4>1, <4>2
    <3> QED
      BY <1>1, <2>2, <3>1, <3>2 DEF ThroughInv, Through
  <2> QED
    BY <1>1, <2>1, <2>2
<1> QED
  BY <1>3, <1>4

(* Rows are only added.                                                      *)
LEMMA GrownPromises ==
    ASSUME NEW i, PromiseKept(i), past.missed \subseteq past'.missed,
           \A j \in DOMAIN promises : j \in DOMAIN promises' /\ promises'[j] = promises[j]
    PROVE  PromiseKept(i)'
BY DEF PromiseKept

(* A table of beliefs that keeps its observations keeps their rows.          *)
LEMMA GrownBeliefs ==
    ASSUME NEW i, BeliefKept(i), past.missed \subseteq past'.missed,
           \A j \in DOMAIN beliefs : j \in DOMAIN beliefs' /\ beliefs'[j].obs = beliefs[j].obs
    PROVE  BeliefKept(i)'
BY DEF BeliefKept

(* The promise of an observation is written, or its failure remembered.      *)
LEMMA AddPromiseStores == ASSUME StoresInv, NEW ok \in BOOLEAN, AddPromise(ok) PROVE StoresInv'
<1>0. /\ daemon.at = "promise" /\ Statement("promise", ok) /\ (Here.promise = None => ok)
      /\ promises' = IF Here.promise = None \/ ~ok THEN promises
                     ELSE Append(promises, [obs |-> daemon.pos, due |-> Here.promise.due,
                                            with |-> Here.promise.with, status |-> "open",
                                            created |-> now])
      /\ daemon' = IF Here.topic = None THEN Onward ELSE [daemon EXCEPT !.at = "supersede"]
      /\ past' = [past EXCEPT !.missed = Missed("promise", ok)]
      /\ UNCHANGED <<brain, minted, beliefs, mark, receipts, holder, forgetter, destroyer, now>>
  BY DEF AddPromise
<1>1. /\ daemon \in DaemonState /\ past \in PastState /\ used \in UsedState
      /\ promises \in Seq(PromiseRow) /\ Len(Feed) \in Nat /\ now \in Nat
  BY FeedItems DEF StoresInv, RunTypes, FileTypes
<1>2. InBatch /\ daemon.pos \in 1 .. Len(Feed) /\ (daemon.audit = "file" => daemon.seen = mark)
  BY <1>0, AheadOfMark DEF InBatch
<1>3. Here \in Observation
  BY <1>2, FeedItems DEF Here
<1>4. /\ used' \in UsedState /\ used'.destroys = used.destroys /\ used.failed \subseteq used'.failed
  BY <1>0, <1>1, StatementUsed DEF Steps
<1>5. /\ past' \in PastState /\ past.missed \subseteq past'.missed
      /\ past'.missed = Missed("promise", ok)
      /\ past'.unlearned = past.unlearned /\ past'.forgotten = past.forgotten
      /\ past'.gap = past.gap /\ past'.ephemeral = past.ephemeral
  BY <1>0, <1>1, <1>2, MissedType
<1>6. /\ promises' \in Seq(PromiseRow)
      /\ \A j \in DOMAIN promises : j \in DOMAIN promises' /\ promises'[j] = promises[j]
      /\ Here.promise # None /\ ok => \E j \in DOMAIN promises' : promises'[j].obs = daemon.pos
  <2>1. CASE Here.promise = None \/ ~ok
    BY <1>0, <1>1, <2>1
  <2>2. CASE Here.promise # None /\ ok
    <3> DEFINE row == [obs |-> daemon.pos, due |-> Here.promise.due,
                       with |-> Here.promise.with, status |-> "open", created |-> now]
    <3>1. row \in PromiseRow /\ row.obs = daemon.pos
      BY <1>1, <1>2, <1>3, <2>2 DEF PromiseRow, Observation
    <3> HIDE DEF row
    <3>2. promises' = Append(promises, row)
      BY <1>0, <2>2 DEF row
    <3>3. Len(promises) \in Nat /\ DOMAIN promises = 1 .. Len(promises)
      BY <1>1
    <3>4. /\ promises' \in Seq(PromiseRow) /\ DOMAIN promises' = 1 .. Len(promises) + 1
          /\ promises'[Len(promises) + 1] = row
          /\ \A j \in 1 .. Len(promises) : promises'[j] = promises[j]
      BY <1>1, <3>1, <3>2
    <3> QED
      BY <3>1, <3>3, <3>4
  <2> QED
    BY <2>1, <2>2
<1>p. PICK p \in 1 .. Len(Feed) : p = daemon.pos
  BY <1>2
<1>7. PromiseKept(p)'
  BY <1>0, <1>5, <1>6, <1>p DEF PromiseKept, Missed, Here
<1>8. FileTypes' /\ RunTypes'
  <2>1. daemon' \in DaemonState
    <3>1. "supersede" \in DaemonPlaces
      BY DEF DaemonPlaces
    <3> QED
      BY <1>0, <1>1, <1>2, <3>1, OnwardDaemon
  <2> HIDE DEF DaemonState, UsedState, PastState
  <2>2. FileTypes'
    BY <1>0, <1>6 DEF StoresInv, FileTypes
  <2>3. RunTypes'
    BY <1>0, <1>4, <1>5, <2>1 DEF StoresInv, RunTypes
  <2> QED
    BY <2>2, <2>3
<1>9. ASSUME NEW i, Through(i) PROVE Through(i)'
  <2>1. Stored(i)'
    BY <1>0, <1>4, <1>5, <1>9, KeptStored DEF Through
  <2>2. PromiseKept(i)'
    BY <1>5, <1>6, <1>9, GrownPromises DEF Through
  <2>3. BeliefKept(i)'
    BY <1>0, <1>5, <1>9, GrownBeliefs DEF Through
  <2>4. Repaired(i)' /\ Overtaken(i)'
    BY <1>0, <1>4, <1>5, <1>9, KeptOrder DEF Through
  <2> QED
    BY <2>1, <2>2, <2>3, <2>4 DEF Through
<1>10. daemon.audit = "file" => Stored(p)'
  BY <1>0, <1>2, <1>4, <1>5, <1>p, KeptStored DEF StoresInv, ThroughInv
<1>11. /\ \A i \in 1 .. mark : Through(i)'
       /\ daemon.audit = "file" => \A i \in daemon.seen + 1 .. daemon.pos - 1 : Through(i)'
  BY <1>2, <1>9 DEF StoresInv, ThroughInv
<1>12. DaemonInv' /\ ThroughInv' /\ OneCurrent'
  <2>1. CASE Here.topic = None
    <3>1. daemon' = Onward
      BY <1>0, <2>1
    <3>2. BeliefKept(p)'
      BY <1>p, <2>1 DEF BeliefKept, Here
    <3>3. Repaired(p)' /\ Overtaken(p)'
      BY <1>0, <1>5, <1>p, <2>1 DEF Repaired, Overtaken, StoresInv, RowsInv, Here
    <3>4. daemon.audit = "file" => Through(p)'
      BY <1>7, <1>10, <3>2, <3>3 DEF Through
    <3>5. \A i \in daemon.seen + 1 .. daemon.pos : i \in daemon.seen + 1 .. daemon.pos - 1 \/ i = p
      BY <1>1, <1>p
    <3>6. daemon.audit = "file" => \A i \in daemon.seen + 1 .. daemon.pos : Through(i)'
      BY <1>11, <3>4, <3>5
    <3>7. DaemonInv' /\ ThroughInv'
      BY <1>0, <1>2, <1>4, <1>11, <3>1, <3>6, OnwardStep
    <3>8. daemon'.at # "insert"
      BY <1>2, <3>1, OnwardDaemon
    <3> QED
      BY <1>0, <1>4, <3>7, <3>8 DEF StoresInv, OneCurrent, IsCurrent
  <2>2. CASE Here.topic # None
    <3>1. /\ daemon'.at = "supersede" /\ daemon'.pos = daemon.pos /\ daemon'.last = daemon.last
          /\ daemon'.seen = daemon.seen /\ daemon'.audit = daemon.audit
      BY <1>0, <1>1, <2>2
    <3>2. DaemonInv'
      BY <1>0, <1>4, <2>2, <3>1 DEF StoresInv, DaemonInv, InBatch, Here
    <3>3. ThroughInv'
      BY <1>0, <1>7, <1>10, <1>11, <1>p, <3>1 DEF ThroughInv
    <3>4. OneCurrent'
      BY <1>0, <1>4, <3>1 DEF StoresInv, OneCurrent, IsCurrent
    <3> QED
      BY <3>2, <3>3, <3>4
  <2> QED
    BY <2>1, <2>2
<1>13. RowsInv' /\ TopicHeld' /\ EpisodesInv' /\ ReceiptsInv'
  BY <1>0, <1>4, <1>5, KeptTables, KeptEpisodes, KeptReceipts
<1>14. ForgottenInv'
  BY <1>0, <1>5 DEF StoresInv, ForgottenInv
<1> QED
  BY <1>8, <1>12, <1>13, <1>14 DEF StoresInv

(* The UPDATE leaves a gap on the topic, which only the INSERT closes.       *)
LEMMA SupersedeStores == ASSUME StoresInv, NEW ok \in BOOLEAN, Supersede(ok) PROVE StoresInv'
<1>0. /\ daemon.at = "supersede" /\ Statement("supersede", ok)
      /\ beliefs' = IF ok THEN Superseded(beliefs, Here.topic, Here.from) ELSE beliefs
      /\ past' = [past EXCEPT !.gap = IF beliefs' = beliefs THEN @ ELSE @ \cup {daemon.pos}]
      /\ daemon' = [daemon EXCEPT !.at = "insert"]
      /\ UNCHANGED <<brain, minted, promises, mark, receipts, holder, forgetter, destroyer, now>>
  BY DEF Supersede
<1>1. /\ daemon \in DaemonState /\ past \in PastState /\ used \in UsedState
      /\ beliefs \in Seq(BeliefRow) /\ Len(Feed) \in Nat /\ mark \in Nat
  BY FeedItems DEF StoresInv, RunTypes, FileTypes
<1>2. /\ InBatch /\ daemon.pos \in 1 .. Len(Feed) /\ mark < daemon.pos
      /\ (daemon.audit = "file" => daemon.seen = mark)
  BY <1>0, AheadOfMark DEF InBatch
<1>p. PICK p \in 1 .. Len(Feed) : p = daemon.pos
  BY <1>2
<1>3. Here = Feed[p] /\ Feed[p].from \in Int /\ Feed[p].topic # None
  BY <1>0, <1>p, FeedItems DEF Here, Observation, StoresInv, DaemonInv
<1>4. /\ used' \in UsedState /\ used'.destroys = used.destroys /\ used.failed \subseteq used'.failed
      /\ "supersede" \notin used'.failed => ok
  BY <1>0, <1>1, StatementUsed DEF Steps
<1>5. /\ past' \in PastState /\ past'.missed = past.missed
      /\ past'.unlearned = past.unlearned /\ past'.forgotten = past.forgotten
      /\ past'.gap = (IF beliefs' = beliefs THEN past.gap ELSE past.gap \cup {p})
      /\ past'.ephemeral = past.ephemeral
  BY <1>0, <1>1, <1>p
<1>6. /\ daemon'.at = "insert" /\ daemon'.pos = p /\ daemon'.last = daemon.last
      /\ daemon'.seen = daemon.seen /\ daemon'.audit = daemon.audit /\ daemon' \in DaemonState
  BY <1>0, <1>1, <1>p DEF DaemonPlaces
<1>7. /\ beliefs' \in Seq(BeliefRow) /\ DOMAIN beliefs' = DOMAIN beliefs
      /\ \A j \in DOMAIN beliefs :
            /\ beliefs'[j].obs = beliefs[j].obs /\ beliefs'[j].topic = beliefs[j].topic
            /\ IsCurrent(beliefs'[j]) <=>
                  IsCurrent(beliefs[j]) /\ (ok => beliefs[j].topic # Feed[p].topic)
  <2>1. CASE ~ ok
    BY <1>0, <1>1, <2>1
  <2>2. CASE ok
    <3>1. beliefs' = Superseded(beliefs, Feed[p].topic, Feed[p].from)
      BY <1>0, <1>3, <2>2
    <3> DEFINE over(r) == [r EXCEPT !.superseded = Feed[p].from - 1]
    <3>2. \A r \in BeliefRow : /\ over(r) \in BeliefRow /\ over(r).obs = r.obs
                               /\ over(r).topic = r.topic /\ ~ IsCurrent(over(r))
      <4>1. Feed[p].from - 1 \in Int /\ Feed[p].from - 1 # None
        BY <1>3, NoneAssumption
      <4> QED
        BY <4>1 DEF BeliefRow, IsCurrent
    <3>3. /\ Len(beliefs) \in Nat /\ DOMAIN beliefs = 1 .. Len(beliefs)
          /\ \A j \in DOMAIN beliefs : beliefs[j] \in BeliefRow
      BY <1>1
    <3>4. beliefs' = [j \in DOMAIN beliefs |->
                         IF beliefs[j].topic = Feed[p].topic /\ IsCurrent(beliefs[j])
                         THEN over(beliefs[j]) ELSE beliefs[j]]
      BY <3>1 DEF Superseded
    <3> HIDE DEF over
    <3>5. ASSUME NEW j \in DOMAIN beliefs
          PROVE  /\ beliefs'[j] \in BeliefRow
                 /\ beliefs'[j].obs = beliefs[j].obs /\ beliefs'[j].topic = beliefs[j].topic
                 /\ IsCurrent(beliefs'[j]) <=>
                       IsCurrent(beliefs[j]) /\ beliefs[j].topic # Feed[p].topic
      BY <3>2, <3>3, <3>4
    <3>6. DOMAIN beliefs' = DOMAIN beliefs
      BY <3>4
    <3>7. beliefs' \in [1 .. Len(beliefs) -> BeliefRow]
      BY <3>3, <3>4, <3>5
    <3>8. beliefs' \in Seq(BeliefRow)
      BY <3>3, <3>7
    <3> QED
      BY <2>2, <3>5, <3>6, <3>8
  <2> QED
    BY <2>1, <2>2
<1>8. FileTypes' /\ RunTypes'
  <2> HIDE DEF DaemonState, UsedState, PastState
  <2>1. FileTypes'
    BY <1>0, <1>7 DEF StoresInv, FileTypes
  <2>2. RunTypes'
    BY <1>0, <1>4, <1>5, <1>6 DEF StoresInv, RunTypes
  <2> QED
    BY <2>1, <2>2
<1>9. DaemonInv'
  BY <1>0, <1>3, <1>4, <1>6, <1>p DEF StoresInv, DaemonInv, InBatch, Here
<1>10. ASSUME NEW i, Through(i), i # p PROVE Through(i)'
  <2>1. Stored(i)'
    BY <1>0, <1>4, <1>5, <1>10, KeptStored DEF Through
  <2>2. PromiseKept(i)'
    BY <1>0, <1>5, <1>10 DEF Through, PromiseKept
  <2>3. BeliefKept(i)'
    BY <1>5, <1>7, <1>10, GrownBeliefs DEF Through
  <2>4. Repaired(i)'
    BY <1>5, <1>10 DEF Through, Repaired
  <2>5. Overtaken(i)'
    BY <1>4, <1>7, <1>10 DEF Through, Overtaken
  <2> QED
    BY <2>1, <2>2, <2>3, <2>4, <2>5 DEF Through
<1>11. ThroughInv'
  <2>1. \A i \in 1 .. mark : Through(i)'
    <3>1. \A i \in 1 .. mark : i # p
      BY <1>1, <1>2, <1>p
    <3> QED
      BY <1>10, <3>1 DEF StoresInv, ThroughInv
  <2>2. daemon.audit = "file" => \A i \in daemon.seen + 1 .. p - 1 : Through(i)'
    <3>1. \A i \in daemon.seen + 1 .. p - 1 : i # p
      BY <1>1
    <3> QED
      BY <1>2, <1>10, <1>p, <3>1 DEF StoresInv, ThroughInv
  <2>3. daemon.audit = "file" => Stored(p)' /\ PromiseKept(p)'
    <3>1. daemon.audit = "file" => Stored(p) /\ PromiseKept(p)
      BY <1>0, <1>2, <1>p DEF StoresInv, ThroughInv
    <3>2. PromiseKept(p) => PromiseKept(p)'
      BY <1>0, <1>5 DEF PromiseKept
    <3> QED
      BY <1>0, <1>4, <1>5, <3>1, <3>2, KeptStored
  <2> QED
    BY <1>0, <1>6, <2>1, <2>2, <2>3 DEF ThroughInv
<1>12. RowsInv'
  BY <1>3, <1>5, <1>7 DEF StoresInv, RowsInv
<1>13. OneCurrent'
  BY <1>3, <1>4, <1>6, <1>7, <1>p DEF StoresInv, OneCurrent, Here
<1>14. TopicHeld'
  <2> SUFFICES ASSUME NEW j \in DOMAIN beliefs
               PROVE  \/ \E k \in DOMAIN beliefs' :
                            beliefs'[k].topic = beliefs[j].topic /\ IsCurrent(beliefs'[k])
                      \/ \E i \in past'.gap : Feed[i].topic = beliefs[j].topic
    BY <1>7 DEF TopicHeld
  <2>1. CASE \E i \in past.gap : Feed[i].topic = beliefs[j].topic
    BY <1>5, <2>1
  <2>2. CASE \E k \in DOMAIN beliefs : beliefs[k].topic = beliefs[j].topic /\ IsCurrent(beliefs[k])
    <3>1. PICK k \in DOMAIN beliefs : beliefs[k].topic = beliefs[j].topic /\ IsCurrent(beliefs[k])
      BY <2>2
    <3>2. CASE ok => beliefs[k].topic # Feed[p].topic
      BY <1>7, <3>1, <3>2
    <3>3. CASE ok /\ beliefs[k].topic = Feed[p].topic
      <4>1. ~ IsCurrent(beliefs'[k])
        BY <1>7, <3>1, <3>3
      <4>2. beliefs' # beliefs
        BY <3>1, <4>1
      <4> QED
        BY <1>5, <3>1, <3>3, <4>2
    <3> QED
      BY <3>2, <3>3
  <2> QED
    BY <2>1, <2>2 DEF StoresInv, TopicHeld
<1>15. EpisodesInv' /\ ReceiptsInv'
  BY <1>0, <1>4, <1>5, KeptEpisodes, KeptReceipts
<1>16. ForgottenInv'
  BY <1>0, <1>5 DEF StoresInv, ForgottenInv
<1> QED
  BY <1>8, <1>9, <1>11, <1>12, <1>13, <1>14, <1>15, <1>16 DEF StoresInv

(* The INSERT closes the gap, and the observation is through.                *)
LEMMA InsertBeliefStores ==
    ASSUME StoresInv, NEW ok \in BOOLEAN, InsertBelief(ok) PROVE StoresInv'
<1>0. /\ daemon.at = "insert" /\ Statement("belief", ok)
      /\ beliefs' = IF ok THEN Inserted(beliefs) ELSE beliefs
      /\ past' = [past EXCEPT !.gap = IF ok THEN @ \ {daemon.pos} ELSE @,
                              !.missed = Missed("belief", ok)]
      /\ daemon' = Onward
      /\ UNCHANGED <<brain, minted, promises, mark, receipts, holder, forgetter, destroyer, now>>
  BY DEF InsertBelief
<1>1. /\ daemon \in DaemonState /\ past \in PastState /\ used \in UsedState
      /\ beliefs \in Seq(BeliefRow) /\ Len(Feed) \in Nat /\ mark \in Nat
  BY FeedItems DEF StoresInv, RunTypes, FileTypes
<1>2. /\ InBatch /\ daemon.pos \in 1 .. Len(Feed) /\ mark < daemon.pos
      /\ (daemon.audit = "file" => daemon.seen = mark)
  BY <1>0, AheadOfMark DEF InBatch
<1>p. PICK p \in 1 .. Len(Feed) : p = daemon.pos
  BY <1>2
<1>3. Here = Feed[p] /\ Feed[p] \in Observation /\ Feed[p].topic # None
  BY <1>0, <1>p, FeedItems DEF Here, StoresInv, DaemonInv
<1>4. /\ used' \in UsedState /\ used'.destroys = used.destroys /\ used.failed \subseteq used'.failed
  BY <1>0, <1>1, StatementUsed DEF Steps
<1>5. /\ past' \in PastState /\ past.missed \subseteq past'.missed
      /\ past'.missed = Missed("belief", ok)
      /\ past'.unlearned = past.unlearned /\ past'.forgotten = past.forgotten
      /\ past'.gap = (IF ok THEN past.gap \ {p} ELSE past.gap)
      /\ past'.ephemeral = past.ephemeral
  BY <1>0, <1>1, <1>2, <1>p, MissedType
<1>6. ~ ok => <<"belief", p>> \in past'.missed
  BY <1>5, <1>p DEF Missed
<1> DEFINE row == [obs |-> p, topic |-> Feed[p].topic, from |-> Feed[p].from, superseded |-> None]
<1>7. /\ row \in BeliefRow /\ row.obs = p /\ row.topic = Feed[p].topic /\ IsCurrent(row)
  BY <1>3 DEF BeliefRow, Observation, IsCurrent
<1>8. beliefs' = IF ok THEN Append(beliefs, row) ELSE beliefs
  BY <1>0, <1>3, <1>p DEF Inserted
<1> HIDE DEF row
<1> DEFINE n == Len(beliefs)
<1>9. /\ n \in Nat /\ DOMAIN beliefs = 1 .. n /\ beliefs' \in Seq(BeliefRow)
      /\ DOMAIN beliefs' = IF ok THEN 1 .. n + 1 ELSE 1 .. n
      /\ ok => beliefs'[n + 1] = row
      /\ \A j \in DOMAIN beliefs : j \in DOMAIN beliefs' /\ beliefs'[j] = beliefs[j]
  <2>1. CASE ~ ok
    BY <1>1, <1>8, <2>1
  <2>2. CASE ok
    <3>1. beliefs' = Append(beliefs, row)
      BY <1>8, <2>2
    <3> QED
      BY <1>1, <1>7, <2>2, <3>1
  <2> QED
    BY <2>1, <2>2
<1>10. \A j \in DOMAIN beliefs' : j \in DOMAIN beliefs \/ (ok /\ j = n + 1 /\ beliefs'[j] = row)
  BY <1>9
<1> HIDE DEF n
<1>11. FileTypes' /\ RunTypes'
  <2> HIDE DEF DaemonState, UsedState, PastState
  <2>1. FileTypes'
    BY <1>0, <1>9 DEF StoresInv, FileTypes
  <2>2. RunTypes'
    BY <1>0, <1>2, <1>4, <1>5, OnwardDaemon DEF StoresInv, RunTypes
  <2> QED
    BY <2>1, <2>2
<1>12. ASSUME NEW i \in Nat, Through(i), i < p PROVE Through(i)'
  <2>1. Stored(i)'
    BY <1>0, <1>4, <1>5, <1>12, KeptStored DEF Through
  <2>2. PromiseKept(i)'
    BY <1>0, <1>5, <1>12 DEF Through, PromiseKept
  <2>3. BeliefKept(i)'
    BY <1>5, <1>9, <1>12, GrownBeliefs DEF Through
  <2>4. Repaired(i)'
    BY <1>5, <1>12 DEF Through, Repaired
  <2>5. Overtaken(i)'
    BY <1>4, <1>7, <1>9, <1>10, <1>12 DEF Through, Overtaken
  <2> QED
    BY <2>1, <2>2, <2>3, <2>4, <2>5 DEF Through
<1>13. daemon.audit = "file" => Through(p)'
  <2> SUFFICES ASSUME daemon.audit = "file" PROVE Through(p)'
    OBVIOUS
  <2>1. Stored(p) /\ PromiseKept(p)
    BY <1>0, <1>2, <1>p DEF StoresInv, ThroughInv
  <2>2. Stored(p)'
    BY <1>0, <1>4, <1>5, <2>1, KeptStored
  <2>3. PromiseKept(p)'
    BY <1>0, <1>5, <2>1 DEF PromiseKept
  <2>4. BeliefKept(p)'
    <3>1. CASE ok
      <4>1. n + 1 \in DOMAIN beliefs' /\ beliefs'[n + 1].obs = p
        BY <1>7, <1>9, <3>1
      <4> QED
        BY <4>1 DEF BeliefKept
    <3>2. CASE ~ ok
      BY <1>6, <3>2 DEF BeliefKept
    <3> QED
      BY <3>1, <3>2
  <2>5. Repaired(p)'
    BY <1>5, <1>6 DEF Repaired
  <2>6. Overtaken(p)'
    <3> SUFFICES ASSUME "supersede" \notin used.failed, NEW j \in DOMAIN beliefs',
                        IsCurrent(beliefs'[j]), beliefs'[j].topic = Feed[p].topic
                 PROVE  p <= beliefs'[j].obs
      BY <1>4 DEF Overtaken
    <3>1. j \notin DOMAIN beliefs
      BY <1>0, <1>3, <1>9 DEF StoresInv, OneCurrent
    <3> QED
      BY <1>7, <1>10, <3>1
  <2> QED
    BY <2>2, <2>3, <2>4, <2>5, <2>6 DEF Through
<1>14. DaemonInv' /\ ThroughInv'
  <2>1. \A i \in 1 .. mark : Through(i)'
    <3>1. \A i \in 1 .. mark : i \in Nat /\ i < p
      BY <1>1, <1>2, <1>p
    <3> QED
      BY <1>12, <3>1 DEF StoresInv, ThroughInv
  <2>2. daemon.audit = "file" => \A i \in daemon.seen + 1 .. daemon.pos : Through(i)'
    <3>1. \A i \in daemon.seen + 1 .. daemon.pos :
             i = p \/ (i \in daemon.seen + 1 .. daemon.pos - 1 /\ i \in Nat /\ i < p)
      BY <1>1, <1>p
    <3> QED
      BY <1>2, <1>12, <1>13, <3>1 DEF StoresInv, ThroughInv
  <2> QED
    BY <1>0, <1>2, <1>4, <2>1, <2>2, OnwardStep
<1>15. RowsInv'
  <2>1. \A j \in DOMAIN beliefs' :
            beliefs'[j].topic = Feed[beliefs'[j].obs].topic /\ beliefs'[j].topic # None
    BY <1>3, <1>7, <1>9, <1>10 DEF StoresInv, RowsInv
  <2> QED
    BY <1>5, <2>1 DEF StoresInv, RowsInv
<1>16. OneCurrent'
  <2>1. daemon'.at # "insert"
    BY <1>0, <1>2, OnwardDaemon
  <2>2. ASSUME "supersede" \notin used.failed, NEW j \in DOMAIN beliefs', NEW k \in DOMAIN beliefs',
               IsCurrent(beliefs'[j]), IsCurrent(beliefs'[k]),
               beliefs'[j].topic = beliefs'[k].topic
        PROVE  j = k
    <3>1. \A l \in DOMAIN beliefs : beliefs[l].topic = Feed[p].topic => ~ IsCurrent(beliefs[l])
      BY <1>0, <1>3, <2>2 DEF StoresInv, OneCurrent
    <3>2. CASE j \in DOMAIN beliefs /\ k \in DOMAIN beliefs
      BY <1>9, <2>2, <3>2 DEF StoresInv, OneCurrent
    <3>3. CASE j \notin DOMAIN beliefs
      BY <1>7, <1>9, <1>10, <2>2, <3>1, <3>3
    <3>4. CASE k \notin DOMAIN beliefs
      BY <1>7, <1>9, <1>10, <2>2, <3>1, <3>4
    <3> QED
      BY <3>2, <3>3, <3>4
  <2> QED
    BY <1>4, <2>1, <2>2 DEF OneCurrent
<1>17. TopicHeld'
  <2> SUFFICES ASSUME NEW j \in DOMAIN beliefs'
               PROVE  \/ \E k \in DOMAIN beliefs' :
                            beliefs'[k].topic = beliefs'[j].topic /\ IsCurrent(beliefs'[k])
                      \/ \E i \in past'.gap : Feed[i].topic = beliefs'[j].topic
    BY DEF TopicHeld
  <2>1. ok => n + 1 \in DOMAIN beliefs' /\ beliefs'[n + 1].topic = Feed[p].topic
              /\ IsCurrent(beliefs'[n + 1])
    BY <1>7, <1>9
  <2>2. CASE j \notin DOMAIN beliefs
    BY <1>7, <1>10, <2>2
  <2>3. CASE j \in DOMAIN beliefs
    <3>1. CASE \E k \in DOMAIN beliefs :
                  beliefs[k].topic = beliefs[j].topic /\ IsCurrent(beliefs[k])
      BY <1>9, <2>3, <3>1
    <3>2. CASE \E i \in past.gap : Feed[i].topic = beliefs[j].topic
      <4>1. PICK i \in past.gap : Feed[i].topic = beliefs[j].topic
        BY <3>2
      <4>2. CASE i \in past'.gap
        BY <1>9, <2>3, <4>1, <4>2
      <4>3. CASE i \notin past'.gap
        BY <1>5, <1>9, <2>1, <2>3, <4>1, <4>3
      <4> QED
        BY <4>2, <4>3
    <3> QED
      BY <2>3, <3>1, <3>2 DEF StoresInv, TopicHeld
  <2> QED
    BY <2>2, <2>3
<1>18. EpisodesInv' /\ ReceiptsInv'
  BY <1>0, <1>4, <1>5, KeptEpisodes, KeptReceipts
<1>19. ForgottenInv'
  BY <1>0, <1>5 DEF StoresInv, ForgottenInv
<1> QED
  BY <1>11, <1>14, <1>15, <1>16, <1>17, <1>18, <1>19 DEF StoresInv

(* The watermark moves over observations that are all through.               *)
LEMMA MarkStores == ASSUME StoresInv, Mark PROVE StoresInv'
<1>0. /\ daemon.at = "mark"
      /\ mark' = IF daemon.audit = "file" THEN daemon.last ELSE mark
      /\ daemon' = [daemon EXCEPT !.at = "idle", !.seen = daemon.last, !.pos = 0, !.last = 0]
      /\ UNCHANGED <<brain, minted, promises, beliefs, receipts, holder, forgetter, destroyer,
                     now, used, past>>
  BY DEF Mark, Reached
<1>1. /\ daemon \in DaemonState /\ Len(Feed) \in Nat /\ mark \in 0 .. Len(Feed)
  BY FeedItems DEF StoresInv, RunTypes, FileTypes
<1>2. /\ InBatch /\ daemon.pos \in 1 .. Len(Feed) /\ mark < daemon.pos
      /\ (daemon.audit = "file" => daemon.seen = mark)
      /\ daemon.pos = daemon.last
  BY <1>0, AheadOfMark DEF InBatch, StoresInv, DaemonInv
<1>3. /\ daemon'.at = "idle" /\ daemon'.seen = daemon.last /\ daemon'.pos = 0
      /\ daemon'.last = 0 /\ daemon'.audit = daemon.audit
  BY <1>0, <1>1
<1>4. mark <= mark'
  BY <1>0, <1>1, <1>2
<1>5. FileTypes' /\ RunTypes'
  <2>1. FileTypes'
    BY <1>0, <1>1 DEF StoresInv, FileTypes
  <2>2. daemon' \in DaemonState
    <3>1. 0 \in 0 .. Len(Feed) /\ "idle" \in DaemonPlaces
      BY <1>1 DEF DaemonPlaces
    <3> QED
      BY <1>0, <1>1, <3>1
  <2> HIDE DEF DaemonState
  <2>3. RunTypes'
    BY <1>0, <2>2 DEF StoresInv, RunTypes
  <2> QED
    BY <2>1, <2>3
<1>6. DaemonInv'
  BY <1>0, <1>3 DEF StoresInv, DaemonInv, InBatch
<1>7. ThroughInv'
  <2>1. ASSUME NEW i, Through(i) PROVE Through(i)'
    BY <1>0, <2>1, KeptStored, KeptRows, KeptOrder DEF Through
  <2>2. \A i \in 1 .. mark : Through(i)'
    BY <2>1 DEF StoresInv, ThroughInv
  <2>3. ASSUME daemon.audit = "file", NEW i \in daemon.seen + 1 .. daemon.last PROVE Through(i)'
    <3>1. i \in daemon.seen + 1 .. daemon.pos - 1 \/ i = daemon.pos
      BY <1>1, <1>2
    <3> QED
      BY <1>0, <1>2, <2>1, <2>3, <3>1 DEF StoresInv, ThroughInv
  <2>4. \A i \in 1 .. mark' :
            i \in 1 .. mark \/ (daemon.audit = "file" /\ i \in daemon.seen + 1 .. daemon.last)
    BY <1>0, <1>1, <1>2
  <2> QED
    BY <1>3, <2>2, <2>3, <2>4 DEF ThroughInv, InBatch
<1>8. RowsInv' /\ TopicHeld' /\ EpisodesInv' /\ ReceiptsInv'
  BY <1>0, KeptTables, KeptEpisodes, KeptReceipts
<1>9. OneCurrent'
  BY <1>0, <1>3 DEF StoresInv, OneCurrent, IsCurrent
<1>10. ForgottenInv'
  <2>1. \A f \in past.forgotten : f.mark \in Nat /\ f.mark <= mark
    BY <1>1 DEF StoresInv, ForgottenInv, RunTypes, CoverState
  <2>2. mark' \in Nat /\ mark \in Nat
    BY <1>0, <1>1
  <2> QED
    BY <1>0, <1>4, <2>1, <2>2 DEF StoresInv, ForgottenInv
<1> QED
  BY <1>5, <1>6, <1>7, <1>8, <1>9, <1>10 DEF StoresInv

(* A forget starts on episodes of the brain.                                 *)
LEMMA BeginForgetStores ==
    ASSUME StoresInv, NEW scope \in Scopes, BeginForget(scope) PROVE StoresInv'
<1>0. /\ forgetter.at = "idle" /\ holder' = "forget" /\ used' = [used EXCEPT !.forgets = @ + 1]
      /\ UNCHANGED <<brain, minted, promises, beliefs, mark, receipts, daemon, destroyer, now, past>>
  BY DEF BeginForget
<1>1. PICK ids \in IF scope.cue = None THEN {Within(scope)} ELSE Surfaced(scope.cue) :
          forgetter' = [at |-> "unlearn", scope |-> scope, left |-> ids, removed |-> {}]
  BY DEF BeginForget
<1>2. ids \subseteq brain
  <2>1. Within(scope) \subseteq brain
    BY DEF Within
  <2>2. \A x \in Surfaced(scope.cue) : x \subseteq brain
    <3> DEFINE matching == {e \in brain : Says(e, scope.cue)}
    <3>1. matching \subseteq brain
      OBVIOUS
    <3> HIDE DEF matching
    <3>2. \A x \in kSubset(CueLimit, matching) : x \subseteq matching
      BY DEF kSubset
    <3>3. Surfaced(scope.cue) \in {{matching}, kSubset(CueLimit, matching)}
      BY DEF Surfaced, matching
    <3> QED
      BY <3>1, <3>2, <3>3
  <2> QED
    BY <1>1, <2>1, <2>2
<1>3. /\ used \in UsedState /\ brain \in SUBSET Episode
  BY DEF StoresInv, RunTypes, FileTypes
<1>4. used' \in UsedState /\ used'.failed = used.failed /\ used'.destroys = used.destroys
  BY <1>0, <1>3
<1>5. /\ forgetter' \in ForgetterState /\ forgetter'.left = ids /\ forgetter'.removed = {}
      /\ forgetter'.at = "unlearn"
  BY <1>1, <1>2, <1>3
<1>6. FileTypes' /\ RunTypes'
  <2> HIDE DEF ForgetterState, UsedState, DaemonState, PastState
  <2> QED
    BY <1>0, <1>4, <1>5 DEF StoresInv, FileTypes, RunTypes
<1>7. DaemonInv'
  BY <1>0, <1>4 DEF StoresInv, DaemonInv, InBatch, Here
<1>8. ThroughInv'
  BY <1>0, <1>4 DEF StoresInv, ThroughInv, InBatch, Through, Stored, PromiseKept, BeliefKept, Repaired,
         Overtaken, IsCurrent
<1>9. RowsInv' /\ TopicHeld'
  BY <1>0, <1>4, KeptTables
<1>10. OneCurrent'
  BY <1>0, <1>4 DEF StoresInv, OneCurrent, IsCurrent, Here
<1>11. EpisodesInv'
  BY <1>0, <1>2, <1>5 DEF StoresInv, EpisodesInv
<1>12. ReceiptsInv'
  <2>1. forgetter.removed = forgetter'.removed
    BY <1>0, <1>5 DEF StoresInv, EpisodesInv
  <2> QED
    BY <1>0, <1>4, <2>1 DEF StoresInv, ReceiptsInv
<1>13. ForgottenInv'
  BY <1>0 DEF StoresInv, ForgottenInv
<1> QED
  BY <1>6, <1>7, <1>8, <1>9, <1>10, <1>11, <1>12, <1>13 DEF StoresInv

(* An episode that goes is counted once, for the receipt to come.            *)
LEMMA UnlearnStores == ASSUME StoresInv, Unlearn PROVE StoresInv'
<1>0. /\ forgetter.at = "unlearn"
      /\ UNCHANGED <<minted, promises, beliefs, mark, receipts, holder, daemon, destroyer, now, used>>
  BY DEF Unlearn
<1>1. PICK e \in forgetter.left :
          /\ forgetter' = [forgetter EXCEPT !.left = @ \ {e}, !.removed = @ \cup {e}]
          /\ brain' = brain \ {e}
          /\ past' = [past EXCEPT !.unlearned = @ \cup {e}]
  BY DEF Unlearn
<1>2. forgetter \in ForgetterState /\ past \in PastState /\ brain \in SUBSET Episode
  BY DEF StoresInv, RunTypes, FileTypes
<1>3. /\ forgetter' \in ForgetterState /\ forgetter'.at = "unlearn"
      /\ forgetter'.left = forgetter.left \ {e} /\ forgetter'.removed = forgetter.removed \cup {e}
  BY <1>0, <1>1, <1>2
<1>4. /\ past' \in PastState /\ past'.unlearned = past.unlearned \cup {e}
      /\ past'.ephemeral = past.ephemeral /\ past'.forgotten = past.forgotten
      /\ past'.gap = past.gap /\ past'.missed = past.missed
  BY <1>1, <1>2
<1>5. FileTypes' /\ RunTypes'
  <2> HIDE DEF ForgetterState, UsedState, DaemonState, PastState
  <2> QED
    BY <1>0, <1>1, <1>3, <1>4 DEF StoresInv, FileTypes, RunTypes
<1>6. DaemonInv'
  BY <1>0 DEF StoresInv, DaemonInv, InBatch, Here
<1>7. ThroughInv'
  <2>1. ASSUME NEW i, Stored(i) PROVE Stored(i)'
    BY <1>0, <1>1, <1>4, <2>1, KeptStored
  <2>2. ASSUME NEW i, PromiseKept(i) PROVE PromiseKept(i)'
    BY <1>0, <1>4, <2>2 DEF PromiseKept
  <2>3. ASSUME NEW i, Through(i) PROVE Through(i)'
    BY <1>0, <1>4, <2>1, <2>3, KeptRows, KeptOrder DEF Through
  <2> QED
    BY <1>0, <2>1, <2>2, <2>3 DEF StoresInv, ThroughInv, InBatch
<1>8. RowsInv' /\ TopicHeld'
  BY <1>0, <1>4, KeptTables
<1>9. OneCurrent'
  BY <1>0 DEF StoresInv, OneCurrent, IsCurrent, Here
<1>10. /\ e \notin past.unlearned /\ e \notin forgetter.removed /\ IsFiniteSet(past.unlearned)
       /\ forgetter.removed \in SUBSET past.unlearned /\ IsFiniteSet(brain) /\ e.id <= minted
  BY DEF StoresInv, EpisodesInv
<1>11. EpisodesInv'
  <2>1. IsFiniteSet(brain') /\ IsFiniteSet(past'.unlearned)
    BY <1>1, <1>4, <1>10, FS_RemoveElement, FS_AddElement, FS_Subset
  <2>2. \A x \in brain' \cup past'.unlearned \cup forgetter'.left : x.id <= minted'
    BY <1>0, <1>1, <1>3, <1>4, <1>10 DEF StoresInv, EpisodesInv
  <2>3. \A x, y \in brain' : x.id = y.id => x = y
    BY <1>1 DEF StoresInv, EpisodesInv
  <2>4. brain' \cap past'.unlearned = {} /\ forgetter'.left \cap past'.unlearned = {}
    BY <1>1, <1>3, <1>4 DEF StoresInv, EpisodesInv
  <2>5. forgetter'.removed \subseteq past'.unlearned
    BY <1>3, <1>4, <1>10
  <2> QED
    BY <1>3, <2>1, <2>2, <2>3, <2>4, <2>5 DEF EpisodesInv
<1>12. ReceiptsInv'
  <2> DEFINE r == Cardinality(forgetter.removed)
             g == Cardinality(past.unlearned)
             c == Total(receipts)
  <2>1. IsFiniteSet(forgetter.removed)
    BY <1>10, FS_Subset
  <2>2. Cardinality(forgetter'.removed) = r + 1 /\ Cardinality(past'.unlearned) = g + 1
    <3>1. Cardinality(forgetter.removed \cup {e}) = r + 1
      BY <1>10, <2>1, FS_AddElement
    <3>2. Cardinality(past.unlearned \cup {e}) = g + 1
      BY <1>10, FS_AddElement
    <3> HIDE DEF r, g
    <3> QED
      BY <1>3, <1>4, <3>1, <3>2
  <2>3. r \in Nat /\ g \in Nat /\ c \in Int
    BY <1>10, <2>1, FS_CardinalityType, TotalType DEF StoresInv, FileTypes
  <2>4. c + r <= g /\ (used.failed \cap {"forget", "receipt"} = {} /\ used.destroys = 0 => c + r = g)
    BY DEF StoresInv, ReceiptsInv
  <2> HIDE DEF r, g, c
  <2>5. c + (r + 1) <= g + 1 /\ (c + r = g => c + (r + 1) = g + 1)
    BY <2>3, <2>4
  <2>6. Total(receipts') = c
    BY <1>0 DEF c
  <2> QED
    BY <1>0, <2>2, <2>4, <2>5, <2>6 DEF ReceiptsInv
<1>13. ForgottenInv'
  BY <1>0, <1>1, <1>4 DEF StoresInv, ForgottenInv
<1> QED
  BY <1>5, <1>6, <1>7, <1>8, <1>9, <1>11, <1>12, <1>13 DEF StoresInv

(* A run of forget that ends, with a receipt or without one.                 *)
LEMMA ForgetEndsStores ==
    ASSUME StoresInv, ForgetEnds, used' \in UsedState, past' \in PastState,
           receipts' \in Seq(Int), used.failed \subseteq used'.failed,
           used'.destroys = used.destroys,
           past'.ephemeral = past.ephemeral, past'.unlearned = past.unlearned,
           past'.gap = past.gap, past'.missed = past.missed,
           UNCHANGED <<brain, minted, promises, beliefs, mark, daemon, destroyer, now>>,
           ForgottenInv', ReceiptsInv'
    PROVE  StoresInv'
<1>1. /\ forgetter' = [at |-> "idle", scope |-> None, left |-> {}, removed |-> {}]
      /\ holder' \in {None, holder}
  BY DEF ForgetEnds, Resting
<1>2. forgetter' \in ForgetterState /\ forgetter'.at = "idle" /\ forgetter'.left = {} /\ forgetter'.removed = {}
  BY <1>1
<1>3. FileTypes' /\ RunTypes'
  <2> HIDE DEF ForgetterState, UsedState, DaemonState, PastState
  <2> QED
    BY <1>1, <1>2 DEF StoresInv, FileTypes, RunTypes
<1>4. DaemonInv'
  BY DEF StoresInv, DaemonInv, InBatch, Here
<1>5. ThroughInv'
  <2>1. ASSUME NEW i, Stored(i) PROVE Stored(i)'
    BY <2>1, KeptStored
  <2>2. ASSUME NEW i, PromiseKept(i) PROVE PromiseKept(i)'
    BY <2>2 DEF PromiseKept
  <2>3. ASSUME NEW i, Through(i) PROVE Through(i)'
    BY <2>1, <2>3, KeptRows, KeptOrder DEF Through
  <2> QED
    BY <2>1, <2>2, <2>3 DEF StoresInv, ThroughInv, InBatch
<1>6. RowsInv' /\ TopicHeld'
  BY KeptTables
<1>7. OneCurrent'
  BY DEF StoresInv, OneCurrent, IsCurrent, Here
<1>8. EpisodesInv'
  BY <1>2 DEF StoresInv, EpisodesInv
<1> QED
  BY <1>3, <1>4, <1>5, <1>6, <1>7, <1>8 DEF StoresInv

(* A forget that stops leaves a removal no receipt accounts for.             *)
LEMMA ForgetStopsStores == ASSUME StoresInv, ForgetStops PROVE StoresInv'
<1>0. /\ used' = [used EXCEPT !.failed = @ \cup {"forget"}] /\ ForgetEnds
      /\ UNCHANGED <<brain, minted, promises, beliefs, mark, receipts, daemon, destroyer, now, past>>
  BY DEF ForgetStops, Failed
<1>1. used \in UsedState /\ past \in PastState /\ receipts \in Seq(Int)
  BY DEF StoresInv, RunTypes, FileTypes
<1>2. /\ used' \in UsedState /\ used'.destroys = used.destroys
      /\ used'.failed = used.failed \cup {"forget"}
  BY <1>0, <1>1 DEF Steps
<1>3. ForgottenInv'
  BY <1>0 DEF StoresInv, ForgottenInv
<1>4. ReceiptsInv'
  <2>1. Total(receipts) + Cardinality(forgetter.removed) <= Cardinality(past.unlearned)
    BY DEF StoresInv, ReceiptsInv
  <2>2. Total(receipts) \in Int /\ Cardinality(forgetter.removed) \in Nat
        /\ Cardinality(past.unlearned) \in Nat
    BY <1>1, TotalType, FS_Subset, FS_CardinalityType DEF StoresInv, EpisodesInv
  <2>3. Cardinality(forgetter'.removed) = 0
    BY <1>0, FS_EmptySet DEF ForgetEnds, Resting
  <2>4. Total(receipts) + 0 <= Cardinality(past.unlearned)
    BY <2>1, <2>2
  <2> QED
    BY <1>0, <1>2, <2>3, <2>4 DEF ReceiptsInv
<1> QED
  BY <1>0, <1>1, <1>2, <1>3, <1>4, ForgetEndsStores

(* A receipt takes over the count of the run.                                *)
LEMMA AppendDeletionStores ==
    ASSUME StoresInv, NEW ok \in BOOLEAN, AppendDeletion(ok) PROVE StoresInv'
<1>0. /\ Statement("receipt", ok) /\ ForgetEnds
      /\ receipts' = IF ok THEN Append(receipts, Cardinality(forgetter.removed)) ELSE receipts
      /\ past' = IF ok THEN [past EXCEPT !.forgotten = @ \cup Covered(forgetter)] ELSE past
      /\ UNCHANGED <<brain, minted, promises, beliefs, mark, daemon, destroyer, now>>
  BY DEF AppendDeletion, Receipt
<1>1. /\ used \in UsedState /\ past \in PastState /\ receipts \in Seq(Int)
      /\ forgetter \in ForgetterState
  BY DEF StoresInv, RunTypes, FileTypes
<1>2. /\ used' \in UsedState /\ used'.destroys = used.destroys
      /\ used'.failed = IF ok THEN used.failed ELSE used.failed \cup {"receipt"}
  BY <1>0, <1>1, StatementUsed DEF Steps
<1> DEFINE more == Covered(forgetter)
<1>3. /\ more \subseteq CoverState
      /\ \A f \in more : /\ f.minted = minted /\ f.mark = mark
                         /\ \A e \in brain : e.obs = f.obs => e \in f.rest
  <2>1. /\ minted \in Nat /\ mark \in 0 .. Len(Feed) /\ brain \in SUBSET Episode
        /\ minted <= minted /\ mark <= mark
    BY DEF StoresInv, FileTypes
  <2> SUFFICES ASSUME NEW f \in more
               PROVE  /\ f \in CoverState /\ f.minted = minted /\ f.mark = mark
                      /\ \A e \in brain : e.obs = f.obs => e \in f.rest
    OBVIOUS
  <2>2. PICK i \in {e.obs : e \in forgetter.removed} :
            f = [obs |-> i, minted |-> minted, mark |-> mark, rest |-> {e \in brain : e.obs = i}]
    BY DEF Covered
  <2>3. i \in 1 .. Len(Feed)
    BY <1>1 DEF Episode
  <2>4. f \in CoverState
    BY <2>1, <2>2, <2>3 DEF CoverState
  <2> QED
    BY <2>2, <2>4
<1>p. past' = IF ok THEN [past EXCEPT !.forgotten = @ \cup more] ELSE past
  BY <1>0
<1>m. minted <= minted /\ mark <= mark
  BY DEF StoresInv, FileTypes
<1> HIDE DEF more
<1>4. /\ past' \in PastState /\ past'.ephemeral = past.ephemeral
      /\ past'.unlearned = past.unlearned /\ past'.gap = past.gap /\ past'.missed = past.missed
      /\ past'.forgotten \subseteq past.forgotten \cup more
  BY <1>1, <1>3, <1>p
<1>5. ForgottenInv'
  BY <1>0, <1>3, <1>4, <1>m DEF StoresInv, ForgottenInv
<1> DEFINE r == Cardinality(forgetter.removed)
           g == Cardinality(past.unlearned)
           c == Total(receipts)
<1>6. r \in Nat /\ g \in Nat /\ c \in Int
  BY <1>1, TotalType, FS_Subset, FS_CardinalityType DEF StoresInv, EpisodesInv
<1>7. c + r <= g /\ (used.failed \cap {"forget", "receipt"} = {} /\ used.destroys = 0 => c + r = g)
  BY DEF StoresInv, ReceiptsInv
<1>8. receipts' \in Seq(Int) /\ Total(receipts') = IF ok THEN c + r ELSE c
  <2>1. CASE ok
    BY <1>0, <1>1, <1>6, <2>1, TotalAppend
  <2>2. CASE ~ ok
    BY <1>0, <1>1, <2>2
  <2> QED
    BY <2>1, <2>2
<1>9. Cardinality(forgetter'.removed) = 0 /\ Cardinality(past'.unlearned) = g
  BY <1>0, <1>4, FS_EmptySet DEF ForgetEnds, Resting
<1> HIDE DEF r, g, c
<1>10. ReceiptsInv'
  <2>1. CASE ok
    <3>1. Total(receipts') + 0 = c + r
      BY <1>6, <1>8, <2>1
    <3> QED
      BY <1>2, <1>7, <1>9, <2>1, <3>1 DEF ReceiptsInv
  <2>2. CASE ~ ok
    <3>1. Total(receipts') + 0 <= g
      BY <1>6, <1>7, <1>8, <2>2
    <3> QED
      BY <1>2, <1>9, <2>2, <3>1 DEF ReceiptsInv
  <2> QED
    BY <2>1, <2>2
<1>11. used.failed \subseteq used'.failed
  BY <1>2
<1> HIDE DEF UsedState, PastState
<1> QED
  BY <1>0, <1>2, <1>4, <1>5, <1>8, <1>10, <1>11, ForgetEndsStores

(* The episodes go, and what is stored is no longer promised.                *)
LEMMA DestroyBrainStores == ASSUME StoresInv, DestroyBrain PROVE StoresInv'
<1>0. /\ destroyer' = "audit" /\ used' = [used EXCEPT !.destroys = @ + 1]
      /\ brain' = {} /\ holder' = None /\ daemon' = [daemon EXCEPT !.brain = "gone"]
      /\ UNCHANGED <<minted, promises, beliefs, mark, receipts, forgetter, now, past>>
  BY DEF DestroyBrain
<1>1. daemon \in DaemonState /\ used \in UsedState
  BY DEF StoresInv, RunTypes
<1>2. /\ daemon' \in DaemonState /\ daemon'.at = daemon.at /\ daemon'.seen = daemon.seen
      /\ daemon'.pos = daemon.pos /\ daemon'.last = daemon.last /\ daemon'.audit = daemon.audit
  BY <1>0, <1>1
<1>3. used' \in UsedState /\ used'.failed = used.failed /\ used'.destroys > 0
  BY <1>0, <1>1
<1>4. FileTypes' /\ RunTypes'
  <2> HIDE DEF ForgetterState, UsedState, DaemonState, PastState
  <2> QED
    BY <1>0, <1>2, <1>3 DEF StoresInv, FileTypes, RunTypes
<1>5. DaemonInv'
  BY <1>0, <1>2, <1>3 DEF StoresInv, DaemonInv, InBatch, Here
<1>6. ThroughInv'
  <2>1. \A i : Stored(i)'
    BY <1>0 DEF Stored
  <2>2. ASSUME NEW i, PromiseKept(i) PROVE PromiseKept(i)'
    BY <1>0, <2>2 DEF PromiseKept
  <2>3. ASSUME NEW i, Through(i) PROVE Through(i)'
    BY <1>0, <1>3, <2>1, <2>3, KeptRows, KeptOrder DEF Through
  <2> QED
    BY <1>0, <1>2, <2>1, <2>2, <2>3 DEF StoresInv, ThroughInv, InBatch
<1>7. RowsInv' /\ TopicHeld'
  BY <1>0, <1>3, KeptTables
<1>8. OneCurrent'
  BY <1>0, <1>2, <1>3 DEF StoresInv, OneCurrent, IsCurrent, Here
<1>9. EpisodesInv'
  BY <1>0, FS_EmptySet DEF StoresInv, EpisodesInv
<1>10. ReceiptsInv'
  BY <1>0, <1>3 DEF StoresInv, ReceiptsInv
<1>11. ForgottenInv'
  BY <1>0 DEF StoresInv, ForgottenInv
<1> QED
  BY <1>4, <1>5, <1>6, <1>7, <1>8, <1>9, <1>10, <1>11 DEF StoresInv

(* The watermark and the ledger go together.                                 *)
LEMMA DestroyAuditStores == ASSUME StoresInv, DestroyAudit PROVE StoresInv'
<1>0. /\ destroyer = "audit" /\ destroyer' = "done" /\ mark' = 0 /\ receipts' = <<>>
      /\ daemon' = [daemon EXCEPT !.audit = "gone"] /\ past' = [past EXCEPT !.forgotten = {}]
      /\ UNCHANGED <<brain, minted, promises, beliefs, holder, forgetter, now, used>>
  BY DEF DestroyAudit
<1>1. /\ daemon \in DaemonState /\ past \in PastState /\ used \in UsedState
      /\ 0 \in 0 .. Len(Feed)
  BY FeedItems DEF StoresInv, RunTypes
<1>2. /\ daemon' \in DaemonState /\ daemon'.at = daemon.at /\ daemon'.seen = daemon.seen
      /\ daemon'.pos = daemon.pos /\ daemon'.last = daemon.last /\ daemon'.audit = "gone"
  BY <1>0, <1>1
<1>3. /\ past' \in PastState /\ past'.forgotten = {} /\ past'.ephemeral = past.ephemeral
      /\ past'.unlearned = past.unlearned /\ past'.gap = past.gap /\ past'.missed = past.missed
  BY <1>0, <1>1
<1>4. FileTypes' /\ RunTypes'
  <2>1. receipts' \in Seq(Int) /\ mark' \in 0 .. Len(Feed)
    BY <1>0, <1>1, TotalEmpty
  <2> HIDE DEF ForgetterState, UsedState, DaemonState, PastState
  <2> QED
    BY <1>0, <1>2, <1>3, <2>1 DEF StoresInv, FileTypes, RunTypes
<1>5. used.destroys > 0
  BY <1>0 DEF StoresInv, DaemonInv
<1>6. DaemonInv'
  BY <1>0, <1>2, <1>5 DEF StoresInv, DaemonInv, InBatch, Here
<1>7. ThroughInv'
  BY <1>0, <1>2 DEF ThroughInv
<1>8. RowsInv' /\ TopicHeld'
  BY <1>0, <1>3, KeptTables
<1>9. OneCurrent'
  BY <1>0, <1>2 DEF StoresInv, OneCurrent, IsCurrent, Here
<1>10. EpisodesInv'
  BY <1>0, <1>3, KeptEpisodes
<1>11. ReceiptsInv'
  <2>1. Cardinality(forgetter.removed) <= Cardinality(past.unlearned)
    BY FS_Subset DEF StoresInv, EpisodesInv
  <2>2. Cardinality(forgetter.removed) \in Nat
    BY FS_Subset, FS_CardinalityType DEF StoresInv, EpisodesInv
  <2>3. Total(receipts') = 0 /\ 0 + Cardinality(forgetter.removed) = Cardinality(forgetter.removed)
    BY <1>0, <2>2, TotalEmpty
  <2>4. used'.destroys # 0
    BY <1>0, <1>1, <1>5
  <2> QED
    BY <1>0, <1>3, <2>1, <2>3, <2>4 DEF ReceiptsInv
<1>12. ForgottenInv'
  BY <1>3 DEF ForgottenInv
<1> QED
  BY <1>4, <1>6, <1>7, <1>8, <1>9, <1>10, <1>11, <1>12 DEF StoresInv

(* A destroy that stops halfway is remembered.                               *)
LEMMA DestroyStopsStores == ASSUME StoresInv, DestroyStops PROVE StoresInv'
<1>0. /\ destroyer = "audit" /\ destroyer' = "idle"
      /\ used' = [used EXCEPT !.failed = @ \cup {"destroy"}]
      /\ UNCHANGED <<brain, minted, promises, beliefs, mark, receipts, holder, daemon, forgetter,
                     now, past>>
  BY DEF DestroyStops, Failed, files
<1>1. used \in UsedState
  BY DEF StoresInv, RunTypes
<1>2. /\ used' \in UsedState /\ used'.destroys = used.destroys
      /\ used'.failed = used.failed \cup {"destroy"}
  BY <1>0, <1>1 DEF Steps
<1>3. FileTypes' /\ RunTypes'
  <2> HIDE DEF ForgetterState, UsedState, DaemonState, PastState
  <2> QED
    BY <1>0, <1>2 DEF StoresInv, FileTypes, RunTypes
<1>4. DaemonInv'
  BY <1>0, <1>2 DEF StoresInv, DaemonInv, InBatch, Here
<1>5. ThroughInv'
  <2>1. \A i : Stored(i)'
    BY <1>2 DEF Stored
  <2>2. ASSUME NEW i, PromiseKept(i) PROVE PromiseKept(i)'
    BY <1>0, <2>2 DEF PromiseKept
  <2>3. ASSUME NEW i, Through(i) PROVE Through(i)'
    BY <1>0, <1>2, <2>1, <2>3, KeptRows, KeptOrder DEF Through
  <2> QED
    BY <1>0, <2>1, <2>2, <2>3 DEF StoresInv, ThroughInv, InBatch
<1>6. RowsInv' /\ TopicHeld' /\ EpisodesInv' /\ ReceiptsInv'
  BY <1>0, <1>2, KeptTables, KeptEpisodes, KeptReceipts
<1>7. OneCurrent'
  BY <1>0, <1>2 DEF StoresInv, OneCurrent, IsCurrent, Here
<1>8. ForgottenInv'
  BY <1>0 DEF StoresInv, ForgottenInv
<1> QED
  BY <1>3, <1>4, <1>5, <1>6, <1>7, <1>8 DEF StoresInv

(* The clock and a session write nothing the stores keep.                    *)
LEMMA SessionStores ==
    ASSUME StoresInv, Tick \/ Connect \/ Disconnect \/ Call \/ GiveBack \/ UNCHANGED vars
    PROVE  StoresInv'
<1>1. holder' \in {None, "daemon", "forget", "mcp"} /\ now' \in Nat
  BY SMTT(20) DEF Tick, Connect, Disconnect, Call, GiveBack, vars, memoryVars, files, StoresInv, FileTypes,
         RunTypes
<1>2. UNCHANGED <<brain, minted, promises, beliefs, mark, receipts, daemon, forgetter,
                  destroyer, used, past>>
  BY DEF Tick, Connect, Disconnect, Call, GiveBack, vars, memoryVars, files
<1> QED
  BY <1>1, <1>2, StoresFrame

(* Every step of the stores keeps their invariant.                           *)
LEMMA MemoryNextStores == ASSUME StoresInv, MemoryNext PROVE StoresInv'
<1>1. CASE \E b \in BOOLEAN : StartDaemon(b)
  BY <1>1, StartDaemonStores
<1>2. CASE Fetch \/ StoreEpisode \/ Mark \/ CrashDaemon
  BY <1>2, FetchStores, StoreEpisodeStores, MarkStores, CrashStores
<1>3. CASE \E ok \in BOOLEAN : AddPromise(ok) \/ Supersede(ok) \/ InsertBelief(ok)
  BY <1>3, AddPromiseStores, SupersedeStores, InsertBeliefStores
<1>4. CASE \E scope \in Scopes : BeginForget(scope)
  BY <1>4, BeginForgetStores
<1>5. CASE Unlearn \/ ForgetStops
  BY <1>5, UnlearnStores, ForgetStopsStores
<1>6. CASE \E ok \in BOOLEAN : AppendDeletion(ok)
  BY <1>6, AppendDeletionStores
<1>7. CASE DestroyBrain \/ DestroyAudit \/ DestroyStops
  BY <1>7, DestroyBrainStores, DestroyAuditStores, DestroyStopsStores
<1>8. CASE Tick
  BY <1>8, SessionStores
<1> QED
  BY <1>1, <1>2, <1>3, <1>4, <1>5, <1>6, <1>7, <1>8 DEF MemoryNext

-----------------------------------------------------------------------------
(* Who has the brain.  Whoever writes it holds the lock, or works on a       *)
(* directory that is gone; so what a session opened is the brain as long as  *)
(* it holds the lock.                                                        *)
HeldInv ==
    /\ daemon.brain = "file" => holder = "daemon"
    /\ forgetter.at = "unlearn" => holder = "forget" \/ forgetter.left \cap brain = {}
    /\ holder = "mcp" => session = "open" /\ opened = brain

(* Rows of commitments.db are written in the order of the clock.             *)
CreatedInv ==
    /\ \A i \in DOMAIN promises : promises[i].created <= now
    /\ \A i, j \in DOMAIN promises : i <= j => promises[i].created <= promises[j].created

OpenedInv == opened \subseteq Episode

(* Steps that leave the brain and what the others have open.                 *)
LEMMA HeldFrame ==
    ASSUME HeldInv, UNCHANGED <<brain, forgetter, opened, session>>, daemon'.brain = daemon.brain,
           holder' = holder
    PROVE  HeldInv'
BY DEF HeldInv

(* The daemon writes the brain it has locked; the rest of its steps do not.  *)
LEMMA DaemonHeld ==
    ASSUME StoresInv, HeldInv, UNCHANGED mcpVars,
           \/ \E b \in BOOLEAN : StartDaemon(b)
           \/ Fetch \/ StoreEpisode \/ Mark \/ CrashDaemon
           \/ \E ok \in BOOLEAN : AddPromise(ok) \/ Supersede(ok) \/ InsertBelief(ok)
    PROVE  HeldInv'
<1>1. UNCHANGED <<opened, session>>
  BY DEF mcpVars
<1>2. daemon \in DaemonState
  BY DEF StoresInv, RunTypes
<1>3. ASSUME NEW b \in BOOLEAN, StartDaemon(b) PROVE HeldInv'
  <2>1. daemon'.brain = IF b THEN "file" ELSE "gone"
    BY <1>3 DEF StartDaemon, Down
  <2>2. /\ b => holder = None
        /\ holder' = IF b THEN "daemon" ELSE holder
        /\ UNCHANGED <<brain, forgetter>>
    BY <1>3 DEF StartDaemon
  <2>3. daemon.brain = "file" => ~ b
    BY <2>2, NoneAssumption DEF HeldInv
  <2>4. daemon'.brain = "file" => holder' = "daemon"
    BY <2>1, <2>2
  <2>5. forgetter.at = "unlearn" => holder' = "forget" \/ forgetter.left \cap brain = {}
    BY <2>2, NoneAssumption DEF HeldInv
  <2>6. holder' = "mcp" => holder = "mcp"
    BY <2>2
  <2> QED
    BY <1>1, <2>2, <2>4, <2>5, <2>6 DEF HeldInv
<1>4. CASE Fetch \/ Mark
  <2>1. daemon'.brain = daemon.brain /\ holder' = holder /\ UNCHANGED <<brain, forgetter>>
    BY <1>2, <1>4 DEF Fetch, Mark, files
  <2> QED
    BY <1>1, <2>1, HeldFrame
<1>5. CASE StoreEpisode
  <2>1. daemon'.brain = daemon.brain /\ UNCHANGED <<holder, forgetter>>
    BY <1>2, <1>5 DEF StoreEpisode
  <2>2. CASE daemon.brain = "file"
    <3> DEFINE e == [id |-> minted + 1, obs |-> daemon.pos, at |-> now]
    <3>1. brain' = brain \cup {e} /\ e.id = minted + 1
      BY <1>5, <2>2 DEF StoreEpisode
    <3>2. holder = "daemon"
      BY <2>2 DEF HeldInv
    <3>3. e \notin forgetter.left
      <4>1. \A x \in forgetter.left : x.id \in Nat /\ x.id <= minted
        BY DEF StoresInv, EpisodesInv, RunTypes, Episode
      <4>2. minted \in Nat
        BY DEF StoresInv, FileTypes
      <4> HIDE DEF e
      <4> QED
        BY <3>1, <4>1, <4>2
    <3> HIDE DEF e
    <3> QED
      BY <1>1, <2>1, <2>2, <3>1, <3>2, <3>3 DEF HeldInv
  <2>3. CASE daemon.brain # "file"
    <3>1. brain' = brain
      BY <1>5, <2>3 DEF StoreEpisode
    <3> QED
      BY <1>1, <2>1, <3>1, HeldFrame
  <2> QED
    BY <2>2, <2>3
<1>6. CASE CrashDaemon
  <2>1. daemon'.brain = "gone" /\ UNCHANGED <<brain, forgetter>>
        /\ holder' = IF holder = "daemon" THEN None ELSE holder
    BY <1>6 DEF CrashDaemon, Down
  <2> QED
    BY <1>1, <2>1, NoneAssumption DEF HeldInv
<1>7. ASSUME NEW ok \in BOOLEAN, AddPromise(ok) \/ Supersede(ok) \/ InsertBelief(ok)
      PROVE  HeldInv'
  <2>1. Onward.brain = daemon.brain
    BY <1>2 DEF Onward
  <2>2. daemon'.brain = daemon.brain
    <3>1. CASE AddPromise(ok)
      BY <1>2, <2>1, <3>1 DEF AddPromise
    <3>2. CASE Supersede(ok)
      BY <1>2, <3>2 DEF Supersede
    <3>3. CASE InsertBelief(ok)
      BY <2>1, <3>3 DEF InsertBelief
    <3> QED
      BY <1>7, <3>1, <3>2, <3>3
  <2>3. UNCHANGED <<brain, forgetter, holder>>
    BY <1>7 DEF AddPromise, Supersede, InsertBelief
  <2> QED
    BY <1>1, <2>2, <2>3, HeldFrame
<1> QED
  BY <1>3, <1>4, <1>5, <1>6, <1>7

(* Forget takes from the brain it has locked, or from one that is gone.      *)
LEMMA ForgetHeld ==
    ASSUME StoresInv, HeldInv, UNCHANGED mcpVars,
           \/ \E scope \in Scopes : BeginForget(scope)
           \/ Unlearn \/ ForgetStops
           \/ \E ok \in BOOLEAN : AppendDeletion(ok)
    PROVE  HeldInv'
<1>1. UNCHANGED <<opened, session>>
  BY DEF mcpVars
<1>2. CASE \E scope \in Scopes : BeginForget(scope)
  <2>1. holder = None /\ holder' = "forget" /\ UNCHANGED <<brain, daemon>>
    BY <1>2 DEF BeginForget
  <2> QED
    BY <1>1, <2>1, NoneAssumption DEF HeldInv
<1>3. CASE Unlearn
  <2>1. PICK e \in forgetter.left :
            /\ forgetter' = [forgetter EXCEPT !.left = @ \ {e}, !.removed = @ \cup {e}]
            /\ brain' = brain \ {e}
    BY <1>3 DEF Unlearn
  <2>2. forgetter.at = "unlearn" /\ UNCHANGED <<holder, daemon>>
    BY <1>3 DEF Unlearn
  <2>3. forgetter'.left = forgetter.left \ {e}
    BY <2>1 DEF StoresInv, RunTypes
  <2>4. CASE holder = "forget"
    BY <1>1, <2>2, <2>4 DEF HeldInv
  <2>5. CASE holder # "forget"
    <3>1. forgetter.left \cap brain = {}
      BY <2>2, <2>5 DEF HeldInv
    <3>2. brain' = brain /\ forgetter'.left \cap brain' = {}
      BY <2>1, <2>3, <3>1
    <3> QED
      BY <1>1, <2>2, <3>2 DEF HeldInv
  <2> QED
    BY <2>4, <2>5
<1>4. CASE ForgetStops \/ \E ok \in BOOLEAN : AppendDeletion(ok)
  <2>1. ForgetEnds /\ UNCHANGED <<brain, daemon>>
    BY <1>4 DEF ForgetStops, AppendDeletion
  <2>2. forgetter'.at = "idle" /\ holder' = IF holder = "forget" THEN None ELSE holder
    BY <2>1 DEF ForgetEnds, Resting
  <2> QED
    BY <1>1, <2>1, <2>2, NoneAssumption DEF HeldInv
<1> QED
  BY <1>2, <1>3, <1>4

(* Destroy breaks the lock and leaves whoever had the brain a removed one.   *)
LEMMA DestroyHeld ==
    ASSUME StoresInv, HeldInv, UNCHANGED mcpVars,
           DestroyBrain \/ DestroyAudit \/ DestroyStops \/ Tick
    PROVE  HeldInv'
<1>1. UNCHANGED <<opened, session>>
  BY DEF mcpVars
<1>2. daemon \in DaemonState
  BY DEF StoresInv, RunTypes
<1>3. CASE DestroyBrain
  <2>1. brain' = {} /\ holder' = None /\ daemon'.brain = "gone" /\ forgetter' = forgetter
    BY <1>2, <1>3 DEF DestroyBrain
  <2> QED
    BY <2>1, NoneAssumption DEF HeldInv
<1>4. CASE DestroyAudit \/ DestroyStops \/ Tick
  <2>1. daemon'.brain = daemon.brain /\ UNCHANGED <<brain, forgetter, holder>>
    BY <1>2, <1>4 DEF DestroyAudit, DestroyStops, Tick, files
  <2> QED
    BY <1>1, <2>1, HeldFrame
<1> QED
  BY <1>3, <1>4

(* A session opens the brain no one holds, and leaves the lock if it has it. *)
LEMMA SessionHeld ==
    ASSUME StoresInv, HeldInv, Connect \/ Disconnect \/ Call \/ GiveBack \/ UNCHANGED vars
    PROVE  HeldInv'
<1>1. CASE Connect
  <2>1. /\ holder = None /\ holder' = "mcp" /\ session' = "open" /\ opened' = brain
        /\ UNCHANGED <<brain, daemon, forgetter>>
    BY <1>1 DEF Connect
  <2> QED
    BY <2>1, NoneAssumption DEF HeldInv
<1>2. CASE Disconnect
  <2>1. /\ holder' = IF holder = "mcp" THEN None ELSE holder
        /\ UNCHANGED <<brain, daemon, forgetter>>
    BY <1>2 DEF Disconnect
  <2> QED
    BY <2>1, NoneAssumption DEF HeldInv
<1>3. CASE Call \/ GiveBack \/ UNCHANGED vars
  <2>1. UNCHANGED <<brain, forgetter, opened, session, daemon, holder>>
    BY <1>3 DEF Call, GiveBack, vars, memoryVars, files, mcpVars
  <2> QED
    BY <2>1, HeldFrame
<1> QED
  BY <1>1, <1>2, <1>3

(* Every step keeps who has the brain.                                       *)
LEMMA NextHeld == ASSUME StoresInv, HeldInv, [Next]_vars PROVE HeldInv'
<1>1. CASE MemoryNext /\ UNCHANGED mcpVars
  BY <1>1, DaemonHeld, ForgetHeld, DestroyHeld DEF MemoryNext
<1>2. CASE Connect \/ Disconnect \/ Call \/ GiveBack \/ UNCHANGED vars
  BY <1>2, SessionHeld
<1> QED
  BY <1>1, <1>2 DEF Next

(* What a session opens is the brain.                                        *)
LEMMA NextOpened == ASSUME StoresInv, OpenedInv, [Next]_vars PROVE OpenedInv'
<1>1. CASE Connect
  <2>1. opened' = brain
    BY <1>1 DEF Connect
  <2> QED
    BY <2>1 DEF OpenedInv, StoresInv, FileTypes
<1>2. CASE Disconnect
  <2>1. opened' = {}
    BY <1>2 DEF Disconnect
  <2> QED
    BY <2>1 DEF OpenedInv
<1>3. CASE UNCHANGED mcpVars \/ Call \/ GiveBack \/ UNCHANGED vars
  <2>1. opened' = opened
    BY <1>3 DEF mcpVars, vars, Call, GiveBack
  <2>2. Episode' = Episode
    BY DEF Episode
  <2> QED
    BY <2>1, <2>2 DEF OpenedInv
<1> QED
  BY <1>1, <1>2, <1>3 DEF Next

(* A promise that is added is the last, and none is moved.                   *)
LEMMA NextCreated == ASSUME StoresInv, CreatedInv, [Next]_vars PROVE CreatedInv'
<1>0. now \in Nat /\ promises \in Seq(PromiseRow)
  BY DEF StoresInv, RunTypes, FileTypes
<1>1. \A i \in DOMAIN promises : promises[i].created \in Nat
  <2>1. \A i \in DOMAIN promises : promises[i] \in PromiseRow
    BY <1>0
  <2> QED
    BY <2>1 DEF PromiseRow
<1>2. now' \in Nat /\ now <= now'
  <2>1. CASE MemoryNext
    BY <1>0, <2>1, ClockForward
  <2>2. CASE Connect \/ Disconnect \/ Call \/ GiveBack \/ UNCHANGED vars
    BY <1>0, <2>2 DEF Connect, Disconnect, Call, GiveBack, vars, memoryVars
  <2> QED
    BY <2>1, <2>2 DEF Next
<1>3. CASE promises' = promises
  BY <1>0, <1>1, <1>2, <1>3 DEF CreatedInv
<1>4. ASSUME NEW ok \in BOOLEAN, AddPromise(ok), promises' # promises PROVE CreatedInv'
  <2>1. now' = now
    BY <1>4 DEF AddPromise
  <2> DEFINE row == [obs |-> daemon.pos, due |-> Here.promise.due, with |-> Here.promise.with,
                     status |-> "open", created |-> now]
  <2>2. promises' = Append(promises, row) /\ row.created = now
    BY <1>4 DEF AddPromise
  <2> HIDE DEF row
  <2>3. /\ DOMAIN promises' = 1 .. Len(promises) + 1 /\ DOMAIN promises = 1 .. Len(promises)
        /\ Len(promises) \in Nat /\ promises'[Len(promises) + 1] = row
        /\ \A i \in DOMAIN promises : promises'[i] = promises[i]
    BY <1>0, <2>2
  <2>4. \A i \in DOMAIN promises' :
            \/ i \in DOMAIN promises /\ promises'[i].created = promises[i].created
            \/ i = Len(promises) + 1 /\ promises'[i].created = now
    BY <2>2, <2>3
  <2>5. \A i \in DOMAIN promises' : promises'[i].created <= now'
    BY <1>0, <2>1, <2>4 DEF CreatedInv
  <2>6. ASSUME NEW i \in DOMAIN promises', NEW j \in DOMAIN promises', i <= j
        PROVE  promises'[i].created <= promises'[j].created
    <3>1. CASE j \in DOMAIN promises
      <4>1. i \in DOMAIN promises
        BY <2>3, <2>6, <3>1
      <4> QED
        BY <2>3, <2>6, <3>1, <4>1 DEF CreatedInv
    <3>2. CASE j = Len(promises) + 1
      BY <2>1, <2>2, <2>3, <2>5, <3>2
    <3> QED
      BY <2>3, <3>1, <3>2
  <2> QED
    BY <2>5, <2>6 DEF CreatedInv
<1>5. promises' = promises \/ \E ok \in BOOLEAN : AddPromise(ok)
  <2>1. CASE \E b \in BOOLEAN : StartDaemon(b)
    BY <2>1 DEF StartDaemon
  <2>2. CASE Fetch \/ StoreEpisode \/ Mark \/ CrashDaemon
    BY <2>2 DEF Fetch, StoreEpisode, Mark, CrashDaemon, files
  <2>3. CASE \E ok \in BOOLEAN : Supersede(ok) \/ InsertBelief(ok)
    BY <2>3 DEF Supersede, InsertBelief
  <2>4. CASE \E scope \in Scopes : BeginForget(scope)
    BY <2>4 DEF BeginForget
  <2>5. CASE Unlearn
    BY <2>5 DEF Unlearn
  <2>6. CASE ForgetStops \/ \E ok \in BOOLEAN : AppendDeletion(ok)
    BY <2>6 DEF ForgetStops, AppendDeletion
  <2>7. CASE DestroyBrain \/ DestroyAudit \/ DestroyStops \/ Tick
    BY <2>7 DEF DestroyBrain, DestroyAudit, DestroyStops, Tick, files
  <2>8. CASE Connect \/ Disconnect \/ Call \/ GiveBack \/ UNCHANGED vars
    BY <2>8 DEF Connect, Disconnect, Call, GiveBack, vars, memoryVars, files
  <2> QED
    BY <2>1, <2>2, <2>3, <2>4, <2>5, <2>6, <2>7, <2>8 DEF Next, MemoryNext
<1> QED
  BY <1>3, <1>4, <1>5

(* The invariants always hold.                                               *)
LEMMA AlwaysStores == Spec => [](StoresInv /\ QuotaInv /\ HeldInv /\ CreatedInv /\ OpenedInv)
<1>1. /\ StoresInv /\ QuotaInv /\ HeldInv /\ CreatedInv /\ OpenedInv /\ [Next]_vars
      => (StoresInv /\ QuotaInv /\ HeldInv /\ CreatedInv /\ OpenedInv)'
  BY MemoryNextStores, SessionStores, NextQuota, NextHeld, NextCreated, NextOpened DEF Next
<1>2. Init => StoresInv /\ QuotaInv
  BY InitStores, InitQuota DEF Init
<1>3. Init => HeldInv
  BY NoneAssumption DEF Init, MemoryInit, HeldInv, Down, Resting
<1>4. Init => CreatedInv /\ OpenedInv
  BY DEF Init, MemoryInit, CreatedInv, OpenedInv
<1> QED
  BY <1>1, <1>2, <1>3, <1>4, PTL DEF Spec

(* What the invariant says of the stores.                                    *)
LEMMA KeepUp == ASSUME StoresInv, QuotaInv, OpenedInv PROVE StoresKeepUp
<1>0. mark \in Nat /\ beliefs \in Seq(BeliefRow) /\ promises \in Seq(PromiseRow)
  BY FeedItems DEF StoresInv, FileTypes
<1>1. MemoryTypeOK
  <2>1. daemon.pos \in 0 .. daemon.last
    BY DEF StoresInv, RunTypes, DaemonInv
  <2>a. /\ \A j \in DOMAIN promises : promises[j] \in PromiseRow
        /\ \A j \in DOMAIN beliefs : beliefs[j] \in BeliefRow
    BY <1>0
  <2>2. \A j \in DOMAIN promises : promises[j].obs \in 1 .. Len(Feed)
    BY <2>a DEF PromiseRow
  <2>3. \A j \in DOMAIN beliefs : beliefs[j].obs \in 1 .. Len(Feed)
    BY <2>a DEF BeliefRow
  <2>4. \A e \in brain : e \in Episode /\ e.id <= minted
    BY DEF StoresInv, FileTypes, EpisodesInv
  <2> QED
    BY <2>1, <2>2, <2>3, <2>4 DEF MemoryTypeOK, StoresInv, FileTypes, RunTypes, DaemonPlaces
<1>2. TypeOK
  <2>1. permits \in Nat /\ MaxPerWindow \in Nat /\ Len(pending) \in Nat
    BY QuotaAssumption DEF QuotaInv, QuotaTypes
  <2>2. permits = 0 \/ permits + Len(pending) = MaxPerWindow
    BY DEF QuotaInv, QuotaTypes, PermitsAccount
  <2>3. permits \in 0 .. MaxPerWindow
    BY <2>1, <2>2
  <2> QED
    BY <1>1, <2>3 DEF TypeOK, QuotaInv, QuotaTypes, OpenedInv
<1>3. MarkedIsDone
  BY DEF MarkedIsDone, StoresInv, ThroughInv, Through, Stored, PromiseKept, BeliefKept
<1>4. TopicKeepsCurrent
  <2> SUFFICES ASSUME NEW j \in DOMAIN beliefs, NEW i \in past.gap, Feed[i].topic = beliefs[j].topic
               PROVE  i > mark \/ <<"belief", i>> \in past.missed
    BY DEF TopicKeepsCurrent, Waits, StoresInv, TopicHeld
  <2>1. i \in Nat /\ i >= 1
    BY FeedItems DEF StoresInv, RunTypes
  <2>2. i > mark \/ i \in 1 .. mark
    BY <1>0, <2>1
  <2> QED
    BY <2>2 DEF StoresInv, ThroughInv, Through, Repaired
<1>5. CurrentIsLatest
  BY DEF CurrentIsLatest, StoresInv, OneCurrent, ThroughInv, Through, Overtaken
<1> QED
  BY <1>2, <1>3, <1>4, <1>5 DEF StoresKeepUp

(* The stores keep up with the feed, for every feed and batch size and       *)
(* however many crashes, failing statements, forgets and destroys the bounds *)
(* allow: what is marked has left its episode, its promise and its belief, a *)
(* topic keeps a current belief and has one at most, the latest              *)
(* (ExtractingStore::store, SqliteBeliefStore::add, tick).                   *)
THEOREM StoresAlwaysKeepUp == Spec => []StoresKeepUp
BY AlwaysStores, KeepUp, PTL

-----------------------------------------------------------------------------
(* What the tools show.                                                      *)

(* Rank and time put any two episodes in an order, since no two share an id. *)
LEMMA EpisodeOrders ==
    ASSUME StoresInv, opened = brain
    PROVE  /\ \A cue : Orders(Ranked(cue), brain)
           /\ Orders(ByTime, brain)
<1>1. \A e \in brain : e.id \in Nat /\ e.at \in Nat
  BY DEF StoresInv, FileTypes, Episode
<1>2. \A e, f \in brain : e.id = f.id => e = f
  BY DEF StoresInv, EpisodesInv
<1>3. ASSUME NEW cue PROVE Orders(Ranked(cue), brain)
  <2>1. \A e \in brain : Score(e, cue) \in Nat
    BY DEF Score
  <2>2. \A e, f \in brain :
            <<e, f>> \in Ranked(cue) <=>
               \/ Score(e, cue) > Score(f, cue)
               \/ Score(e, cue) = Score(f, cue) /\ e.id < f.id
    BY DEF Ranked
  <2>3. \A e \in brain : <<e, e>> \notin Ranked(cue)
    BY <1>1, <2>1, <2>2
  <2>4. ASSUME NEW e \in brain, NEW f \in brain, NEW g \in brain,
               <<e, f>> \in Ranked(cue), <<f, g>> \in Ranked(cue)
        PROVE  <<e, g>> \in Ranked(cue)
    <3>1. /\ Score(e, cue) \in Nat /\ Score(f, cue) \in Nat /\ Score(g, cue) \in Nat
          /\ e.id \in Nat /\ f.id \in Nat /\ g.id \in Nat
      BY <1>1, <2>1
    <3>2. /\ \/ Score(e, cue) > Score(f, cue)
             \/ Score(e, cue) = Score(f, cue) /\ e.id < f.id
          /\ \/ Score(f, cue) > Score(g, cue)
             \/ Score(f, cue) = Score(g, cue) /\ f.id < g.id
      BY <2>2, <2>4
    <3>3. \/ Score(e, cue) > Score(g, cue)
          \/ Score(e, cue) = Score(g, cue) /\ e.id < g.id
      BY <3>1, <3>2
    <3> QED
      BY <2>2, <3>3
  <2>5. ASSUME NEW e \in brain, NEW f \in brain, e # f
        PROVE  <<e, f>> \in Ranked(cue) \/ <<f, e>> \in Ranked(cue)
    <3>1. /\ Score(e, cue) \in Nat /\ Score(f, cue) \in Nat
          /\ e.id \in Nat /\ f.id \in Nat /\ e.id # f.id
      BY <1>1, <1>2, <2>1, <2>5
    <3> QED
      BY <2>2, <3>1
  <2> QED
    BY <2>3, <2>4, <2>5 DEF Orders
<1>4. Orders(ByTime, brain)
  <2>1. \A e, f \in brain :
            <<e, f>> \in ByTime <=> e.at < f.at \/ (e.at = f.at /\ e.id < f.id)
    BY DEF ByTime
  <2>2. \A e \in brain : <<e, e>> \notin ByTime
    BY <1>1, <2>1
  <2>3. ASSUME NEW e \in brain, NEW f \in brain, NEW g \in brain,
               <<e, f>> \in ByTime, <<f, g>> \in ByTime
        PROVE  <<e, g>> \in ByTime
    BY <1>1, <2>1, <2>3
  <2>4. ASSUME NEW e \in brain, NEW f \in brain, e # f
        PROVE  <<e, f>> \in ByTime \/ <<f, e>> \in ByTime
    <3>1. e.id # f.id
      BY <1>2, <2>4
    <3> QED
      BY <1>1, <2>1, <3>1
  <2> QED
    BY <2>2, <2>3, <2>4 DEF Orders
<1> QED
  BY <1>3, <1>4

(* What orders a set orders its parts.                                      *)
LEMMA OrdersPart ==
    ASSUME NEW S, NEW R, Orders(R, S), NEW T \in SUBSET S PROVE Orders(R, T)
BY DEF Orders

(* A tool shows episodes of the brain, if that is what the session opened.   *)
LEMMA ToolsShowEpisodes ==
    ASSUME StoresInv, opened = brain
    PROVE  /\ \A cue, asOf : \A k \in Nat : BrainRecall(cue, asOf, k) \in Seq(brain)
           /\ \A subject, from, to : BrainTimeline(subject, from, to) \in Seq(brain)
<1>0. IsFiniteSet(brain)
  BY DEF StoresInv, EpisodesInv
<1>1. ASSUME NEW S \in SUBSET brain, NEW R, Orders(R, brain)
      PROVE  Listed(S, R) \in Seq(brain)
  <2>1. IsFiniteSet(S) /\ Orders(R, S)
    BY <1>0, <1>1, FS_Subset, OrdersPart
  <2>2. Listed(S, R) \in Seq(S)
    BY <2>1, ListedRanks
  <2> QED
    BY <2>2
<1>2. ASSUME NEW cue, NEW asOf, NEW k \in Nat PROVE BrainRecall(cue, asOf, k) \in Seq(brain)
  <2> DEFINE hits == Listed({e \in brain : Score(e, cue) > 0 /\ (asOf # None => e.at <= asOf)},
                            Ranked(cue))
  <2>1. hits \in Seq(brain)
    <3>1. \A c : Orders(Ranked(c), brain)
      BY EpisodeOrders
    <3> QED
      BY <1>1, <3>1
  <2>2. BrainRecall(cue, asOf, k) = SubSeq(hits, 1, Min2(k, Len(hits)))
    BY DEF BrainRecall
  <2> HIDE DEF hits
  <2>3. Min2(k, Len(hits)) \in 0 .. Len(hits)
    BY <2>1 DEF Min2
  <2> QED
    BY <2>1, <2>2, <2>3
<1>3. ASSUME NEW subject, NEW from, NEW to PROVE BrainTimeline(subject, from, to) \in Seq(brain)
  <2>1. Orders(ByTime, brain)
    BY EpisodeOrders
  <2> QED
    BY <1>1, <2>1 DEF BrainTimeline
<1> QED
  BY <1>2, <1>3

(* The last interaction of whodis is an episode of the brain.                *)
LEMMA LatestShown ==
    ASSUME StoresInv, NEW hits \in Seq(brain), hits # <<>> PROVE Latest(hits) \in brain
<1> DEFINE N == Len(hits)
           f == [i \in 1 .. N |-> hits[i].at]
<1>1. N \in Nat \ {0} /\ DOMAIN hits = 1 .. N /\ \A i \in 1 .. N : hits[i] \in brain
  OBVIOUS
<1>2. \A i \in 1 .. N : hits[i].at \in Int
  BY <1>1 DEF StoresInv, FileTypes, Episode
<1>3. f \in [1 .. N -> Int] /\ \A i \in 1 .. N : f[i] = hits[i].at
  BY <1>2
<1> HIDE DEF N, f
<1>4. \E i \in 1 .. N : \A j \in 1 .. N : f[j] <= f[i] /\ (j > i => f[j] < f[i])
  BY <1>1, <1>3, LastGreatest
<1>5. \E i \in DOMAIN hits :
          /\ \A j \in DOMAIN hits : hits[j].at <= hits[i].at
          /\ \A j \in DOMAIN hits : j > i => hits[j].at < hits[i].at
  BY <1>1, <1>3, <1>4
<1> QED
  BY <1>1, <1>5 DEF Latest

(* A forget deletes what its receipt says, and what it deleted no tool shows *)
(* again, nor a new episode of an observation the watermark had passed when  *)
(* the receipt was written, whatever crashes, replays, failures and destroys *)
(* follow, for every feed and every ranking of the cues                      *)
(* (AgidbStore::forget, forget_command, tick).                               *)
THEOREM ForgetStaysHonest == Spec => []ForgetIsHonest
<1> SUFFICES ASSUME StoresInv, HeldInv PROVE ForgetIsHonest
  BY AlwaysStores, PTL
<1>1. ReceiptsAccount
  <2> DEFINE c == Total(receipts)
             r == Cardinality(forgetter.removed)
             g == Cardinality(past.unlearned)
  <2>1. c \in Int /\ r \in Nat /\ g \in Nat
    BY TotalType, FS_Subset, FS_CardinalityType DEF StoresInv, EpisodesInv, FileTypes
  <2>2. c + r <= g /\ (used.failed \cap {"forget", "receipt"} = {} /\ used.destroys = 0 => c + r = g)
    BY DEF StoresInv, ReceiptsInv
  <2>3. forgetter.at = "idle" => r = 0
    BY FS_EmptySet DEF StoresInv, EpisodesInv
  <2> HIDE DEF c, r, g
  <2>4. c <= g /\ (r = 0 => c + r = c)
    BY <2>1, <2>2
  <2>5. /\ c <= g
        /\ forgetter.at = "idle" /\ used.failed \cap {"forget", "receipt"} = {}
           /\ used.destroys = 0 => c = g
    BY <2>2, <2>3, <2>4
  <2> QED
    BY <2>5 DEF ReceiptsAccount, c, g
<1>2. ForgottenStaysForgotten
  <2> SUFFICES ASSUME past.forgotten # {}, holder = "mcp"
               PROVE  /\ \A cue \in Cues, asOf \in {None, now}, k \in Ks : Clean(Recall(cue, asOf, k))
                      /\ \A subject \in Cues \cup {None} : Clean(Timeline(subject, 0, now))
                      /\ \A name \in Names : Whodis(name).last # None => Allowed(Whodis(name).last)
                      /\ Clean(Today(0, now).sessions)
    BY DEF ForgottenStaysForgotten
  <2>0. HasBrain /\ opened = brain
    BY DEF HeldInv, HasBrain
  <2>1. \A e \in brain : Allowed(e)
    BY DEF StoresInv, ForgottenInv, Allowed
  <2>2. Clean(Refused)
    BY DEF Clean
  <2>3. \A hits \in Seq(brain) : Clean(hits)
    BY <2>1 DEF Clean
  <2>4. ASSUME NEW cue \in Cues, NEW asOf \in {None, now}, NEW k \in Ks
        PROVE  Clean(Recall(cue, asOf, k))
    <3> DEFINE kept == IF k < 1 THEN 1 ELSE Min2(k, 50)
    <3>1. kept \in Nat
      BY KsAssumption DEF Min2
    <3> HIDE DEF kept
    <3>2. BrainRecall(cue, asOf, kept) \in Seq(brain)
      BY <2>0, <3>1, ToolsShowEpisodes
    <3>3. Recall(cue, asOf, k) \in {Refused, BrainRecall(cue, asOf, kept)}
      BY DEF Recall, kept
    <3> QED
      BY <2>2, <2>3, <3>2, <3>3
  <2>5. ASSUME NEW subject \in Cues \cup {None} PROVE Clean(Timeline(subject, 0, now))
    <3>1. BrainTimeline(subject, 0, now) \in Seq(brain)
      BY <2>0, ToolsShowEpisodes
    <3>2. Timeline(subject, 0, now) \in {Refused, BrainTimeline(subject, 0, now)}
      BY DEF Timeline
    <3> QED
      BY <2>2, <2>3, <3>1, <3>2
  <2>6. ASSUME NEW name \in Names, Whodis(name).last # None PROVE Allowed(Whodis(name).last)
    <3>1. Whodis(name).last = Latest(BrainRecall(name, None, 50))
      BY <2>0 DEF Whodis
    <3>2. BrainRecall(name, None, 50) \in Seq(brain)
      BY <2>0, ToolsShowEpisodes
    <3>3. BrainRecall(name, None, 50) # <<>>
      BY <2>6, <3>1 DEF Latest
    <3> QED
      BY <2>1, <3>1, <3>2, <3>3, LatestShown
  <2>7. Clean(Today(0, now).sessions)
    <3>1. Today(0, now).sessions = BrainTimeline(None, 0, now)
      BY <2>0 DEF Today
    <3>2. BrainTimeline(None, 0, now) \in Seq(brain)
      BY <2>0, ToolsShowEpisodes
    <3> QED
      BY <2>3, <3>1, <3>2
  <2> QED
    BY <2>4, <2>5, <2>6, <2>7
<1> QED
  BY <1>1, <1>2 DEF ForgetIsHonest

-----------------------------------------------------------------------------
(* Milliseconds keep the order of instants that are not of the same one.     *)
LEMMA MillisInOrder ==
    ASSUME NEW a \in Int, NEW b \in Int
    PROVE  /\ Millis(a) \in Int /\ Millis(b) \in Int
           /\ a <= b => Millis(a) <= Millis(b)
           /\ Millis(a) < Millis(b) => a < b
<1>1. Millis(a) \in Int /\ Millis(b) \in Int
  BY PerMilliAssumption DEF Millis
<1>2. a <= b => Millis(a) <= Millis(b)
  BY PerMilliAssumption DEF Millis
<1>3. b <= a => Millis(b) <= Millis(a)
  BY PerMilliAssumption DEF Millis
<1> QED
  BY <1>1, <1>2, <1>3

(* The commitments tool answers as the in-memory store does, for every table *)
(* of rows, date and clock, but for what is due in the millisecond of the    *)
(* call or of the cutoff, where it shows late what is late and hides nothing *)
(* that is open; and the beliefs tool leads with the current position, for   *)
(* every table of beliefs and at every point of a write                      *)
(* (CommitmentStore::query, SqliteBeliefStore::query).                       *)
THEOREM ToolsAlwaysShowWhatIsStored == Spec => []ToolsShowWhatIsStored
<1> SUFFICES ASSUME StoresInv, QuotaInv, CreatedInv, OpenedInv PROVE ToolsShowWhatIsStored
  BY AlwaysStores, PTL
<1>0. now \in Int /\ \A i \in DOMAIN promises : promises[i] \in PromiseRow
  BY DEF StoresInv, RunTypes, FileTypes
<1>1. StoresAgree
  <2> DEFINE due(i) == promises[i].due
  <2>1. \A i \in DOMAIN promises :
            /\ due(i) = None \/ due(i) \in Int
            /\ promises[i].status = "open" /\ promises[i].created \in Int
    BY <1>0 DEF PromiseRow
  <2>2. ASSUME NEW i \in DOMAIN promises
        PROVE  /\ DueSql(promises[i], Millis(now)) => IsOverdue(promises[i], now)
               /\ IsOverdue(promises[i], now) /\ ~ DueSql(promises[i], Millis(now)) => SameMilli(i, now)
    <3>1. CASE due(i) = None
      BY <3>1 DEF DueSql, IsOverdue
    <3>2. CASE due(i) \in Int
      <4>1. /\ Millis(due(i)) \in Int /\ Millis(now) \in Int
            /\ due(i) <= now => Millis(due(i)) <= Millis(now)
            /\ Millis(due(i)) < Millis(now) => due(i) < now
        BY <1>0, <3>2, MillisInOrder
      <4>2. now # None /\ due(i) # None
        BY <1>0, <3>2, NoneAssumption
      <4> QED
        BY <1>0, <2>1, <3>2, <4>1, <4>2 DEF DueSql, IsOverdue, SameMilli
    <3> QED
      BY <2>1, <3>1, <3>2
  <2>3. ASSUME NEW i \in DOMAIN promises, NEW cutoff \in Cutoffs
        PROVE  /\ cutoff = None \/ due(i) = None \/ due(i) <= cutoff =>
                     cutoff = None \/ due(i) = None \/ Millis(due(i)) <= Millis(cutoff)
               /\ cutoff = None \/ due(i) = None \/ Millis(due(i)) <= Millis(cutoff) =>
                     \/ cutoff = None \/ due(i) = None \/ due(i) <= cutoff
                     \/ SameMilli(i, cutoff)
    <3>1. CASE cutoff = None \/ due(i) = None
      BY <3>1
    <3>2. CASE cutoff \in Int /\ cutoff # None /\ due(i) \in Int /\ due(i) # None
      <4>1. /\ Millis(due(i)) \in Int /\ Millis(cutoff) \in Int
            /\ due(i) <= cutoff => Millis(due(i)) <= Millis(cutoff)
            /\ Millis(due(i)) < Millis(cutoff) => due(i) < cutoff
        BY <3>2, MillisInOrder
      <4> QED
        BY <3>2, <4>1 DEF SameMilli
    <3> QED
      BY <2>1, <3>1, <3>2, CutoffsAssumption
  <2> HIDE DEF due
  <2>4. ASSUME NEW status \in Statuses \cup {None}, NEW cutoff \in Cutoffs
        PROVE  LET sql == Commitments(status, cutoff)  exact == QueryRows(status, cutoff, now)
               IN /\ \A i \in (sql \ exact) \cup (exact \ sql) :
                        SameMilli(i, now) \/ SameMilli(i, cutoff)
                  /\ status = "open" => exact \subseteq sql
                  /\ status = "overdue" /\ cutoff = None => sql \subseteq exact
    <3> DEFINE inSql(i) == cutoff = None \/ due(i) = None \/ Millis(due(i)) <= Millis(cutoff)
               inMem(i) == cutoff = None \/ due(i) = None \/ due(i) <= cutoff
               late(i)  == DueSql(promises[i], Millis(now))
               over(i)  == IsOverdue(promises[i], now)
               stSql(i) == CASE status = None      -> TRUE
                             [] status = "open"    -> promises[i].status = "open" /\ ~late(i)
                             [] status = "overdue" -> promises[i].status = "open" /\ late(i)
                             [] OTHER              -> promises[i].status = status
               stMem(i) == CASE status = None      -> TRUE
                             [] status = "overdue" -> over(i)
                             [] OTHER              -> /\ promises[i].status = status
                                                      /\ ~(status = "open" /\ over(i))
    <3>1. Commitments(status, cutoff) = {i \in DOMAIN promises : inSql(i) /\ stSql(i)}
      BY DEF Commitments, QuerySql, due
    <3>2. QueryRows(status, cutoff, now) = {i \in DOMAIN promises : inMem(i) /\ stMem(i)}
      BY DEF QueryRows, due
    <3>3. \A i \in DOMAIN promises :
              (inMem(i) => inSql(i)) /\ (inSql(i) => inMem(i) \/ SameMilli(i, cutoff))
      BY <2>3
    <3>4. \A i \in DOMAIN promises :
              (late(i) => over(i)) /\ (over(i) /\ ~ late(i) => SameMilli(i, now))
      BY <2>2
    <3>5. \A i \in DOMAIN promises : promises[i].status = "open"
      BY <2>1
    <3> HIDE DEF inSql, inMem, late, over
    <3>6. ASSUME NEW i \in DOMAIN promises
          PROVE  /\ ~ (stSql(i) <=> stMem(i)) => SameMilli(i, now)
                 /\ status = "open" /\ stMem(i) => stSql(i)
                 /\ status = "overdue" /\ stSql(i) => stMem(i)
      <4>0. None \notin Statuses
        BY StatusesAssumption
      <4>1. CASE status = None
        BY <4>0, <4>1 DEF Statuses
      <4>2. CASE status = "open"
        BY <3>4, <3>5, <4>0, <4>2 DEF Statuses
      <4>3. CASE status = "overdue"
        BY <3>4, <3>5, <4>0, <4>3 DEF Statuses
      <4>4. CASE status \notin {None, "open", "overdue"}
        BY <4>4
      <4> QED
        BY <4>1, <4>2, <4>3, <4>4
    <3>7. cutoff = None => \A i \in DOMAIN promises : inMem(i) /\ inSql(i)
      BY DEF inMem, inSql
    <3> HIDE DEF stSql, stMem
    <3> QED
      BY <3>1, <3>2, <3>3, <3>6, <3>7
  <2>5. ASSUME NEW i \in DOMAIN promises
        PROVE  (i \in Commitments("open", None)) # (i \in Commitments("overdue", None))
    <3>0. "open" \in Statuses /\ "overdue" \in Statuses /\ None # "open" /\ None # "overdue"
      BY StatusesAssumption DEF Statuses
    <3>1. i \in Commitments("open", None) <=> ~ DueSql(promises[i], Millis(now))
      BY <2>1, <3>0 DEF Commitments, QuerySql
    <3>2. i \in Commitments("overdue", None) <=> DueSql(promises[i], Millis(now))
      BY <2>1, <3>0 DEF Commitments, QuerySql
    <3> QED
      BY <3>1, <3>2
  <2>6. ASSUME NEW i \in DOMAIN promises, NEW j \in DOMAIN promises, i < j
        PROVE  ~ CreatedBefore(j, i)
    <3>1. i \in Int /\ j \in Int
      BY DEF StoresInv, FileTypes
    <3>2. promises[i].created <= promises[j].created
      BY <2>6, <3>1 DEF CreatedInv
    <3>3. /\ Millis(promises[i].created) \in Int /\ Millis(promises[j].created) \in Int
          /\ Millis(promises[i].created) <= Millis(promises[j].created)
      BY <2>1, <3>2, MillisInOrder
    <3> QED
      BY <3>3 DEF CreatedBefore
  <2> QED
    BY <2>4, <2>5, <2>6 DEF StoresAgree
<1>2. CurrentLeads
  <2>0. TopicKeepsCurrent /\ CurrentIsLatest
    BY KeepUp DEF StoresKeepUp
  <2> SUFFICES ASSUME NEW topic \in Texts \cup {None}, NEW j \in QueryBeliefs(topic, FALSE),
                      \A k \in QueryBeliefs(topic, FALSE) : ~ SortsAhead(k, j)
               PROVE  \/ /\ j \in QueryBeliefs(topic, TRUE)
                         /\ "supersede" \notin used.failed =>
                               \A i \in 1 .. mark :
                                   Feed[i].topic = beliefs[j].topic => i <= beliefs[j].obs
                      \/ /\ QueryBeliefs(topic, TRUE) = {}
                         /\ \A k \in QueryBeliefs(topic, FALSE) : Waits(beliefs[k].topic)
    BY DEF CurrentLeads, Beliefs
  <2>1. j \in DOMAIN beliefs
    BY DEF QueryBeliefs
  <2>2. CASE IsCurrent(beliefs[j])
    <3>1. j \in QueryBeliefs(topic, TRUE)
      BY <2>2 DEF QueryBeliefs
    <3> QED
      BY <2>0, <2>1, <2>2, <3>1 DEF CurrentIsLatest
  <2>3. CASE ~ IsCurrent(beliefs[j])
    <3>1. \A k \in QueryBeliefs(topic, FALSE) : ~ IsCurrent(beliefs[k])
      BY <2>3 DEF SortsAhead
    <3>2. QueryBeliefs(topic, TRUE) = {}
      BY <3>1 DEF QueryBeliefs
    <3>3. ASSUME NEW k \in QueryBeliefs(topic, FALSE) PROVE Waits(beliefs[k].topic)
      <4>1. k \in DOMAIN beliefs
        BY DEF QueryBeliefs
      <4>2. \A l \in DOMAIN beliefs :
                beliefs[l].topic = beliefs[k].topic => l \in QueryBeliefs(topic, FALSE)
        BY DEF QueryBeliefs
      <4> QED
        BY <2>0, <3>1, <4>1, <4>2 DEF TopicKeepsCurrent
    <3> QED
      BY <3>2, <3>3
  <2> QED
    BY <2>2, <2>3
<1> QED
  BY <1>1, <1>2 DEF ToolsShowWhatIsStored
=============================================================================
