---------------------------- MODULE EnginesProofs ----------------------------
(***************************************************************************)
(* What holds of the OpenClaw client, of the shared browser, of the        *)
(* mailboxes, of the email tools, of what models are sent and stream back  *)
(* and of the workflow engine, for any number of calls, runs, agents,      *)
(* messages, events and nodes.                                             *)
(***************************************************************************)
EXTENDS Workflow, Email, Gateway, Browser, AgentMail, ModelCalls, ModelStream, DataLemmas

-----------------------------------------------------------------------------
(* Gateway.                                                                *)

(* An attempt that has not begun is not executed, and one that waits is    *)
(* the only one of its call whose answer may still come.                   *)
AttemptInv(g) ==
  /\ sending[g] \in {"idle", "backoff"} => <<g, attempt[g]>> \notin executing
  /\ \A a \in Attempts : <<g, a>> \in executing => a <= attempt[g]

GatewayInv == GatewayTypeOK /\ OverlapOnlyAfterTimeout /\ \A g \in GatewayCalls : AttemptInv(g)

LEMMA GatewayInitInv == GatewayInit => GatewayInv
  BY GatewayAssumption
  DEF GatewayInit, GatewayInv, GatewayTypeOK, OverlapOnlyAfterTimeout, AttemptInv,
      Attempts, Outcomes

(* What the client sees of an attempt that is executed no longer, or only  *)
(* by a gateway that was too slow, keeps the invariant.                    *)
LEMMA ClientSeesInv ==
  ASSUME GatewayInv, NEW g \in GatewayCalls, NEW seen \in Outcomes, ClientSees(g, seen),
         executing' \subseteq executing,
         <<g, attempt[g]>> \in executing' => seen \in {"timeout", "broken"}
  PROVE  GatewayInv'
  <1> USE DEF GatewayInv, GatewayTypeOK, AttemptInv, ClientSees, Retries, Retried, Attempts
  <1> attempt[g] \in Nat /\ MaxRetries \in Nat
    BY GatewayAssumption
  <1>1. CASE Retries(seen) /\ attempt[g] < MaxRetries
    <2>1. /\ sending' = [sending EXCEPT ![g] = "backoff"]
          /\ attempt' = [attempt EXCEPT ![g] = @ + 1]
          /\ response' = [response EXCEPT ![g][attempt[g]] = seen]
      BY <1>1
    <2>2. GatewayTypeOK'
      BY <2>1
    <2>3. AttemptInv(g)'
      BY <2>1
    <2>4. ASSUME NEW h \in GatewayCalls PROVE AttemptInv(h)'
      BY <2>1, <2>3
    <2>5. <<g, attempt[g]>> \in executing' => seen = "timeout"
      BY <1>1
    <2>6. ASSUME NEW h \in GatewayCalls, NEW a \in Attempts,
                 <<h, a>> \in executing', a < attempt'[h]
          PROVE  response'[h][a] = "timeout"
      <3>1. CASE h = g /\ a = attempt[g]
        BY <2>1, <2>5, <2>6, <3>1
      <3>2. CASE ~(h = g /\ a = attempt[g])
        BY <2>1, <2>6, <3>2 DEF OverlapOnlyAfterTimeout
      <3> QED BY <3>1, <3>2
    <2> QED BY <2>2, <2>4, <2>6 DEF OverlapOnlyAfterTimeout
  <1>2. CASE ~(Retries(seen) /\ attempt[g] < MaxRetries)
    <2>1. /\ sending' = [sending EXCEPT ![g] = "returned"]
          /\ attempt' = attempt
          /\ response' = [response EXCEPT ![g][attempt[g]] = seen]
      BY <1>2
    <2>2. GatewayTypeOK' /\ \A h \in GatewayCalls : AttemptInv(h)'
      BY <2>1
    <2>3. OverlapOnlyAfterTimeout'
      BY <2>1 DEF OverlapOnlyAfterTimeout
    <2> QED BY <2>2, <2>3
  <1> QED BY <1>1, <1>2

LEMMA GatewayStepInv == GatewayInv /\ [GatewayNext]_gatewayVars => GatewayInv'
  <1> SUFFICES ASSUME GatewayInv, [GatewayNext]_gatewayVars PROVE GatewayInv'
    OBVIOUS
  <1> USE GatewayAssumption
  <1>1. ASSUME NEW g \in GatewayCalls, Post(g) PROVE GatewayInv'
    <2> USE <1>1 DEF Post, GatewayInv, GatewayTypeOK, AttemptInv, Attempts, Outcomes
    <2>1. GatewayTypeOK'
      OBVIOUS
    <2>2. \A h \in GatewayCalls : AttemptInv(h)'
      OBVIOUS
    <2>3. OverlapOnlyAfterTimeout'
      BY DEF OverlapOnlyAfterTimeout
    <2> QED BY <2>1, <2>2, <2>3
  <1>2. ASSUME NEW g \in GatewayCalls, Unconnected(g) PROVE GatewayInv'
    BY <1>2, ClientSeesInv DEF Unconnected, Outcomes, GatewayInv, AttemptInv
  <1>3. ASSUME NEW g \in GatewayCalls, Responds(g) PROVE GatewayInv'
    BY <1>3, ClientSeesInv DEF Responds, Outcomes
  <1>4. ASSUME NEW g \in GatewayCalls, NoAnswer(g) PROVE GatewayInv'
    BY <1>4, ClientSeesInv DEF NoAnswer, Outcomes
  <1>5. ASSUME NEW g \in GatewayCalls, NEW a \in Attempts, EndsUnseen(g, a) PROVE GatewayInv'
    BY <1>5 DEF EndsUnseen, GatewayInv, GatewayTypeOK, AttemptInv, OverlapOnlyAfterTimeout
  <1>6. ASSUME NEW g \in GatewayCalls, ToolTimesOut(g) PROVE GatewayInv'
    BY <1>6 DEF ToolTimesOut, GatewayInv, GatewayTypeOK, AttemptInv, OverlapOnlyAfterTimeout,
                Attempts, Outcomes
  <1>7. ASSUME UNCHANGED gatewayVars PROVE GatewayInv'
    BY <1>7 DEF gatewayVars, GatewayInv, GatewayTypeOK, AttemptInv, OverlapOnlyAfterTimeout
  <1> QED BY <1>1, <1>2, <1>3, <1>4, <1>5, <1>6, <1>7 DEF GatewayNext

(* However often a message is sent again, two executions of one call       *)
(* overlap only when the first was slower than the client's timeout.       *)
THEOREM RetriesOverlapOnlyAfterTimeout == GatewaySpec => []OverlapOnlyAfterTimeout
  <1>1. GatewaySpec => []GatewayInv
    BY GatewayInitInv, GatewayStepInv, PTL DEF GatewaySpec
  <1> QED BY <1>1, PTL DEF GatewayInv

(* Gateway: the types (GatewayTypeOK) of the calls and their attempts.     *)
THEOREM GatewayTypeCorrect == GatewaySpec => []GatewayTypeOK
  <1>1. GatewayInv => GatewayTypeOK
    BY DEF GatewayInv
  <1> QED BY GatewayInitInv, GatewayStepInv, <1>1, PTL DEF GatewaySpec

-----------------------------------------------------------------------------
(* Browser.                                                                *)

Inside(v) == visit[v].pc \notin {"idle", "waiting"}

(* Who is past the mutex holds it, alone; between giving up a page and     *)
(* arriving on another, a navigation leaves no current page.               *)
VisitInv(v) ==
  /\ Inside(v) => lock = {v}
  /\ visit[v].pc \in {"closing", "opening", "loading"} =>
       visit[v].op = "navigate" /\ page = NoPage
  /\ visit[v].pc \in {"acting", "settling"} =>
       visit[v].op \in PageOps /\ visit[v].tab = page /\ page # NoPage
  /\ visit[v].pc \in {"idle", "waiting", "locked", "opening"} => visit[v].tab = NoPage
  /\ visit[v].pc \in {"closing", "loading"} => visit[v].tab \in Tab

(* Pages are younger than what anybody gave up before they were opened.    *)
SinceInv(u) ==
  /\ since[u] <= tabCount
  /\ page # NoPage => page > since[u]
  /\ \A v \in Visitors : visit[v].pc = "loading" => visit[v].tab > since[u]

Leaked == tabs \ ({page} \cup {visit[v].tab : v \in Visitors})

BrowserInv ==
  /\ BrowserTypeOK
  /\ \A v \in Visitors : VisitInv(v) /\ SinceInv(v)
  /\ Cardinality(Leaked) <= spoilt

LEMMA TabsFinite ==
  ASSUME NEW S, S \subseteq Tab
  PROVE  IsFiniteSet(S) /\ Cardinality(S) \in Nat
  <1>1. IsFiniteSet(Tab)
    BY BrowserAssumption, FS_Interval DEF Tab
  <1>2. IsFiniteSet(S)
    BY <1>1, FS_Subset
  <1> QED BY <1>2, FS_CardinalityType

(* A step leaks no tab, or one and counts it. *)
LEMMA LeakStep ==
  ASSUME BrowserTypeOK, BrowserTypeOK', Cardinality(Leaked) <= spoilt,
         \/ Leaked' \subseteq Leaked /\ spoilt' >= spoilt
         \/ spoilt' = spoilt + 1 /\ \E x \in Tab : Leaked' \subseteq Leaked \cup {x}
  PROVE  (Cardinality(Leaked) <= spoilt)'
  <1>1. IsFiniteSet(Leaked) /\ Cardinality(Leaked) \in Nat /\ spoilt \in Nat
    BY TabsFinite DEF Leaked, BrowserTypeOK
  <1>2. IsFiniteSet(Leaked') /\ Cardinality(Leaked') \in Nat /\ spoilt' \in Nat
    BY TabsFinite DEF Leaked, BrowserTypeOK
  <1>3. CASE Leaked' \subseteq Leaked /\ spoilt' >= spoilt
    <2>1. Cardinality(Leaked') <= Cardinality(Leaked)
      BY <1>1, <1>3, FS_Subset
    <2> QED BY <2>1, <1>1, <1>2, <1>3
  <1>4. ASSUME NEW x \in Tab, Leaked' \subseteq Leaked \cup {x}, spoilt' = spoilt + 1
        PROVE  Cardinality(Leaked') <= spoilt'
    <2> DEFINE L == Leaked
    <2> HIDE DEF L
    <2>1. IsFiniteSet(L) /\ Cardinality(L) \in Nat
      BY <1>1 DEF L
    <2>2. /\ IsFiniteSet(L \cup {x})
          /\ Cardinality(L \cup {x}) =
               IF x \in L THEN Cardinality(L) ELSE Cardinality(L) + 1
      BY <2>1, FS_AddElement
    <2>3. Cardinality(Leaked') <= Cardinality(L \cup {x})
      BY <1>4, <2>2, FS_Subset DEF L
    <2>4. Cardinality(L) <= spoilt
      BY DEF L
    <2> QED BY <2>1, <2>2, <2>3, <2>4, <1>1, <1>2, <1>4
  <1> QED BY <1>3, <1>4

LEMMA BrowserInitInv == BrowserInit => BrowserInv
  <1> SUFFICES ASSUME BrowserInit PROVE BrowserInv
    OBVIOUS
  <1> USE BrowserAssumption DEF BrowserInit, AtHome, NoPage
  <1>1. BrowserTypeOK
    BY DEF BrowserTypeOK, BrowserOps, PageOps
  <1>2. \A v \in Visitors : VisitInv(v) /\ SinceInv(v)
    BY DEF VisitInv, SinceInv, Inside
  <1>3. Leaked = {}
    BY DEF Leaked
  <1>4. Cardinality(Leaked) <= spoilt
    BY <1>3, FS_EmptySet
  <1> QED BY <1>1, <1>2, <1>4 DEF BrowserInv

VisitType ==
  [Visitors -> [op : BrowserOps \cup {"none"}, tab : Tab \cup {NoPage},
    pc : {"idle", "waiting", "locked", "closing", "opening", "loading", "acting", "settling"}]]

LEMMA GoesType ==
  ASSUME visit \in VisitType, NEW v \in Visitors, NEW tab \in Tab \cup {NoPage},
         NEW to \in {"idle", "waiting", "locked", "closing", "opening", "loading", "acting",
                     "settling"},
         Goes(v, to, tab)
  PROVE  visit' \in VisitType
  BY DEF Goes, VisitType

LEMMA NextTab ==
  ASSUME tabs \subseteq Tab, tabCount \in Nat, tabCount < MaxTabs
  PROVE  tabs \cup {tabCount + 1} \subseteq Tab
  BY BrowserAssumption DEF Tab

(* The slot of one visitor changes: the others stay outside, or are        *)
(* outside because it is inside.                                           *)
LEMMA BrowserStepInv == BrowserInv /\ [BrowserNext]_browserVars => BrowserInv'
  <1> SUFFICES ASSUME BrowserInv, [BrowserNext]_browserVars PROVE BrowserInv'
    OBVIOUS
  <1> DEFINE LeakOK ==
        \/ Leaked' \subseteq Leaked /\ spoilt' >= spoilt
        \/ spoilt' = spoilt + 1 /\ \E x \in Tab : Leaked' \subseteq Leaked \cup {x}
      Kept == BrowserTypeOK' /\ (\A v \in Visitors : VisitInv(v)' /\ SinceInv(v)') /\ LeakOK
  <1> SUFFICES Kept
    BY LeakStep DEF BrowserInv
  <1> USE BrowserAssumption DEF NoPage, Tab, AtHome
  <1>t. BrowserTypeOK /\ (\A v \in Visitors : VisitInv(v) /\ SinceInv(v))
    BY DEF BrowserInv
  <1>1. ASSUME NEW v \in Visitors, NEW op \in BrowserOps, CallTool(v, op) PROVE Kept
    <2> USE <1>t, <1>1 DEF CallTool
    <2>1. BrowserTypeOK'
      BY DEF BrowserTypeOK
    <2>2. ASSUME NEW u \in Visitors PROVE VisitInv(u)' /\ SinceInv(u)'
      BY DEF BrowserTypeOK, VisitInv, SinceInv, Inside
    <2>3. LeakOK
      BY DEF BrowserTypeOK, Leaked, VisitInv
    <2> QED BY <2>1, <2>2, <2>3
  <1>2. ASSUME NEW v \in Visitors, LockBrowser(v) PROVE Kept
    <2> USE <1>t, <1>2 DEF LockBrowser, Goes
    <2>1. BrowserTypeOK'
      BY DEF BrowserTypeOK
    <2>2. ASSUME NEW u \in Visitors PROVE VisitInv(u)' /\ SinceInv(u)'
      BY DEF BrowserTypeOK, VisitInv, SinceInv, Inside
    <2>3. LeakOK
      BY DEF BrowserTypeOK, Leaked, VisitInv
    <2> QED BY <2>1, <2>2, <2>3
  <1>3. ASSUME NEW v \in Visitors, RefuseDomain(v) PROVE Kept
    <2> USE <1>t, <1>3 DEF RefuseDomain, At, Leaves
    <2>1. BrowserTypeOK'
      BY DEF BrowserTypeOK, PageOps, BrowserOps
    <2>2. ASSUME NEW u \in Visitors PROVE VisitInv(u)' /\ SinceInv(u)'
      BY DEF BrowserTypeOK, VisitInv, SinceInv, Inside, PageOps
    <2>3. LeakOK
      BY DEF BrowserTypeOK, Leaked, VisitInv, PageOps
    <2> QED BY <2>1, <2>2, <2>3
  <1>4. ASSUME NEW v \in Visitors, LaunchBrowser(v) PROVE Kept
    <2> USE <1>t, <1>4 DEF LaunchBrowser, At, Leaves
    <2>1. BrowserTypeOK'
      BY DEF BrowserTypeOK, PageOps, BrowserOps
    <2>2. ASSUME NEW u \in Visitors PROVE VisitInv(u)' /\ SinceInv(u)'
      BY DEF BrowserTypeOK, VisitInv, SinceInv, Inside, PageOps
    <2>3. LeakOK
      BY DEF BrowserTypeOK, Leaked, VisitInv, PageOps
    <2> QED BY <2>1, <2>2, <2>3
  <1>5. ASSUME NEW v \in Visitors, TakeOldPage(v) PROVE Kept
    <2> USE <1>t, <1>5 DEF TakeOldPage, At, Goes
    <2>1. BrowserTypeOK'
      <3>0. page \in Tab \cup {NoPage}
        BY DEF BrowserTypeOK
      <3>1. visit' \in VisitType
        <4>1. visit \in VisitType
          BY DEF BrowserTypeOK, VisitType
        <4> QED BY <3>0, <4>1, GoesType
      <3>2. since' \in [Visitors -> 0 .. MaxTabs] /\ tabs' \subseteq Tab /\ lock' \subseteq Visitors
        BY DEF BrowserTypeOK
      <3>3. page' \in Tab \cup {NoPage} /\ tabCount' \in 0 .. MaxTabs /\ spoilt' \in Nat
        BY DEF BrowserTypeOK
      <3> QED BY <3>1, <3>2, <3>3 DEF BrowserTypeOK, VisitType
    <2>2. ASSUME NEW u \in Visitors PROVE VisitInv(u)' /\ SinceInv(u)'
      <3>1. VisitInv(u)'
        <4>1. CASE u = v
          BY <4>1 DEF BrowserTypeOK, VisitInv, Inside, PageOps
        <4>2. CASE u # v
          BY <4>2 DEF BrowserTypeOK, VisitInv, Inside, PageOps
        <4> QED BY <4>1, <4>2
      <3>2. SinceInv(u)'
        <4>1. \A w \in Visitors : visit[w].pc = "loading" => w = v
          BY DEF VisitInv, Inside
        <4> QED BY <4>1 DEF BrowserTypeOK, SinceInv
      <3> QED BY <3>1, <3>2
    <2>3. LeakOK
      BY DEF BrowserTypeOK, Leaked, VisitInv, PageOps
    <2> QED BY <2>1, <2>2, <2>3
  <1>6. ASSUME NEW v \in Visitors, CloseOldPage(v) PROVE Kept
    <2> USE <1>t, <1>6 DEF CloseOldPage, At, Goes
    <2>1. BrowserTypeOK'
      <3>1. visit' \in VisitType
        BY DEF BrowserTypeOK, VisitType
      <3>2. since' \in [Visitors -> 0 .. MaxTabs] /\ tabs' \subseteq Tab /\ lock' \subseteq Visitors
        BY DEF BrowserTypeOK
      <3>3. page' \in Tab \cup {NoPage} /\ tabCount' \in 0 .. MaxTabs /\ spoilt' \in Nat
        BY DEF BrowserTypeOK
      <3> QED BY <3>1, <3>2, <3>3 DEF BrowserTypeOK, VisitType
    <2>2. ASSUME NEW u \in Visitors PROVE VisitInv(u)' /\ SinceInv(u)'
      BY DEF BrowserTypeOK, VisitInv, SinceInv, Inside, PageOps
    <2>3. LeakOK
      BY DEF BrowserTypeOK, Leaked, VisitInv, PageOps
    <2> QED BY <2>1, <2>2, <2>3
  <1>7. ASSUME NEW v \in Visitors, OpenTab(v) PROVE Kept
    <2> USE <1>t, <1>7 DEF OpenTab, At, Goes
    <2>1. BrowserTypeOK'
      <3>0. tabCount' \in Tab \cup {NoPage}
        BY DEF BrowserTypeOK
      <3>1. visit' \in VisitType
        <4>1. visit \in VisitType
          BY DEF BrowserTypeOK, VisitType
        <4> QED BY <3>0, <4>1, GoesType
      <3>2. since' \in [Visitors -> 0 .. MaxTabs] /\ tabs' \subseteq Tab /\ lock' \subseteq Visitors
        BY DEF BrowserTypeOK
      <3>3. page' \in Tab \cup {NoPage} /\ tabCount' \in 0 .. MaxTabs /\ spoilt' \in Nat
        BY DEF BrowserTypeOK
      <3> QED BY <3>1, <3>2, <3>3 DEF BrowserTypeOK, VisitType
    <2>2. ASSUME NEW u \in Visitors PROVE VisitInv(u)' /\ SinceInv(u)'
      BY DEF BrowserTypeOK, VisitInv, SinceInv, Inside, PageOps
    <2>3. LeakOK
      BY DEF BrowserTypeOK, Leaked, VisitInv, PageOps
    <2> QED BY <2>1, <2>2, <2>3
  <1>8. ASSUME NEW v \in Visitors, OpenFails(v) PROVE Kept
    <2> USE <1>t, <1>8 DEF OpenFails, At, Leaves
    <2>1. BrowserTypeOK'
      BY DEF BrowserTypeOK, PageOps, BrowserOps
    <2>2. ASSUME NEW u \in Visitors PROVE VisitInv(u)' /\ SinceInv(u)'
      BY DEF BrowserTypeOK, VisitInv, SinceInv, Inside, PageOps
    <2>3. LeakOK
      BY DEF BrowserTypeOK, Leaked, VisitInv, PageOps
    <2> QED BY <2>1, <2>2, <2>3
  <1>9. ASSUME NEW v \in Visitors, Arrive(v) PROVE Kept
    <2> USE <1>t, <1>9 DEF Arrive, At, Leaves
    <2>1. BrowserTypeOK'
      BY DEF BrowserTypeOK, PageOps, BrowserOps
    <2>2. ASSUME NEW u \in Visitors PROVE VisitInv(u)' /\ SinceInv(u)'
      <3>1. VisitInv(u)'
        <4>1. CASE u = v
          BY <4>1 DEF BrowserTypeOK, VisitInv, Inside, PageOps
        <4>2. CASE u # v
          <5>1. visit'[u] = visit[u]
            BY <4>2 DEF BrowserTypeOK
          <5>2. lock = {v} /\ (Inside(u) => lock = {u})
            BY DEF VisitInv, Inside
          <5>3. ~Inside(u)
            BY <4>2, <5>2
          <5> QED BY <5>1, <5>3 DEF VisitInv, Inside
        <4> QED BY <4>1, <4>2
      <3>2. SinceInv(u)'
        <4>1. \A w \in Visitors : visit[w].pc = "loading" => w = v
          BY DEF VisitInv, Inside
        <4> QED BY <4>1 DEF BrowserTypeOK, SinceInv
      <3> QED BY <3>1, <3>2
    <2>3. LeakOK
      BY DEF BrowserTypeOK, Leaked, VisitInv, PageOps
    <2> QED BY <2>1, <2>2, <2>3
  <1>10. ASSUME NEW v \in Visitors, LoadFails(v) PROVE Kept
    <2> USE <1>t, <1>10 DEF LoadFails, At, Leaves
    <2>1. BrowserTypeOK'
      BY DEF BrowserTypeOK, PageOps, BrowserOps
    <2>2. ASSUME NEW u \in Visitors PROVE VisitInv(u)' /\ SinceInv(u)'
      BY DEF BrowserTypeOK, VisitInv, SinceInv, Inside, PageOps
    <2>3. LeakOK
      BY DEF BrowserTypeOK, Leaked, VisitInv, PageOps
    <2> QED BY <2>1, <2>2, <2>3
  <1>11. ASSUME NEW v \in Visitors, CannotAct(v) PROVE Kept
    <2> USE <1>t, <1>11 DEF CannotAct, Leaves
    <2>1. BrowserTypeOK'
      BY DEF BrowserTypeOK, PageOps, BrowserOps
    <2>2. ASSUME NEW u \in Visitors PROVE VisitInv(u)' /\ SinceInv(u)'
      BY DEF BrowserTypeOK, VisitInv, SinceInv, Inside, PageOps
    <2>3. LeakOK
      BY DEF BrowserTypeOK, Leaked, VisitInv, PageOps
    <2> QED BY <2>1, <2>2, <2>3
  <1>12. ASSUME NEW v \in Visitors, Act(v) PROVE Kept
    <2> USE <1>t, <1>12 DEF Act, Goes
    <2>1. BrowserTypeOK'
      BY DEF BrowserTypeOK, PageOps, BrowserOps
    <2>2. ASSUME NEW u \in Visitors PROVE VisitInv(u)' /\ SinceInv(u)'
      BY DEF BrowserTypeOK, VisitInv, SinceInv, Inside, PageOps
    <2>3. LeakOK
      BY DEF BrowserTypeOK, Leaked, VisitInv, PageOps
    <2> QED BY <2>1, <2>2, <2>3
  <1>13. ASSUME NEW v \in Visitors, Answer(v) PROVE Kept
    <2> USE <1>t, <1>13 DEF Answer, At, Leaves
    <2>1. BrowserTypeOK'
      BY DEF BrowserTypeOK, PageOps, BrowserOps
    <2>2. ASSUME NEW u \in Visitors PROVE VisitInv(u)' /\ SinceInv(u)'
      BY DEF BrowserTypeOK, VisitInv, SinceInv, Inside, PageOps
    <2>3. LeakOK
      BY DEF BrowserTypeOK, Leaked, VisitInv, PageOps
    <2> QED BY <2>1, <2>2, <2>3
  <1>14. ASSUME NEW v \in Visitors, Click(v) PROVE Kept
    <2> USE <1>t, <1>14 DEF Click, At, Goes, Leaves
    <2>1. BrowserTypeOK'
      BY DEF BrowserTypeOK, PageOps, BrowserOps
    <2>2. ASSUME NEW u \in Visitors PROVE VisitInv(u)' /\ SinceInv(u)'
      BY DEF BrowserTypeOK, VisitInv, SinceInv, Inside, PageOps
    <2>3. LeakOK
      BY DEF BrowserTypeOK, Leaked, VisitInv, PageOps
    <2> QED BY <2>1, <2>2, <2>3
  <1>15. ASSUME NEW v \in Visitors, GoBack(v) PROVE Kept
    <2> USE <1>t, <1>15 DEF GoBack, At, Goes, Leaves
    <2>1. BrowserTypeOK'
      BY DEF BrowserTypeOK, PageOps, BrowserOps
    <2>2. ASSUME NEW u \in Visitors PROVE VisitInv(u)' /\ SinceInv(u)'
      BY DEF BrowserTypeOK, VisitInv, SinceInv, Inside, PageOps
    <2>3. LeakOK
      BY DEF BrowserTypeOK, Leaked, VisitInv, PageOps
    <2> QED BY <2>1, <2>2, <2>3
  <1>16. ASSUME NEW v \in Visitors, WaitForSelector(v) PROVE Kept
    <2> USE <1>t, <1>16 DEF WaitForSelector, At, Goes, Leaves
    <2>1. BrowserTypeOK'
      BY DEF BrowserTypeOK, PageOps, BrowserOps
    <2>2. ASSUME NEW u \in Visitors PROVE VisitInv(u)' /\ SinceInv(u)'
      BY DEF BrowserTypeOK, VisitInv, SinceInv, Inside, PageOps
    <2>3. LeakOK
      BY DEF BrowserTypeOK, Leaked, VisitInv, PageOps
    <2> QED BY <2>1, <2>2, <2>3
  <1>17. ASSUME NEW v \in Visitors, CutOff(v) PROVE Kept
    <2> USE <1>t, <1>17 DEF CutOff, At, Leaves
    <2>1. BrowserTypeOK'
      <3>1. visit' \in VisitType
        BY DEF BrowserTypeOK, VisitType
      <3>2. since' \in [Visitors -> 0 .. MaxTabs] /\ tabs' \subseteq Tab /\ lock' \subseteq Visitors
        <4>1. tabs' = tabs \/ (tabs' = tabs \cup {tabCount + 1} /\ tabCount < MaxTabs)
          OBVIOUS
        <4>2. tabCount \in Nat
          BY DEF BrowserTypeOK
        <4>3. tabs' \subseteq Tab
          BY <4>1, <4>2, NextTab DEF BrowserTypeOK
        <4> QED BY <4>3 DEF BrowserTypeOK
      <3>3. page' \in Tab \cup {NoPage} /\ tabCount' \in 0 .. MaxTabs /\ spoilt' \in Nat
        BY DEF BrowserTypeOK
      <3> QED BY <3>1, <3>2, <3>3 DEF BrowserTypeOK, VisitType
    <2>2. ASSUME NEW u \in Visitors PROVE VisitInv(u)' /\ SinceInv(u)'
      BY DEF BrowserTypeOK, VisitInv, SinceInv, Inside, PageOps
    <2>3. LeakOK
      BY DEF BrowserTypeOK, Leaked, VisitInv, PageOps
    <2> QED BY <2>1, <2>2, <2>3
  <1>18. ASSUME BrowserCrashes PROVE Kept
    BY <1>t, <1>18 DEF BrowserCrashes, BrowserTypeOK, VisitInv, SinceInv, Inside, Leaked
  <1>19. ASSUME UNCHANGED browserVars PROVE Kept
    BY <1>t, <1>19 DEF browserVars, BrowserTypeOK, VisitInv, SinceInv, Inside, Leaked
  <1> QED
    BY <1>1, <1>2, <1>3, <1>4, <1>5, <1>6, <1>7, <1>8, <1>9, <1>10, <1>11, <1>12, <1>13, <1>14, <1>15, <1>16, <1>17, <1>18, <1>19 DEF BrowserNext

(* Whatever runs share the browser, an operation ends on the page it began *)
(* on, nobody works on an older page than the one it gave up, and tabs     *)
(* leak only where a navigation did not end well.                          *)
THEOREM SharedPageKept == BrowserSpec => []PageKept
  <1>1. BrowserInv => PageKept
    BY DEF BrowserInv, PageKept, OperationKeepsItsPage, NeverOnAnOlderPage, Acting,
           TabsLeakOnlyByFailure, Leaked, VisitInv, SinceInv
  <1>2. BrowserSpec => []BrowserInv
    BY BrowserInitInv, BrowserStepInv, PTL DEF BrowserSpec
  <1> QED BY <1>1, <1>2, PTL

(* Browser: the types (BrowserTypeOK) of the tabs and the calls.           *)
THEOREM BrowserTypeCorrect == BrowserSpec => []BrowserTypeOK
  <1>1. BrowserInv => BrowserTypeOK
    BY DEF BrowserInv
  <1> QED BY BrowserInitInv, BrowserStepInv, <1>1, PTL DEF BrowserSpec

-----------------------------------------------------------------------------
(* AgentMail: who is registered.                                           *)

AtWork == {"registering", "supervising", "cleanup", "stranded"}

(* A registration is of a member by a run at work, and one that cleans up  *)
(* has still to come to it.                                                *)
BoxInv(a) ==
  mailbox[a] # Nobody => \E r \in MailRuns :
    /\ mailbox[a].by = r
    /\ a \in MailMembers[r]
    /\ phase[r] \in AtWork
    /\ phase[r] = "cleanup" => a \in todo[r]

RunTodo(r) == phase[r] = "registering" => todo[r] \subseteq MailMembers[r]

RegInv ==
  /\ MailTypeOK
  /\ \A a \in MailAgents : BoxInv(a)
  /\ \A r \in MailRuns : RunTodo(r)

LEMMA RegInit == MailInit => RegInv
  BY MailAssumption
  DEF MailInit, RegInv, MailTypeOK, BoxInv, RunTodo, Nobody, MailIds

LEMMA RegStep == MailTypeOK' /\ RegInv /\ [MailNext]_mailVars => RegInv'
  <1> SUFFICES ASSUME MailTypeOK', RegInv, [MailNext]_mailVars PROVE RegInv'
    OBVIOUS
  <1> USE MailAssumption DEF RegInv, MailTypeOK, BoxInv, RunTodo, AtWork, Moves
  <1>1. ASSUME NEW r \in MailRuns, StartTeam(r) PROVE RegInv'
    BY <1>1 DEF StartTeam
  <1>2. ASSUME NEW r \in MailRuns, NEW a \in MailAgents, Register(r, a) PROVE RegInv'
    <2>1. ASSUME NEW b \in MailAgents PROVE BoxInv(b)'
      <3>1. CASE b = a
        <4>1. mailbox'[b].by = r /\ phase'[r] = "registering" /\ b \in MailMembers[r]
          BY <1>2, <3>1 DEF Register
        <4> QED BY <4>1
      <3>2. CASE b # a
        <4>1. mailbox'[b] = mailbox[b] /\ phase' = phase
          BY <1>2, <3>2 DEF Register
        <4> QED BY <1>2, <4>1 DEF Register
      <3> QED BY <3>1, <3>2
    <2> QED BY <1>2, <2>1 DEF Register
  <1>3. ASSUME NEW r \in MailRuns, NEW a \in MailAgents, DropMailbox(r, a) PROVE RegInv'
    <2>1. mailbox[a] # Nobody /\ mailbox[a].by = r
      BY <1>3 DEF DropMailbox, Nobody
    <2>2. mailbox'[a].by = r /\ phase' = phase /\ todo' = todo
      BY <1>3, <2>1 DEF DropMailbox
    <2>3. BoxInv(a)'
      BY <2>1, <2>2
    <2>4. ASSUME NEW b \in MailAgents, b # a PROVE BoxInv(b)'
      BY <1>3, <2>4 DEF DropMailbox
    <2> QED BY <2>2, <2>3, <2>4
  <1>4. ASSUME NEW r \in MailRuns, Announce(r) \/ SupervisorMissing(r) \/ StartCleanup(r)
        PROVE RegInv'
    BY <1>4 DEF Announce, SupervisorMissing, StartCleanup
  <1>5. ASSUME NEW r \in MailRuns, NEW a \in MailAgents, Unregister(r, a) PROVE RegInv'
    <2>1. mailbox'[a] = Nobody
      BY <1>5 DEF Unregister
    <2>2. ASSUME NEW b \in MailAgents, b # a PROVE BoxInv(b)'
      BY <1>5, <2>2 DEF Unregister
    <2> QED BY <1>5, <2>1, <2>2 DEF Unregister
  <1>6. ASSUME NEW r \in MailRuns, EndTeam(r) \/ DropTeam(r) PROVE RegInv'
    BY <1>6 DEF EndTeam, DropTeam
  <1>7. ASSUME mailbox' = mailbox, phase' = phase, todo' = todo PROVE RegInv'
    BY <1>7
  <1>8. ASSUME NEW r \in MailRuns, NEW a \in MailAgents,
               NEW stores \in MayStore,
               \/ SendMessage(r, a, stores) \/ SendFile(r, a, stores)
               \/ \E d \in Delegators(r) : Delegate(r, d, a, stores)
        PROVE  RegInv'
    BY <1>8, <1>7 DEF SendMessage, SendFile, SendOne, Delegate
  <1>9. ASSUME NEW r \in MailRuns, NEW k \in awaited[r],
               \/ \E stores \in MayStore : StoreResult(r, k, stores)
               \/ Report(r, k) \/ DelegateFails(r, k) \/ CallTimesOut(r, k)
        PROVE  RegInv'
    BY <1>9, <1>7 DEF StoreResult, Report, DelegateFails, CallTimesOut, Tell
  <1>10. ASSUME UNCHANGED mailVars PROVE RegInv'
    BY <1>10, <1>7 DEF mailVars
  <1> QED
    BY <1>1, <1>2, <1>3, <1>4, <1>5, <1>6, <1>8, <1>9, <1>10 DEF MailNext

-----------------------------------------------------------------------------
(* AgentMail: what is told of a message.                                   *)

MailRow ==
  [id : MailIds, team : MailRuns, to : MailAgents \cup {Supervisor},
   kind : {"direct", "file", "delegation", "result"}, at : Nat]

CountsInv ==
  /\ mailCount \in 0 .. MaxMail
  /\ rows \subseteq MailRow /\ IsFiniteSet(rows)
  /\ \A w \in rows : w.id <= mailCount
  /\ \A i \in MailIds : i > mailCount => told[i] = "unsent"
  /\ \A r \in MailRuns : shared[r] <= mailCount

(* Each delegation that is awaited has a number of its own, greater than   *)
(* those of the delegations in whose course it was made.                   *)
CallInv(r, k) ==
  /\ k.id <= mailCount /\ told[k.id] = "pending"
  /\ \A i \in k.within : i < k.id
  /\ \A s \in MailRuns : \A c \in awaited[s] : c.id = k.id => s = r /\ c = k

AwaitedInv == \A r \in MailRuns : \A k \in awaited[r] : CallInv(r, k)

ToldOf == {"unsent", "pending", "sent", "refused", "completed", "failed", "dropped"}
Told == {"sent", "pending", "completed", "failed"}

(* The row that a message was stored as, with its file. *)
RowOf(i, w) == w.id = i /\ w.kind # "result" /\ (w.kind = "file" => shared[w.team] >= i)
StoredInv(i) == told[i] \in Told => \E w \in rows : RowOf(i, w)

MailInv ==
  /\ MailTypeOK /\ CountsInv /\ AwaitedInv
  /\ \A i \in MailIds : StoredInv(i)

LEMMA MailInitInv == MailInit => MailInv
  <1> SUFFICES ASSUME MailInit PROVE MailInv
    OBVIOUS
  <1> USE MailAssumption DEF MailInit, MailIds
  <1>1. MailTypeOK
    BY DEF MailTypeOK, Nobody
  <1>2. CountsInv
    BY FS_EmptySet DEF CountsInv
  <1>3. AwaitedInv
    BY DEF AwaitedInv
  <1>4. \A i \in MailIds : StoredInv(i)
    BY DEF StoredInv, Told
  <1> QED BY <1>1, <1>2, <1>3, <1>4 DEF MailInv

(* An awaited call, as its type and its invariant say. *)
LEMMA CallFacts ==
  ASSUME MailInv, NEW r \in MailRuns, NEW k \in awaited[r]
  PROVE  /\ k \in Delegation /\ k.id \in MailIds /\ k.id \in Nat /\ k.id <= mailCount
         /\ told[k.id] = "pending" /\ k.within \subseteq MailIds /\ k.id \notin k.within
         /\ k.to \in MailAgents /\ k.by \in MailAgents \cup {Supervisor}
         /\ \A s \in MailRuns : \A c \in awaited[s] : c.id = k.id => s = r /\ c = k
  <1>1. k \in Delegation
    BY DEF MailInv, MailTypeOK
  <1>2. CallInv(r, k)
    BY DEF MailInv, AwaitedInv
  <1>3. k.id \in MailIds /\ k.id \in Nat /\ k.within \subseteq MailIds
    BY <1>1 DEF Delegation, MailIds
  <1>4. k.to \in MailAgents /\ k.by \in MailAgents \cup {Supervisor}
    BY <1>1 DEF Delegation
  <1>5. k.id \notin k.within
    BY <1>2, <1>3 DEF CallInv
  <1> QED BY <1>1, <1>2, <1>3, <1>4, <1>5 DEF CallInv

(* Whoever may delegate does it in the course of earlier delegations. *)
LEMMA DelegatorFacts ==
  ASSUME MailInv, NEW r \in MailRuns, NEW d \in Delegators(r)
  PROVE  /\ d.by \in MailAgents \cup {Supervisor} /\ d.within \subseteq MailIds
         /\ \A i \in d.within : i <= mailCount
  <1>1. CASE d = [by |-> Supervisor, within |-> {}]
    BY <1>1
  <1>2. ASSUME NEW k \in awaited[r], d = [by |-> k.to, within |-> k.within \cup {k.id}]
        PROVE  /\ d.by \in MailAgents \cup {Supervisor} /\ d.within \subseteq MailIds
               /\ \A i \in d.within : i <= mailCount
    <2>1. /\ k.id \in MailIds /\ k.id <= mailCount /\ k.within \subseteq MailIds
          /\ k.to \in MailAgents
      BY CallFacts
    <2>2. CallInv(r, k) /\ mailCount \in Nat
      BY MailAssumption DEF MailInv, AwaitedInv, CountsInv
    <2>3. ASSUME NEW i \in k.within PROVE i <= mailCount
      BY <2>1, <2>2 DEF CallInv, MailIds
    <2> QED BY <1>2, <2>1, <2>3
  <1> QED BY <1>1, <1>2 DEF Delegators

(* A new message is stored, or the caller is told that it was refused. *)
LEMMA NewMessage ==
  ASSUME MailInv, mailCount < MaxMail,
         NEW r \in MailRuns, NEW to \in MailAgents, NEW stores,
         NEW kind \in {"direct", "file", "delegation"},
         mailCount' = mailCount + 1,
         rows' = Stored(NewRow(r, to, kind), stores),
         NEW as \in {"sent", "pending"},
         told' = [told EXCEPT ![mailCount'] = IF Refused(to, stores) THEN "refused" ELSE as],
         shared' = IF kind = "file" THEN [shared EXCEPT ![r] = mailCount + 1] ELSE shared
  PROVE  CountsInv' /\ \A i \in MailIds : StoredInv(i)'
  <1> USE MailAssumption DEF MailInv, MailTypeOK, CountsInv, MailIds
  <1> DEFINE new == NewRow(r, to, kind)
  <1>1. mailCount \in Nat /\ mailCount' \in 1 .. MaxMail /\ MaxMail \in Nat
    OBVIOUS
  <1>2. new \in MailRow /\ new.id = mailCount' /\ new.kind = kind /\ new.team = r
    <2>1. Cardinality(rows) \in Nat
      BY FS_CardinalityType
    <2> QED BY <1>1, <2>1 DEF NewRow, MailRow
  <1>3. rows' = rows \/ rows' = rows \cup {new}
    BY DEF Stored
  <1> HIDE DEF new
  <1>4. IsFiniteSet(rows')
    <2>1. IsFiniteSet(rows \cup {new})
      BY FS_AddElement
    <2> QED BY <1>3, <2>1
  <1>5. \A i \in MailIds : i # mailCount' => told'[i] = told[i]
    OBVIOUS
  <1>6. \A s \in MailRuns : shared'[s] \in Nat /\ shared[s] \in Nat /\ shared'[s] >= shared[s]
          /\ shared'[s] <= mailCount'
    BY <1>1
  <1>7. rows' \subseteq MailRow /\ \A w \in rows' : w.id <= mailCount'
    <2>1. ASSUME NEW w \in rows PROVE w.id <= mailCount'
      <3>1. w.id \in Nat /\ w.id <= mailCount
        BY DEF MailRow
      <3> QED BY <3>1, <1>1
    <2> QED BY <1>1, <1>2, <1>3, <2>1
  <1>8. \A i \in MailIds : i > mailCount' => told'[i] = "unsent"
    <2>1. ASSUME NEW i \in MailIds, i > mailCount' PROVE i > mailCount /\ i # mailCount'
      BY <1>1, <2>1
    <2> QED BY <1>5, <2>1
  <1>9. CountsInv'
    <2>1. mailCount' \in 0 .. MaxMail
      BY <1>1
    <2> QED BY <2>1, <1>4, <1>6, <1>7, <1>8
  <1>11. ASSUME NEW i \in MailIds PROVE StoredInv(i)'
    <2>1. CASE i = mailCount'
      <3>1. told'[i] \in Told => ~Refused(to, stores)
        <4>1. told'[i] = IF Refused(to, stores) THEN "refused" ELSE as
          BY <1>1, <2>1
        <4> QED BY <4>1 DEF Told
      <3>2. ~Refused(to, stores) => new \in rows'
        BY DEF Refused, Stored, new
      <3>3. /\ new.id = i /\ new.kind # "result"
            /\ new.kind = "file" => shared'[new.team] >= i
        BY <1>1, <1>2, <2>1
      <3> QED BY <3>1, <3>2, <3>3 DEF StoredInv, RowOf
    <2>2. CASE i # mailCount'
      <3>1. \A w \in rows : RowOf(i, w) => RowOf(i, w)'
        BY <1>6 DEF RowOf, MailRow
      <3>2. rows \subseteq rows'
        BY <1>3
      <3> QED BY <1>5, <2>2, <3>1, <3>2 DEF StoredInv
    <2> QED BY <2>1, <2>2
  <1> QED BY <1>9, <1>11

(* A message that awaits no result leaves the calls as they are. *)
LEMMA OtherMessage ==
  ASSUME MailInv, mailCount < MaxMail, NEW as \in ToldOf, mailCount' = mailCount + 1,
         told' = [told EXCEPT ![mailCount'] = as], awaited' = awaited
  PROVE  AwaitedInv'
  <1> SUFFICES ASSUME NEW r \in MailRuns, NEW k \in awaited[r] PROVE CallInv(r, k)'
    BY DEF AwaitedInv
  <1>1. mailCount \in Nat /\ CallInv(r, k)
    BY MailAssumption DEF MailInv, AwaitedInv, CountsInv
  <1>2. /\ k.id \in MailIds /\ k.id \in Nat /\ k.id <= mailCount
        /\ told[k.id] = "pending"
    BY CallFacts
  <1>3. k.id # mailCount' /\ k.id <= mailCount'
    BY <1>1, <1>2
  <1>4. told'[k.id] = "pending"
    BY <1>2, <1>3 DEF MailInv, MailTypeOK
  <1> QED BY <1>1, <1>3, <1>4 DEF CallInv

(* The steps of the runs that touch neither the table nor a tool call.     *)
LEMMA MailKeptInv ==
  ASSUME MailInv, MailTypeOK', UNCHANGED postVars PROVE MailInv'
  BY DEF MailInv, postVars, CountsInv, AwaitedInv, CallInv, StoredInv, RowOf

(* Tool calls of r end, and their callers are told. *)
LEMMA CallsEnd ==
  ASSUME MailInv, NEW r \in MailRuns, NEW S \in SUBSET awaited[r],
         told' \in [MailIds -> ToldOf],
         \A i \in MailIds : (\A k \in S : k.id # i) => told'[i] = told[i],
         awaited' = [awaited EXCEPT ![r] = @ \ S],
         phase' \in [MailRuns -> {"idle", "registering", "supervising", "cleanup", "ended",
                                  "stranded"}],
         UNCHANGED <<mailbox, rosters, todo, mailCount, rows, shared, lost>>
  PROVE  MailInv'
  <1> USE MailAssumption
  <1>t. MailTypeOK
    BY DEF MailInv
  <1>1. MailTypeOK'
    <2>1. awaited' \in [MailRuns -> SUBSET Delegation]
      BY <1>t DEF MailTypeOK
    <2> QED BY <1>t, <2>1 DEF MailTypeOK, ToldOf, Nobody
  <1>2. CountsInv'
    <2>1. ASSUME NEW i \in MailIds, i > mailCount PROVE told'[i] = "unsent"
      <3>1. ASSUME NEW k \in S PROVE k.id # i
        <4>1. k.id \in Nat /\ k.id <= mailCount /\ mailCount \in Nat
          BY CallFacts DEF MailInv, CountsInv
        <4> QED BY <2>1, <4>1 DEF MailIds
      <3> QED BY <2>1, <3>1 DEF MailInv, CountsInv
    <2> QED BY <2>1 DEF MailInv, CountsInv
  <1>3. ASSUME NEW s \in MailRuns, NEW k \in awaited'[s] PROVE CallInv(s, k)'
    <2>1. k \in awaited[s] /\ (s = r => k \notin S)
      BY <1>t, <1>3 DEF MailTypeOK
    <2>2. CallInv(s, k)
      BY <2>1 DEF MailInv, AwaitedInv
    <2>3. k.id \in MailIds
      BY <2>1, CallFacts
    <2>4. \A c \in S : c.id # k.id
      BY <2>1, <2>2 DEF CallInv
    <2>5. told'[k.id] = "pending"
      BY <2>2, <2>3, <2>4 DEF CallInv
    <2>6. \A q \in MailRuns : awaited'[q] \subseteq awaited[q]
      BY <1>t DEF MailTypeOK
    <2> QED BY <2>2, <2>5, <2>6 DEF CallInv
  <1>4. ASSUME NEW i \in MailIds PROVE StoredInv(i)'
    <2>1. told'[i] = told[i] \/ told[i] = "pending"
      BY CallFacts
    <2>2. told'[i] \in Told => told[i] \in Told
      BY <2>1 DEF Told
    <2> QED BY <2>2 DEF MailInv, StoredInv, RowOf
  <1> QED BY <1>1, <1>2, <1>3, <1>4 DEF MailInv, AwaitedInv

(* To end a call is to end those made in its course with it. *)
LEMMA TellEnds ==
  ASSUME MailInv, NEW r \in MailRuns, NEW k \in awaited[r],
         NEW what \in {"completed", "failed", "dropped"}, Tell(r, k, what)
  PROVE  MailInv'
  <1> DEFINE S == MadeWithin(r, k) \cup {k}
  <1>1. S \in SUBSET awaited[r]
    BY DEF MadeWithin
  <1>2. told' \in [MailIds -> ToldOf]
    <2>1. told \in [MailIds -> ToldOf]
      BY DEF MailInv, MailTypeOK, ToldOf
    <2> QED BY <2>1 DEF Tell, ToldOf
  <1>3. \A i \in MailIds : (\A c \in S : c.id # i) => told'[i] = told[i]
    BY DEF Tell
  <1>4. awaited' = [awaited EXCEPT ![r] = @ \ S]
    <2>1. \A T : (T \ MadeWithin(r, k)) \ {k} = T \ S
      OBVIOUS
    <2> QED BY <2>1 DEF Tell
  <1>5. UNCHANGED <<mailbox, rosters, phase, todo, mailCount, rows, shared, lost>>
    BY DEF Tell
  <1>6. phase' \in [MailRuns -> {"idle", "registering", "supervising", "cleanup", "ended",
                                 "stranded"}]
    BY <1>5 DEF MailInv, MailTypeOK
  <1> HIDE DEF S
  <1> QED BY <1>1, <1>2, <1>3, <1>4, <1>5, <1>6, CallsEnd

(* What Report, DelegateFails and CallTimesOut have in common. *)
LEMMA CallsAreTold ==
  ASSUME NEW r \in MailRuns, NEW k \in awaited[r],
         Report(r, k) \/ DelegateFails(r, k) \/ CallTimesOut(r, k)
  PROVE  \E what \in {"completed", "failed", "dropped"} :
           /\ Tell(r, k, what)
           /\ what = "completed" => Answered(k.id)
           /\ what = "failed" => ~Answered(k.id)
  <1>1. CASE Report(r, k)
    BY <1>1 DEF Report
  <1>2. CASE DelegateFails(r, k)
    BY <1>2 DEF DelegateFails
  <1>3. CASE CallTimesOut(r, k)
    BY <1>3 DEF CallTimesOut
  <1> QED BY <1>1, <1>2, <1>3

LEMMA MailStepInv == MailInv /\ [MailNext]_mailVars => MailInv'
  <1> SUFFICES ASSUME MailInv, [MailNext]_mailVars PROVE MailInv'
    OBVIOUS
  <1> USE MailAssumption
  <1>t. MailTypeOK /\ mailCount \in 0 .. MaxMail /\ MaxMail \in Nat
    BY DEF MailInv, CountsInv
  <1>1. ASSUME NEW r \in MailRuns,
               \/ StartTeam(r) \/ Announce(r) \/ SupervisorMissing(r) \/ StartCleanup(r)
               \/ EndTeam(r)
        PROVE  MailInv'
    <2>1. MailTypeOK' /\ UNCHANGED postVars
      BY <1>t, <1>1 DEF MailTypeOK, StartTeam, Announce, SupervisorMissing, StartCleanup, EndTeam,
                        Moves, postVars
    <2> QED BY <2>1, MailKeptInv
  <1>2. ASSUME NEW r \in MailRuns, NEW a \in MailAgents,
               Register(r, a) \/ DropMailbox(r, a) \/ Unregister(r, a)
        PROVE  MailInv'
    <2> DEFINE Box == [by : MailRuns, open : BOOLEAN] \cup {Nobody}
    <2>1. UNCHANGED <<rosters, phase>> /\ UNCHANGED postVars
      BY <1>2 DEF Register, DropMailbox, Unregister
    <2>2. todo' \in [MailRuns -> SUBSET MailAgents]
      BY <1>t, <1>2 DEF MailTypeOK, Register, DropMailbox, Unregister
    <2>3. \E box \in Box : mailbox' = [mailbox EXCEPT ![a] = box]
      <3>1. CASE Register(r, a)
        <4>1. [by |-> r, open |-> TRUE] \in Box
          OBVIOUS
        <4> QED BY <3>1, <4>1 DEF Register
      <3>2. CASE DropMailbox(r, a)
        <4>1. [by |-> r, open |-> FALSE] \in Box
          OBVIOUS
        <4> QED BY <3>2, <4>1 DEF DropMailbox
      <3>3. CASE Unregister(r, a)
        <4>1. Nobody \in Box
          OBVIOUS
        <4> QED BY <3>3, <4>1 DEF Unregister
      <3> QED BY <1>2, <3>1, <3>2, <3>3
    <2>4. mailbox' \in [MailAgents -> Box]
      <3>1. mailbox \in [MailAgents -> Box]
        BY <1>t DEF MailTypeOK
      <3> HIDE DEF Box
      <3> QED BY <2>3, <3>1
    <2>5. MailTypeOK'
      <3>1. mailbox' \in [MailAgents -> [by : MailRuns, open : BOOLEAN] \cup {Nobody'}]
        BY <2>4 DEF Nobody
      <3> QED BY <1>t, <2>1, <2>2, <3>1 DEF MailTypeOK, postVars
    <2> QED BY <2>1, <2>5, MailKeptInv
  <1>3. ASSUME NEW r \in MailRuns, NEW a \in MailAgents, NEW kind \in {"direct", "file"},
               NEW stores, SendOne(r, a, kind, stores),
               shared' = IF kind = "file" THEN [shared EXCEPT ![r] = mailCount + 1] ELSE shared
        PROVE  MailInv'
    <2> DEFINE as == IF Refused(a, stores) THEN "refused" ELSE "sent"
    <2>1. MailTypeOK'
      <3>1. shared' \in [MailRuns -> 0 .. MaxMail]
        BY <1>t, <1>3 DEF MailTypeOK, SendOne
      <3> QED BY <1>t, <1>3, <3>1 DEF MailTypeOK, SendOne
    <2>2. CountsInv' /\ \A i \in MailIds : StoredInv(i)'
      <3>1. "sent" \in {"sent", "pending"} /\ kind \in {"direct", "file", "delegation"}
        OBVIOUS
      <3> QED BY <1>3, <3>1, NewMessage DEF SendOne
    <2>3. AwaitedInv'
      <3>1. as \in ToldOf /\ told' = [told EXCEPT ![mailCount'] = as]
        BY <1>3 DEF SendOne, ToldOf
      <3> QED BY <1>3, <3>1, OtherMessage DEF SendOne
    <2> QED BY <2>1, <2>2, <2>3 DEF MailInv
  <1>4. ASSUME NEW r \in MailRuns, NEW a \in MailAgents, NEW stores, NEW d \in Delegators(r),
               Delegate(r, d, a, stores)
        PROVE  MailInv'
    <2> DEFINE new == [id |-> mailCount + 1, by |-> d.by, to |-> a, within |-> d.within]
    <2>1. mailCount \in Nat /\ mailCount' = mailCount + 1 /\ mailCount' \in MailIds
      BY <1>t, <1>4 DEF Delegate, MailIds
    <2>2. new \in Delegation /\ new.id = mailCount' /\ \A i \in new.within : i < new.id
      <3>1. /\ d.by \in MailAgents \cup {Supervisor} /\ d.within \subseteq MailIds
            /\ \A i \in d.within : i <= mailCount
        BY DelegatorFacts
      <3>2. \A i \in d.within : i < mailCount + 1
        BY <2>1, <3>1 DEF MailIds
      <3> QED BY <2>1, <3>1, <3>2 DEF Delegation
    <2>3. awaited' = awaited \/ awaited' = [awaited EXCEPT ![r] = @ \cup {new}]
      BY <1>t, <1>4 DEF Delegate, MailTypeOK
    <2>4. ~Refused(a, stores) => told'[mailCount'] = "pending"
      BY <1>t, <1>4, <2>1 DEF Delegate, MailTypeOK
    <2>5. Refused(a, stores) => awaited' = awaited
      BY <1>t, <1>4 DEF Delegate, MailTypeOK
    <2> HIDE DEF new
    <2>6. MailTypeOK'
      <3>1. awaited' \in [MailRuns -> SUBSET Delegation]
        BY <1>t, <2>2, <2>3 DEF MailTypeOK
      <3>2. told' \in [MailIds -> ToldOf]
        BY <1>t, <1>4, <2>1 DEF MailTypeOK, Delegate, ToldOf
      <3>3. UNCHANGED <<mailbox, rosters, phase, todo, shared, lost>>
        BY <1>4 DEF Delegate
      <3> QED BY <1>t, <3>1, <3>2, <3>3 DEF MailTypeOK, Nobody, ToldOf
    <2>7. CountsInv' /\ \A i \in MailIds : StoredInv(i)'
      <3>1. "pending" \in {"sent", "pending"} /\ "delegation" \in {"direct", "file", "delegation"}
        OBVIOUS
      <3> QED BY <1>4, <3>1, NewMessage DEF Delegate
    <2>8. ASSUME NEW s \in MailRuns, NEW k \in awaited[s]
          PROVE  /\ k.id # mailCount' /\ k.id <= mailCount' /\ told'[k.id] = "pending"
                 /\ CallInv(s, k)
      <3>1. k.id \in MailIds /\ k.id \in Nat /\ k.id <= mailCount /\ told[k.id] = "pending"
        BY CallFacts
      <3>2. CallInv(s, k)
        BY DEF MailInv, AwaitedInv
      <3>3. k.id # mailCount' /\ k.id <= mailCount'
        BY <2>1, <3>1
      <3>4. told'[k.id] = told[k.id]
        BY <1>t, <1>4, <3>1, <3>3 DEF Delegate, MailTypeOK
      <3> QED BY <3>1, <3>2, <3>3, <3>4
    <2>9. ASSUME awaited' = awaited PROVE AwaitedInv'
      <3>1. ASSUME NEW s \in MailRuns, NEW k \in awaited'[s] PROVE CallInv(s, k)'
        <4>1. k \in awaited[s]
          BY <2>9
        <4>2. CallInv(s, k) /\ k.id <= mailCount' /\ told'[k.id] = "pending"
          BY <2>8, <4>1
        <4> QED BY <2>9, <4>2 DEF CallInv
      <3> QED BY <3>1 DEF AwaitedInv
    <2>10. ASSUME awaited' # awaited PROVE AwaitedInv'
      <3>1. awaited' = [awaited EXCEPT ![r] = @ \cup {new}] /\ told'[new.id] = "pending"
        BY <2>2, <2>3, <2>4, <2>5, <2>10
      <3>2. ASSUME NEW s \in MailRuns, NEW k \in awaited'[s]
            PROVE  \/ k \in awaited[s]
                   \/ s = r /\ k = new
        BY <1>t, <3>1 DEF MailTypeOK
      <3>3. ASSUME NEW s \in MailRuns, NEW k \in awaited'[s] PROVE CallInv(s, k)'
        <4>1. CASE k \in awaited[s]
          <5>1. CallInv(s, k) /\ k.id # mailCount' /\ k.id <= mailCount' /\ told'[k.id] = "pending"
            BY <2>8, <4>1
          <5>2. ASSUME NEW q \in MailRuns, NEW c \in awaited'[q], c.id = k.id
                PROVE  q = s /\ c = k
            <6>1. c \in awaited[q]
              BY <2>2, <3>2, <5>1, <5>2
            <6> QED BY <5>1, <5>2, <6>1 DEF CallInv
          <5> QED BY <5>1, <5>2 DEF CallInv
        <4>2. CASE s = r /\ k = new
          <5>1. ASSUME NEW q \in MailRuns, NEW c \in awaited'[q], c.id = k.id
                PROVE  q = s /\ c = k
            BY <2>2, <2>8, <3>2, <4>2, <5>1
          <5>2. k.id <= mailCount' /\ told'[k.id] = "pending" /\ \A i \in k.within : i < k.id
            BY <2>1, <2>2, <3>1, <4>2 DEF MailIds
          <5> QED BY <5>1, <5>2 DEF CallInv
        <4> QED BY <3>2, <4>1, <4>2
      <3> QED BY <3>3 DEF AwaitedInv
    <2> QED BY <2>6, <2>7, <2>9, <2>10 DEF MailInv
  <1>5. ASSUME NEW r \in MailRuns, NEW k \in awaited[r], NEW stores, StoreResult(r, k, stores)
        PROVE  MailInv'
    <2> DEFINE new == [id |-> k.id, team |-> r, to |-> k.by, kind |-> "result",
                       at |-> Cardinality(rows)]
    <2>1. /\ k.id \in MailIds /\ k.id <= mailCount
          /\ k.by \in MailAgents \cup {Supervisor}
      BY CallFacts
    <2>2. new \in MailRow /\ new.id <= mailCount /\ new.kind = "result"
      <3>1. Cardinality(rows) \in Nat
        BY FS_CardinalityType DEF MailInv, CountsInv
      <3> QED BY <2>1, <3>1 DEF MailRow
    <2>3. rows' = rows \/ rows' = rows \cup {new}
      BY <1>5 DEF StoreResult, Stored
    <2> HIDE DEF new
    <2>4. UNCHANGED <<mailbox, rosters, phase, todo, mailCount, shared, told, awaited>>
      BY <1>5 DEF StoreResult
    <2>5. MailTypeOK'
      <3>1. lost' \subseteq MailIds
        BY <1>t, <1>5, <2>1 DEF StoreResult, MailTypeOK
      <3> QED BY <1>t, <2>4, <3>1 DEF MailTypeOK, Nobody
    <2>6. IsFiniteSet(rows')
      BY <2>3, FS_AddElement DEF MailInv, CountsInv
    <2>7. CountsInv'
      BY <2>2, <2>3, <2>4, <2>6 DEF MailInv, CountsInv
    <2>8. AwaitedInv'
      BY <2>4 DEF MailInv, AwaitedInv, CallInv
    <2>9. \A i \in MailIds : StoredInv(i)'
      BY <2>3, <2>4 DEF MailInv, StoredInv, RowOf
    <2> QED BY <2>5, <2>7, <2>8, <2>9 DEF MailInv
  <1>6. ASSUME NEW r \in MailRuns, NEW k \in awaited[r],
               Report(r, k) \/ DelegateFails(r, k) \/ CallTimesOut(r, k)
        PROVE  MailInv'
    <2>1. PICK what \in {"completed", "failed", "dropped"} : Tell(r, k, what)
      BY <1>6, CallsAreTold
    <2> QED BY <2>1, TellEnds
  <1>7. ASSUME NEW r \in MailRuns, DropTeam(r) PROVE MailInv'
    <2> DEFINE S == awaited[r]
    <2>1. told' \in [MailIds -> ToldOf]
      <3>1. told \in [MailIds -> ToldOf]
        BY <1>t DEF MailTypeOK, ToldOf
      <3> QED BY <1>7, <3>1 DEF DropTeam, ToldOf
    <2>2. \A i \in MailIds : (\A c \in S : c.id # i) => told'[i] = told[i]
      BY <1>7 DEF DropTeam
    <2>3. awaited' = [awaited EXCEPT ![r] = @ \ S]
      <3>1. S \ S = {}
        OBVIOUS
      <3> QED BY <1>t, <1>7, <3>1 DEF DropTeam, MailTypeOK
    <2>4. phase' \in [MailRuns -> {"idle", "registering", "supervising", "cleanup", "ended",
                                   "stranded"}]
      BY <1>t, <1>7 DEF DropTeam, MailTypeOK
    <2>5. S \in SUBSET awaited[r]
      OBVIOUS
    <2> HIDE DEF S
    <2> QED BY <1>7, <2>1, <2>2, <2>3, <2>4, <2>5, CallsEnd DEF DropTeam
  <1>8. ASSUME UNCHANGED mailVars PROVE MailInv'
    BY <1>t, <1>8, MailKeptInv DEF mailVars, postVars, MailTypeOK
  <1>9. ASSUME NEW r \in MailRuns, NEW a \in MailAgents, NEW stores,
               SendMessage(r, a, stores) \/ SendFile(r, a, stores)
        PROVE  MailInv'
    BY <1>3, <1>9 DEF SendMessage, SendFile
  <1> QED
    BY <1>1, <1>2, <1>4, <1>5, <1>6, <1>7, <1>8, <1>9 DEF MailNext

LEMMA RowsAreShown == MailInv => SentIsReceived
  <1> SUFFICES ASSUME MailInv PROVE SentIsReceived
    OBVIOUS
  <1>1. ASSUME NEW w \in rows
        PROVE  w \in Received(w.to) \/ Cardinality(Newer(w)) >= ReadLimit
    <2>1. Newer(w) \subseteq rows
      BY DEF Newer
    <2>2. IsFiniteSet(Newer(w))
      BY <2>1, FS_Subset DEF MailInv, CountsInv
    <2>3. Cardinality(Newer(w)) \in Nat
      BY <2>2, FS_CardinalityType
    <2> QED BY <2>3, MailAssumption DEF Received
  <1> QED BY <1>1 DEF MailInv, SentIsReceived, StoredInv, RowOf, Told

(* What the abstract mailbox sees of the table. *)
Posted == {w.id : w \in {v \in rows : v.kind # "result"}}
Results == {w.id : w \in {v \in rows : v.kind = "result"}}

LEMMA PromiseKept ==
  ASSUME UNCHANGED <<rows, told, lost>> PROVE UNCHANGED Promise!vars
  BY DEF Promise!vars

LEMMA AnsweredSeen == \A i : Answered(i) <=> i \in Results \cup lost
  BY DEF Answered, Results

(* To send is to post, or to be refused. *)
LEMMA SendingPosts ==
  ASSUME MailInv, mailCount < MaxMail,
         NEW r \in MailRuns, NEW to \in MailAgents, NEW stores,
         NEW kind \in {"direct", "file", "delegation"},
         mailCount' = mailCount + 1,
         rows' = Stored(NewRow(r, to, kind), stores), lost' = lost,
         NEW as \in {"sent", "pending"},
         told' = [told EXCEPT ![mailCount'] = IF Refused(to, stores) THEN "refused" ELSE as]
  PROVE  Promise!Next
  <1>1. PICK i \in MailIds : i = mailCount + 1 /\ told[i] = "unsent"
    <2>1. mailCount + 1 \in MailIds /\ told[mailCount + 1] = "unsent"
      BY MailAssumption DEF MailInv, CountsInv, MailIds
    <2> QED BY <2>1
  <1>2. ASSUME rows' = rows \cup {NewRow(r, to, kind)}
        PROVE  Posted' = Posted \cup {i} /\ UNCHANGED Results
    <2>1. NewRow(r, to, kind).id = i /\ NewRow(r, to, kind).kind = kind /\ kind # "result"
      BY <1>1 DEF NewRow
    <2> QED BY <1>2, <2>1 DEF Posted, Results
  <1>3. CASE Refused(to, stores)
    <2>1. told' = [told EXCEPT ![i] = "refused"]
      BY <1>1, <1>3
    <2>2. Posted' = Posted \/ Posted' = Posted \cup {i}
      BY <1>2 DEF Stored, Posted
    <2>3. UNCHANGED Results
      BY <1>2 DEF Stored, Results
    <2>4. Promise!Refuse(i)
      <3>1. Posted' \in {Posted, Posted \cup {i}}
        BY <2>2
      <3> QED BY <1>1, <2>1, <2>3, <3>1, Zenon DEF Promise!Refuse, Promise!SayOf, Posted, Results
    <2> QED BY <2>4 DEF Promise!Next
  <1>4. CASE ~Refused(to, stores)
    <2>1. told' = [told EXCEPT ![i] = as]
      BY <1>1, <1>4
    <2>2. Posted' = Posted \cup {i} /\ UNCHANGED Results
      BY <1>2, <1>4 DEF Stored, Refused
    <2>3. Promise!Post(i, as)
      BY <1>1, <2>1, <2>2 DEF Promise!Post, Promise!SayOf, Posted, Results
    <2> QED BY <2>3 DEF Promise!Next
  <1> QED BY <1>3, <1>4

(* What the caller of a delegation is told at last is so. *)
LEMMA CallsEndAsTold ==
  ASSUME MailInv, NEW r \in MailRuns, NEW k \in awaited[r],
         NEW what \in {"completed", "failed", "dropped"}, Tell(r, k, what),
         what = "completed" => Answered(k.id),
         what = "failed" => ~Answered(k.id)
  PROVE  Promise!Next
  <1> DEFINE others == {c.id : c \in MadeWithin(r, k)}
  <1>1. PICK m \in MailIds : m = k.id /\ told[m] = "pending"
    BY CallFacts
  <1>2. m \notin others
    <2>1. ASSUME NEW c \in MadeWithin(r, k), c.id = m PROVE FALSE
      <3>1. c \in awaited[r] /\ k.id \in c.within
        BY DEF MadeWithin
      <3> QED BY <1>1, <2>1, <3>1, CallFacts
    <2> QED BY <2>1
  <1>3. others \subseteq Promise!Awaited /\ others \in SUBSET MailIds
    <2>1. ASSUME NEW c \in MadeWithin(r, k) PROVE c.id \in MailIds /\ told[c.id] = "pending"
      <3>1. c \in awaited[r]
        BY DEF MadeWithin
      <3> QED BY <3>1, CallFacts
    <2> QED BY <2>1 DEF Promise!Awaited
  <1>4. told' = [Promise!Dropping(others) EXCEPT ![m] = what]
    BY <1>1 DEF Tell, Promise!Dropping
  <1>5. UNCHANGED <<Posted, Results, lost>>
    BY DEF Tell, Posted, Results
  <1>6. m \in Promise!Awaited
    BY <1>1 DEF Promise!Awaited
  <1>7. Answered(k.id) <=> m \in Results \cup lost
    BY <1>1, AnsweredSeen
  <1> HIDE DEF others
  <1>8. Promise!End(m, what, others)
    BY <1>2, <1>3, <1>4, <1>5, <1>6, <1>7 DEF Promise!End, Posted, Results
  <1> QED BY <1>3, <1>8 DEF Promise!Next

LEMMA MailStepPromised == MailInv /\ [MailNext]_mailVars => [Promise!Next]_(Promise!vars)
  <1> SUFFICES ASSUME MailInv, [MailNext]_mailVars
               PROVE  Promise!Next \/ UNCHANGED Promise!vars
    OBVIOUS
  <1>1. CASE UNCHANGED <<rows, told, lost>>
    BY <1>1, PromiseKept
  <1>2. ASSUME NEW r \in MailRuns, NEW a \in MailAgents, NEW stores,
               SendMessage(r, a, stores) \/ SendFile(r, a, stores)
        PROVE Promise!Next
    <2>1. PICK kind \in {"direct", "file"} : SendOne(r, a, kind, stores)
      BY <1>2 DEF SendMessage, SendFile
    <2>2. kind \in {"direct", "file", "delegation"} /\ "sent" \in {"sent", "pending"}
      OBVIOUS
    <2> QED BY <2>1, <2>2, SendingPosts DEF SendOne
  <1>3. ASSUME NEW r \in MailRuns, NEW a \in MailAgents, NEW stores, NEW d \in Delegators(r),
               Delegate(r, d, a, stores)
        PROVE  Promise!Next
    <2>1. "delegation" \in {"direct", "file", "delegation"} /\ "pending" \in {"sent", "pending"}
      OBVIOUS
    <2> QED BY <1>3, <2>1, SendingPosts DEF Delegate
  <1>4. ASSUME NEW r \in MailRuns, NEW k \in awaited[r], NEW stores, StoreResult(r, k, stores)
        PROVE  Promise!Next
    <2>1. PICK m \in MailIds : m = k.id /\ told[m] = "pending"
      BY CallFacts
    <2>2. m \notin Results \cup lost
      BY <1>4, <2>1, AnsweredSeen DEF StoreResult
    <2>3. \/ Results' = Results \cup {m} /\ UNCHANGED <<Posted, lost, told>>
          \/ lost' = lost \cup {m} /\ UNCHANGED <<Posted, Results, told>>
      <3> DEFINE w == [id |-> k.id, team |-> r, to |-> k.by, kind |-> "result",
                       at |-> Cardinality(rows)]
      <3>1. w.id = m /\ w.kind = "result"
        BY <2>1
      <3>2. \/ rows' = rows \cup {w} /\ lost' = lost
            \/ rows' = rows /\ lost' = lost \cup {m}
        BY <1>4, <2>1 DEF StoreResult, Stored
      <3> HIDE DEF w
      <3>3. told' = told
        BY <1>4 DEF StoreResult
      <3>4. CASE rows' = rows \cup {w} /\ lost' = lost
        <4>1. Results' = Results \cup {m}
          BY <3>1, <3>4 DEF Results
        <4>2. Posted' = Posted
          BY <3>1, <3>4 DEF Posted
        <4> QED BY <3>3, <3>4, <4>1, <4>2
      <3>5. CASE rows' = rows /\ lost' = lost \cup {m}
        BY <3>3, <3>5 DEF Results, Posted
      <3> QED BY <3>2, <3>4, <3>5
    <2>4. Promise!Answer(m)
      BY <2>1, <2>2, <2>3, Zenon DEF Promise!Answer, Results, Posted
    <2> QED BY <2>4 DEF Promise!Next
  <1>5. ASSUME NEW r \in MailRuns, NEW k \in awaited[r],
               Report(r, k) \/ DelegateFails(r, k) \/ CallTimesOut(r, k)
        PROVE  Promise!Next
    <2>1. PICK what \in {"completed", "failed", "dropped"} :
            /\ Tell(r, k, what)
            /\ what = "completed" => Answered(k.id)
            /\ what = "failed" => ~Answered(k.id)
      BY <1>5, CallsAreTold
    <2> QED BY <2>1, CallsEndAsTold
  <1>6. ASSUME NEW r \in MailRuns, DropTeam(r) PROVE Promise!Next
    <2> DEFINE others == {c.id : c \in awaited[r]}
    <2>1. others \subseteq Promise!Awaited /\ others \in SUBSET MailIds
      <3>1. ASSUME NEW c \in awaited[r] PROVE c.id \in MailIds /\ told[c.id] = "pending"
        BY CallFacts
      <3> QED BY <3>1 DEF Promise!Awaited
    <2>2. told' = Promise!Dropping(others)
      BY <1>6 DEF DropTeam, Promise!Dropping
    <2>3. UNCHANGED <<Posted, Results, lost>>
      BY <1>6 DEF DropTeam, Posted, Results
    <2> HIDE DEF others
    <2>4. Promise!Drop(others)
      BY <2>1, <2>2, <2>3 DEF Promise!Drop, Posted, Results
    <2> QED BY <2>1, <2>4 DEF Promise!Next
  <1>7. ASSUME NEW r \in MailRuns,
               \/ StartTeam(r) \/ Announce(r) \/ SupervisorMissing(r) \/ StartCleanup(r)
               \/ EndTeam(r)
        PROVE  UNCHANGED <<rows, told, lost>>
    BY <1>7 DEF StartTeam, Announce, SupervisorMissing, StartCleanup, EndTeam, postVars
  <1>8. ASSUME NEW r \in MailRuns, NEW a \in MailAgents,
               Register(r, a) \/ DropMailbox(r, a) \/ Unregister(r, a)
        PROVE  UNCHANGED <<rows, told, lost>>
    BY <1>8 DEF Register, DropMailbox, Unregister, postVars
  <1>9. CASE UNCHANGED mailVars
    BY <1>9, PromiseKept DEF mailVars
  <1> QED BY <1>1, <1>2, <1>3, <1>4, <1>5, <1>6, <1>7, <1>8, <1>9 DEF MailNext

(* Whatever runs share members, time out or are dropped: the table and the *)
(* tool calls implement the abstract mailbox, so that what the caller of a *)
(* tool was told of its message is so, and the recipient is shown it.      *)
THEOREM WordIsKept == MailSpec => MailKeepsItsWord
  <1>1. MailInit => Promise!Init
    BY DEF MailInit, Promise!Init
  <1>2. MailSpec => []MailInv
    BY MailInitInv, MailStepInv, PTL DEF MailSpec
  <1>3. MailSpec => Promise!Spec
    BY <1>1, <1>2, MailStepPromised, PTL DEF MailSpec, Promise!Spec
  <1> QED BY <1>2, <1>3, RowsAreShown, PTL DEF MailKeepsItsWord

(* An agent refuses messages only while a run that it is a member of is    *)
(* going on, or after one that ended without its cleanup.                  *)
THEOREM RegistrationsEnd == MailSpec => []RegisteredForARun
  <1>1. RegInv => RegisteredForARun
    BY DEF RegInv, BoxInv, RegisteredForARun, AtWork
  <1>2. MailInv => MailTypeOK
    BY DEF MailInv
  <1>3. MailSpec => []MailInv
    BY MailInitInv, MailStepInv, PTL DEF MailSpec
  <1>4. MailSpec => []RegInv
    BY <1>2, <1>3, RegInit, RegStep, PTL DEF MailSpec
  <1> QED BY <1>1, <1>4, PTL

(* AgentMail: the types (MailTypeOK) of the mailboxes and the requests.    *)
THEOREM MailTypeCorrect == MailSpec => []MailTypeOK
  <1>1. MailInv => MailTypeOK
    BY DEF MailInv
  <1> QED BY MailInitInv, MailStepInv, <1>1, PTL DEF MailSpec

-----------------------------------------------------------------------------
(* Email: what the tools answer and what they have done.                   *)

Errand ==
  [tool : EmailTools \cup {"none"}, at : {"idle", "waiting", "locked", "selected"},
   box : Folders, ids : SUBSET Mail, held : Seq(Mail), gap : Nat]

Listing ==
  [mails : UNION {[numbers -> Mail] : numbers \in SUBSET Nat}, box : Folders, gap : Nat]
Said ==
  [what : {"none", "timed out", "error", "list", "body", "sent"},
   ids : SUBSET Mail, mail : Nat]

Inbox == folder["INBOX"]

(* The numbers below a gap still mean in the inbox what they meant.        *)
Numbered(numbers, mails, gap) ==
  \A n \in numbers : n < gap => n \in DOMAIN Inbox /\ Inbox[n] = mails[n]

ErrandInv(c) ==
  /\ errand[c].tool # "fetch" => errand[c].box = "INBOX"
  /\ errand[c].at = "selected" /\ errand[c].box = "INBOX" =>
       Numbered(DOMAIN errand[c].held, errand[c].held, errand[c].gap)
  /\ errand[c].at = "waiting" => ~did[c]

ListingInv(c) ==
  listing[c].box = "INBOX" =>
    Numbered(DOMAIN listing[c].mails, listing[c].mails, listing[c].gap)

(* What a session that is about to read has under the listed numbers.      *)
ReadInv(c) ==
  errand[c].at = "selected" /\ errand[c].tool = "read" =>
    \A n \in Current(c) : n \in DOMAIN errand[c].held /\ errand[c].held[n] = listing[c].mails[n]

(* An answer that holds a body, and what it was the body of. *)
AnswerInv(said, current, mails) ==
  said.what = "body" /\ said.ids \subseteq current =>
    \E n \in said.ids : said.mail = mails[n]

EmailTypes ==
  /\ arrived \in 0 .. MaxMails /\ unread \subseteq 1 .. arrived
  /\ folder \in [Folders -> Seq(Mail)]
  /\ errand \in [EmailRuns -> Errand]
  /\ listing \in [EmailRuns -> Listing]
  /\ emailed \in [EmailRuns -> Said]
  /\ did \in [EmailRuns -> BOOLEAN]

EmailInv ==
  /\ EmailTypes
  /\ EmailAccounted
  /\ \A c \in EmailRuns : ErrandInv(c) /\ ListingInv(c) /\ ReadInv(c)

LEMMA EmailLiterals == AtRest \in Errand /\ NoListing \in Listing /\ Unanswered \in Said
  <1> USE EmailAssumption
  <1>1. AtRest \in Errand
    BY DEF AtRest, Errand, Folders, Never
  <1>3. NoListing \in Listing
    <2>1. [n \in {} |-> NoMail] \in [{} -> Mail]
      OBVIOUS
    <2>2. [n \in {} |-> NoMail] \in UNION {[numbers -> Mail] : numbers \in SUBSET Nat}
      BY <2>1
    <2> QED BY <2>2 DEF NoListing, Listing, Folders, Never
  <1>4. Unanswered \in Said
    BY DEF Unanswered, Said, NoMail
  <1> QED BY <1>1, <1>3, <1>4

LEMMA Listed ==
  ASSUME NEW m \in UNION {[numbers -> Mail] : numbers \in SUBSET Nat} PROVE DOMAIN m \subseteq Nat
  <1>1. PICK numbers \in SUBSET Nat : m \in [numbers -> Mail]
    OBVIOUS
  <1> QED BY <1>1

LEMMA EmailInitInv == EmailInit => EmailInv
  <1> SUFFICES ASSUME EmailInit PROVE EmailInv
    OBVIOUS
  <1> USE EmailLiterals, EmailAssumption DEF EmailInit
  <1>1. EmailTypes
    BY DEF EmailTypes, Folders
  <1>2. EmailAccounted
    BY DEF EmailAccounted, ReadAsNumbered, SeenWasShown, TimedOutDidNothing, Bodies, Unanswered
  <1>3. ASSUME NEW c \in EmailRuns PROVE ErrandInv(c) /\ ListingInv(c) /\ ReadInv(c)
    <2>1. AtRest.tool = "none" /\ AtRest.at = "idle" /\ AtRest.box = "INBOX"
      BY DEF AtRest
    <2>2. NoListing.mails = <<>>
      BY DEF NoListing
    <2> QED BY <2>1, <2>2 DEF ErrandInv, ListingInv, ReadInv, Numbered
  <1> QED BY <1>1, <1>2, <1>3 DEF EmailInv

(* A step that leaves the inbox's numbering: only the run c moves, and     *)
(* what it is doing next, has listed and has answered keeps the invariant. *)
LEMMA EmailMoves ==
  ASSUME EmailInv, EmailTypes', NEW c \in EmailRuns, UNCHANGED folder,
         \A d \in EmailRuns \ {c} :
           /\ errand'[d] = errand[d] /\ listing'[d] = listing[d]
           /\ emailed'[d] = emailed[d] /\ did'[d] = did[d],
         ErrandInv(c)', ListingInv(c)', ReadInv(c)',
         SeenWasShown',
         emailed'[c].what = "timed out" => ~did'[c],
         AnswerInv(emailed'[c], Current(c)', listing'[c].mails)
  PROVE  EmailInv'
  <1>1. ASSUME NEW d \in EmailRuns \ {c} PROVE ErrandInv(d)' /\ ListingInv(d)' /\ ReadInv(d)'
    <2>1. ErrandInv(d) /\ ListingInv(d) /\ ReadInv(d)
      BY DEF EmailInv
    <2>2. ErrandInv(d)'
      BY <2>1, <1>1 DEF ErrandInv, Numbered, Inbox
    <2>3. ListingInv(d)'
      BY <2>1, <1>1 DEF ListingInv, Numbered, Inbox
    <2>4. ReadInv(d)'
      BY <2>1, <1>1 DEF ReadInv, Current
    <2> QED BY <2>2, <2>3, <2>4
  <1>2. ReadAsNumbered'
    <2> SUFFICES ASSUME NEW d \in EmailRuns, emailed'[d].what = "body",
                        emailed'[d].ids \subseteq Current(d)'
                 PROVE  \E n \in emailed'[d].ids : emailed'[d].mail = listing'[d].mails[n]
      BY DEF ReadAsNumbered, Bodies
    <2>1. CASE d = c
      BY <2>1 DEF AnswerInv
    <2>2. CASE d # c
      <3>1. Current(d)' = Current(d)
        BY <2>2 DEF Current
      <3> QED BY <2>2, <3>1 DEF EmailInv, EmailAccounted, ReadAsNumbered, Bodies
    <2> QED BY <2>1, <2>2
  <1>3. TimedOutDidNothing'
    BY DEF EmailInv, EmailAccounted, TimedOutDidNothing
  <1> QED BY <1>1, <1>2, <1>3 DEF EmailInv, EmailAccounted

LEMMA EmailStepInv == EmailInv /\ [EmailNext]_emailVars => EmailInv'
  <1> SUFFICES ASSUME EmailInv, [EmailNext]_emailVars PROVE EmailInv'
    OBVIOUS
  <1> USE EmailAssumption
  <1>l. AtRest \in Errand /\ NoListing \in Listing /\ Unanswered \in Said
    BY EmailLiterals
  <1>t. EmailTypes
    BY DEF EmailInv
  <1>s. SeenWasShown
    BY DEF EmailInv, EmailAccounted
  <1>1. CASE Arrives
    <2> USE <1>1 DEF Arrives
    <2>1. arrived' \in Mail /\ folder["INBOX"] \in Seq(Mail)
      BY <1>t DEF EmailTypes, Mail, Folders
    <2>2. folder' \in [Folders -> Seq(Mail)] /\ folder'["INBOX"] = Append(folder["INBOX"], arrived')
      BY <1>t, <2>1 DEF EmailTypes, Folders
    <2>3. \A n \in DOMAIN Inbox : n \in DOMAIN Inbox' /\ Inbox'[n] = Inbox[n]
      BY <2>1, <2>2 DEF Inbox
    <2>4. EmailTypes'
      BY <1>t, <2>1, <2>2 DEF EmailTypes, Mail
    <2>5. SeenWasShown'
      BY <1>s, <1>t DEF SeenWasShown, EmailTypes
    <2>6. ASSUME NEW c \in EmailRuns PROVE ErrandInv(c)' /\ ListingInv(c)' /\ ReadInv(c)'
      BY <2>3 DEF EmailInv, ErrandInv, ListingInv, ReadInv, Numbered, Current
    <2> QED BY <2>4, <2>5, <2>6
      DEF EmailInv, EmailAccounted, ReadAsNumbered, TimedOutDidNothing, Bodies, Current
  <1>2. ASSUME NEW m \in Mail, OpenedElsewhere(m) PROVE EmailInv'
    <2> USE <1>2 DEF OpenedElsewhere
    <2>1. EmailTypes'
      BY <1>t DEF EmailTypes
    <2>2. SeenWasShown'
      BY <1>s DEF SeenWasShown
    <2>3. ASSUME NEW c \in EmailRuns PROVE ErrandInv(c)' /\ ListingInv(c)' /\ ReadInv(c)'
      BY DEF EmailInv, ErrandInv, ListingInv, ReadInv, Numbered, Inbox, Current
    <2> QED BY <2>1, <2>2, <2>3
      DEF EmailInv, EmailAccounted, ReadAsNumbered, TimedOutDidNothing, Bodies, Current
  <1>3. ASSUME NEW n \in Mail, Archived(n) PROVE EmailInv'
    <2> USE <1>3 DEF Archived
    <2> DEFINE rest == SubSeq(Inbox, 1, n - 1) \o SubSeq(Inbox, n + 1, Len(Inbox))
    <2>1. Inbox \in Seq(Mail) /\ folder["Archive"] \in Seq(Mail) /\ n \in DOMAIN Inbox
      BY <1>t DEF EmailTypes, Inbox, Folders
    <2>2. /\ rest \in Seq(Mail)
          /\ \A k \in DOMAIN Inbox : k < n => k \in DOMAIN rest /\ rest[k] = Inbox[k]
      <3>1. PICK s \in Seq(Mail) : s = Inbox
        BY <2>1
      <3>2. n \in DOMAIN s /\ rest = SubSeq(s, 1, n - 1) \o SubSeq(s, n + 1, Len(s))
        BY <2>1, <3>1
      <3> HIDE DEF rest
      <3>3. PICK t : t = rest
        OBVIOUS
      <3>4. t \in Seq(Mail) /\ \A k \in DOMAIN s : k < n => k \in DOMAIN t /\ t[k] = s[k]
        BY ONLY <3>2, <3>3, TakenOut
      <3> QED BY <3>1, <3>3, <3>4
    <2>3. Inbox[n] \in Mail /\ Append(folder["Archive"], Inbox[n]) \in Seq(Mail)
      BY <2>1
    <2>4. folder' \in [Folders -> Seq(Mail)] /\ Inbox' = rest
      <3>1. folder' = [folder EXCEPT !["INBOX"] = rest,
                                     !["Archive"] = Append(folder["Archive"], Inbox[n])]
        BY <1>t DEF EmailTypes, Inbox, Folders
      <3> HIDE DEF rest
      <3> QED BY <1>t, <2>2, <2>3, <3>1 DEF EmailTypes, Inbox, Folders
    <2> HIDE DEF rest
    <2>5. ASSUME NEW g \in Nat PROVE Lesser(g, n) \in Nat /\ Lesser(g, n) <= g /\ Lesser(g, n) <= n
      BY DEF Lesser, Mail
    <2>6. ASSUME NEW c \in EmailRuns
          PROVE  /\ errand'[c] \in Errand
                 /\ errand'[c].tool = errand[c].tool /\ errand'[c].at = errand[c].at
                 /\ errand'[c].box = errand[c].box /\ errand'[c].ids = errand[c].ids
                 /\ errand'[c].held = errand[c].held
                 /\ errand[c].at = "selected" /\ errand[c].box = "INBOX" =>
                      errand'[c].gap = Lesser(errand[c].gap, n)
      BY <1>t, <2>5 DEF EmailTypes, Errand
    <2>7. ASSUME NEW c \in EmailRuns
          PROVE  /\ listing'[c] \in Listing
                 /\ listing'[c].mails = listing[c].mails /\ listing'[c].box = listing[c].box
                 /\ listing[c].gap \in Nat
                 /\ listing[c].box = "INBOX" => listing'[c].gap = Lesser(listing[c].gap, n)
      BY <1>t, <2>5 DEF EmailTypes, Listing
    <2>8. EmailTypes'
      <3>1. errand' \in [EmailRuns -> Errand] /\ listing' \in [EmailRuns -> Listing]
        BY <2>6, <2>7
      <3> QED BY <1>t, <2>4, <3>1 DEF EmailTypes
    <2>9. ASSUME NEW k \in Nat, NEW g \in Nat, k < Lesser(g, n)
          PROVE  k < g /\ (k \in DOMAIN Inbox => k \in DOMAIN Inbox' /\ Inbox'[k] = Inbox[k])
      <3>1. n \in Nat /\ Lesser(g, n) \in Nat /\ Lesser(g, n) <= g /\ Lesser(g, n) <= n
        BY <2>5 DEF Mail
      <3>2. k < g /\ k < n
        BY ONLY <2>9, <3>1
      <3> QED BY <2>2, <2>4, <3>2
    <2>c. ASSUME NEW c \in EmailRuns PROVE Current(c)' \subseteq Current(c)
      <3> SUFFICES ASSUME NEW k \in Current(c)' PROVE k \in Current(c)
        OBVIOUS
      <3>1. /\ k \in DOMAIN listing[c].mails /\ listing[c].box = "INBOX"
            /\ k < Lesser(listing[c].gap, n)
        BY <2>7 DEF Current
      <3>2. k \in Nat
        <4>1. listing[c].mails \in UNION {[numbers -> Mail] : numbers \in SUBSET Nat}
          BY <1>t DEF EmailTypes, Listing
        <4> QED BY <3>1, <4>1, Listed
      <3> QED BY <2>7, <2>9, <3>1, <3>2 DEF Current
    <2>10. ASSUME NEW c \in EmailRuns PROVE ErrandInv(c)' /\ ListingInv(c)' /\ ReadInv(c)'
      <3>1. ErrandInv(c) /\ ListingInv(c) /\ ReadInv(c)
        BY DEF EmailInv
      <3>2. DOMAIN errand[c].held \subseteq Nat /\ errand[c].gap \in Nat
        <4>1. errand[c].held \in Seq(Mail) /\ errand[c].gap \in Nat
          BY <1>t DEF EmailTypes, Errand
        <4>2. ASSUME NEW h \in Seq(Mail) PROVE DOMAIN h \subseteq Nat
          OBVIOUS
        <4>3. PICK h \in Seq(Mail) : h = errand[c].held
          BY <4>1
        <4> QED BY <4>1, <4>2, <4>3
      <3>3. DOMAIN listing[c].mails \subseteq Nat
        <4>1. listing[c].mails \in UNION {[numbers -> Mail] : numbers \in SUBSET Nat}
          BY <1>t DEF EmailTypes, Listing
        <4> QED BY <4>1, Listed
      <3>4. ErrandInv(c)'
        <4> SUFFICES ASSUME errand'[c].at = "selected", errand'[c].box = "INBOX",
                            NEW k \in DOMAIN errand[c].held, k < errand'[c].gap
                     PROVE  k \in DOMAIN Inbox' /\ Inbox'[k] = errand[c].held[k]
          BY <2>6, <2>7, <3>1 DEF ErrandInv, Numbered
        <4>1. k \in Nat /\ k < Lesser(errand[c].gap, n)
          BY <2>6, <3>2
        <4> QED BY <2>6, <2>9, <3>1, <3>2, <4>1 DEF ErrandInv, Numbered
      <3>5. ListingInv(c)'
        <4> SUFFICES ASSUME listing'[c].box = "INBOX",
                            NEW k \in DOMAIN listing[c].mails, k < listing'[c].gap
                     PROVE  k \in DOMAIN Inbox' /\ Inbox'[k] = listing[c].mails[k]
          BY <2>7, <3>1 DEF ListingInv, Numbered
        <4>1. k \in Nat /\ k < Lesser(listing[c].gap, n)
          BY <2>7, <3>3
        <4> QED BY <2>7, <2>9, <3>1, <4>1 DEF ListingInv, Numbered
      <3>6. ReadInv(c)'
        BY <2>6, <2>7, <2>c, <3>1 DEF ReadInv
      <3> QED BY <3>4, <3>5, <3>6
    <2>11. ReadAsNumbered'
      <3> SUFFICES ASSUME NEW c \in EmailRuns, emailed[c].what = "body",
                          emailed[c].ids \subseteq Current(c)'
                   PROVE  \E k \in emailed[c].ids : emailed[c].mail = listing[c].mails[k]
        BY <2>7 DEF ReadAsNumbered, Bodies
      <3>1. emailed[c].ids \subseteq Current(c)
        BY <2>c
      <3> QED BY <3>1 DEF EmailInv, EmailAccounted, ReadAsNumbered, Bodies
    <2> QED BY <1>s, <2>8, <2>10, <2>11
      DEF EmailInv, EmailAccounted, TimedOutDidNothing, SeenWasShown
  <1>c. ASSUME NEW c \in EmailRuns PROVE ErrandInv(c) /\ ListingInv(c) /\ ReadInv(c)
    BY DEF EmailInv
  <1>4. ASSUME NEW c \in EmailRuns, NEW tool \in EmailTools, NEW box \in Folders,
               NEW ids \in SUBSET Mail, CallEmail(c, tool, box, ids)
        PROVE  EmailInv'
    <2> USE <1>4 DEF CallEmail
    <2> DEFINE waits == [AtRest EXCEPT !.tool = tool, !.at = "waiting", !.box = box, !.ids = ids]
    <2>1. /\ waits \in Errand /\ waits.tool = tool /\ waits.at = "waiting" /\ waits.box = box
          /\ waits.ids = ids
      <3>1. PICK rest \in Errand : rest = AtRest
        BY <1>l
      <3> QED BY <3>1 DEF Errand
    <2>2. errand' = [errand EXCEPT ![c] = waits]
      OBVIOUS
    <2> HIDE DEF waits
    <2>3. EmailTypes' /\ errand'[c] = waits
      BY <1>t, <1>l, <2>1, <2>2 DEF EmailTypes
    <2>4. ErrandInv(c)' /\ ListingInv(c)' /\ ReadInv(c)'
      <3>1. did'[c] = FALSE
        BY <1>t DEF EmailTypes
      <3>2. ErrandInv(c)'
        BY <2>1, <2>3, <3>1 DEF ErrandInv
      <3>3. ListingInv(c)'
        BY <1>c DEF ListingInv, Numbered, Inbox
      <3>4. ReadInv(c)'
        BY <2>1, <2>3 DEF ReadInv
      <3> QED BY <3>2, <3>3, <3>4
    <2>5. emailed'[c].what = "none"
      BY <1>t DEF EmailTypes, Unanswered
    <2>6. SeenWasShown'
      BY <1>s DEF SeenWasShown
    <2>7. \A d \in EmailRuns \ {c} :
            /\ errand'[d] = errand[d] /\ listing'[d] = listing[d]
            /\ emailed'[d] = emailed[d] /\ did'[d] = did[d]
      BY <1>t DEF EmailTypes
    <2>8. UNCHANGED folder
      OBVIOUS
    <2>9. AnswerInv(emailed'[c], Current(c)', listing'[c].mails)
      BY <2>5 DEF AnswerInv
    <2> QED BY <2>3, <2>4, <2>5, <2>6, <2>7, <2>8, <2>9, EmailMoves
  <1>5. ASSUME NEW c \in EmailRuns,
               errand' = [errand EXCEPT ![c] = AtRest],
               listing'[c] \in Listing, listing' = [listing EXCEPT ![c] = listing'[c]],
               ListingInv(c)',
               NEW said \in Said, emailed' = [emailed EXCEPT ![c] = said],
               did'[c] \in BOOLEAN, did' = [did EXCEPT ![c] = did'[c]],
               unread' \subseteq unread, SeenWasShown', UNCHANGED <<arrived, folder>>,
               said.what = "timed out" => ~did'[c],
               AnswerInv(said, Current(c)', listing'[c].mails)
        PROVE  EmailInv'
    <2>1. errand'[c] = AtRest /\ emailed'[c] = said
      BY <1>t, <1>5 DEF EmailTypes
    <2>2. \A d \in EmailRuns \ {c} :
            /\ errand'[d] = errand[d] /\ listing'[d] = listing[d]
            /\ emailed'[d] = emailed[d] /\ did'[d] = did[d]
      BY <1>t, <1>5 DEF EmailTypes
    <2>3. EmailTypes'
      BY <1>t, <1>l, <1>5 DEF EmailTypes
    <2>4. ErrandInv(c)' /\ ReadInv(c)'
      BY <2>1 DEF AtRest, ErrandInv, ReadInv
    <2>5. emailed'[c].what = "timed out" => ~did'[c]
      BY <1>5, <2>1
    <2>6. AnswerInv(emailed'[c], Current(c)', listing'[c].mails)
      BY <1>5, <2>1
    <2>7. ListingInv(c)' /\ SeenWasShown' /\ UNCHANGED folder
      BY <1>5
    <2> QED BY <2>2, <2>3, <2>4, <2>5, <2>6, <2>7, EmailMoves
  <1>6. ASSUME NEW c \in EmailRuns, NEW said \in Said, said.what # "body",
               errand' = [errand EXCEPT ![c] = AtRest], emailed' = [emailed EXCEPT ![c] = said],
               UNCHANGED <<arrived, folder, unread, listing, accounted, alongside>>,
               did'[c] \in BOOLEAN, did' = [did EXCEPT ![c] = did'[c]],
               said.what = "timed out" => ~did'[c]
        PROVE  EmailInv'
    <2>1. listing'[c] \in Listing /\ listing' = [listing EXCEPT ![c] = listing'[c]]
      BY <1>t, <1>6 DEF EmailTypes
    <2>2. ListingInv(c)' /\ SeenWasShown'
      BY <1>c, <1>s, <1>6 DEF ListingInv, Numbered, Inbox, SeenWasShown
    <2>3. AnswerInv(said, Current(c)', listing'[c].mails)
      BY <1>6 DEF AnswerInv
    <2> QED BY <1>5, <1>6, <2>1, <2>2, <2>3
  <1>7. ASSUME NEW c \in EmailRuns, EmailTimesOut(c) PROVE EmailInv'
    <2>1. PICK nothing \in Said : nothing = Unanswered
      BY <1>l
    <2> DEFINE said == [nothing EXCEPT !.what = "timed out"]
    <2>2. said \in Said /\ said.what = "timed out"
      BY DEF Said
    <2>3. emailed' = [emailed EXCEPT ![c] = said]
      BY <1>7, <2>1 DEF EmailTimesOut
    <2>4. did'[c] \in BOOLEAN /\ did' = [did EXCEPT ![c] = did'[c]] /\ ~did'[c]
      BY <1>t, <1>c, <1>7 DEF EmailTimesOut, EmailTypes, ErrandInv
    <2> HIDE DEF said
    <2> QED BY <1>6, <1>7, <2>2, <2>3, <2>4 DEF EmailTimesOut
  <1>8. ASSUME NEW c \in EmailRuns, EmailFails(c) \/ SendMail(c) PROVE EmailInv'
    <2>1. did'[c] \in BOOLEAN /\ did' = [did EXCEPT ![c] = did'[c]]
      BY <1>t, <1>8 DEF EmailFails, SendMail, EmailTypes
    <2>2. errand[c].ids \in SUBSET Mail
      BY <1>t DEF EmailTypes, Errand
    <2>3. PICK what \in {"sent", "error"} : Returns(c, what, NoMail)
      BY <1>8 DEF EmailFails, SendMail
    <2> DEFINE said == [what |-> what, ids |-> {}, mail |-> NoMail]
    <2>4. said \in Said /\ said.what = what
      BY <2>2 DEF Said, NoMail
    <2>5. errand' = [errand EXCEPT ![c] = AtRest] /\ emailed' = [emailed EXCEPT ![c] = said]
      BY <2>3 DEF Returns
    <2>6. UNCHANGED <<arrived, folder, unread, listing, accounted, alongside>>
      BY <1>8 DEF EmailFails, SendMail
    <2> HIDE DEF said
    <2>7. said.what # "body" /\ said.what # "timed out"
      BY <2>4
    <2> QED BY <1>6, <2>1, <2>4, <2>5, <2>6, <2>7
  <1>9. ASSUME NEW c \in EmailRuns, ListMails(c) PROVE EmailInv'
    <2> USE <1>9 DEF ListMails
    <2>p. PICK found \in Found(c) :
            listing' = [listing EXCEPT ![c] =
              [mails |-> [n \in NewestOf(found) |-> errand[c].held[n]],
               box |-> errand[c].box, gap |-> errand[c].gap]]
      OBVIOUS
    <2> DEFINE numbers == NewestOf(found)
               mails == [n \in numbers |-> errand[c].held[n]]
               new == [mails |-> mails, box |-> errand[c].box, gap |-> errand[c].gap]
               said == [what |-> "list", ids |-> {}, mail |-> NoMail]
    <2>1. /\ errand[c].held \in Seq(Mail) /\ errand[c].box \in Folders
          /\ errand[c].gap \in Nat
      BY <1>t DEF EmailTypes, Errand
    <2>2. numbers \subseteq DOMAIN errand[c].held
      BY DEF NewestOf, Found
    <2>3. DOMAIN errand[c].held \subseteq Nat /\ mails \in [numbers -> Mail]
      <3>1. PICK h \in Seq(Mail) : h = errand[c].held
        BY <2>1
      <3>2. DOMAIN h \subseteq Nat /\ \A n \in DOMAIN h : h[n] \in Mail
        OBVIOUS
      <3> HIDE DEF numbers
      <3> QED BY <2>2, <3>1, <3>2
    <2>4. new \in Listing
      <3> HIDE DEF numbers, mails
      <3> QED BY <2>1, <2>2, <2>3 DEF Listing
    <2>5. listing' = [listing EXCEPT ![c] = new] /\ listing'[c] = new
      BY <1>t, <2>p DEF EmailTypes
    <2>6. ListingInv(c)'
      <3>1. errand[c].box = "INBOX" => Numbered(DOMAIN errand[c].held, errand[c].held, errand[c].gap)
        BY <1>c DEF ErrandInv
      <3> HIDE DEF numbers
      <3> QED BY <2>2, <2>5, <3>1 DEF ListingInv, Numbered, Inbox
    <2>7. said \in Said /\ said.what = "list"
      BY <2>1 DEF Said, NoMail
    <2>8. /\ errand' = [errand EXCEPT ![c] = AtRest] /\ emailed' = [emailed EXCEPT ![c] = said]
          /\ SeenWasShown'
      BY <1>s DEF Returns, SeenWasShown
    <2>9. did'[c] \in BOOLEAN /\ did' = [did EXCEPT ![c] = did'[c]]
      BY <1>t DEF EmailTypes
    <2>10. UNCHANGED <<arrived, folder, unread>>
      OBVIOUS
    <2>11. AnswerInv(said, Current(c)', listing'[c].mails)
      BY DEF AnswerInv
    <2> HIDE DEF new, said, ListMails
    <2> QED BY <1>5, <2>4, <2>5, <2>6, <2>7, <2>8, <2>9, <2>10, <2>11
  <1>10. ASSUME NEW c \in EmailRuns, LockConnector(c) \/ SelectFolder(c) PROVE EmailInv'
    <2>1. PICK upcoming \in Errand :
            /\ errand' = [errand EXCEPT ![c] = upcoming]
            /\ upcoming.tool = errand[c].tool /\ upcoming.box = errand[c].box
            /\ upcoming.ids = errand[c].ids /\ upcoming.at \in {"locked", "selected"}
            /\ errand[c].at # "idle"
            /\ upcoming.at = "selected" => upcoming.held = folder[errand[c].box]
      <3>1. CASE LockConnector(c)
        <4> DEFINE upcoming == [errand[c] EXCEPT !.at = "locked"]
        <4>1. /\ upcoming \in Errand /\ upcoming.at = "locked" /\ upcoming.tool = errand[c].tool
              /\ upcoming.box = errand[c].box /\ upcoming.ids = errand[c].ids
          BY <1>t DEF EmailTypes, Errand
        <4>2. errand' = [errand EXCEPT ![c] = upcoming]
          BY <3>1 DEF LockConnector
        <4>3. errand[c].at # "idle"
          BY <3>1 DEF LockConnector
        <4> HIDE DEF upcoming
        <4> QED BY <4>1, <4>2, <4>3
      <3>2. CASE SelectFolder(c)
        <4> DEFINE upcoming == [errand[c] EXCEPT !.at = "selected", !.held = folder[errand[c].box]]
        <4>1. /\ upcoming \in Errand /\ upcoming.at = "selected" /\ upcoming.tool = errand[c].tool
              /\ upcoming.box = errand[c].box /\ upcoming.ids = errand[c].ids
              /\ upcoming.held = folder[errand[c].box]
          BY <1>t DEF EmailTypes, Errand
        <4>2. errand' = [errand EXCEPT ![c] = upcoming]
          BY <3>2 DEF SelectFolder
        <4>3. errand[c].at # "idle"
          BY <3>2 DEF SelectFolder
        <4> HIDE DEF upcoming
        <4> QED BY <4>1, <4>2, <4>3
      <3> QED BY <1>10, <3>1, <3>2
    <2>2. UNCHANGED <<arrived, folder, unread, listing, emailed, did, accounted, alongside>>
      BY <1>10 DEF LockConnector, SelectFolder
    <2>3. EmailTypes' /\ errand'[c] = upcoming
      BY <1>t, <2>1, <2>2 DEF EmailTypes
    <2>4. ErrandInv(c)'
      <3>1. upcoming.at = "selected" /\ upcoming.box = "INBOX" =>
              Numbered(DOMAIN upcoming.held, upcoming.held, upcoming.gap)'
        BY <2>1, <2>2 DEF Numbered, Inbox
      <3> QED BY <1>c, <2>1, <2>2, <2>3, <3>1 DEF ErrandInv
    <2>5. ListingInv(c)'
      BY <1>c, <2>2 DEF ListingInv, Numbered, Inbox
    <2>6. ReadInv(c)'
      <3> SUFFICES ASSUME upcoming.at = "selected", upcoming.tool = "read", NEW n \in Current(c)
                   PROVE  n \in DOMAIN upcoming.held /\ upcoming.held[n] = listing[c].mails[n]
        BY <2>2, <2>3 DEF ReadInv, Current
      <3>1. upcoming.box = "INBOX"
        BY <1>c, <2>1 DEF ErrandInv
      <3> QED BY <1>c, <2>1, <3>1 DEF ListingInv, Numbered, Inbox, Current
    <2>7. \A d \in EmailRuns \ {c} : errand'[d] = errand[d]
      BY <1>t, <2>1 DEF EmailTypes
    <2>8. SeenWasShown'
      BY <1>s, <2>2 DEF SeenWasShown
    <2>9. emailed[c].what = "timed out" => ~did[c]
      BY DEF EmailInv, EmailAccounted, TimedOutDidNothing
    <2>10. AnswerInv(emailed'[c], Current(c)', listing'[c].mails)
      <3>1. Current(c)' = Current(c)
        BY <2>2 DEF Current
      <3> QED BY <2>2, <3>1 DEF EmailInv, EmailAccounted, ReadAsNumbered, Bodies, AnswerInv
    <2> QED BY <2>2, <2>3, <2>4, <2>5, <2>6, <2>7, <2>8, <2>9, <2>10, EmailMoves
  <1>11. ASSUME NEW c \in EmailRuns, ReadMail(c) PROVE EmailInv'
    <2> USE <1>11 DEF ReadMail
    <2>1. errand[c].held \in Seq(Mail) /\ errand[c].ids \in SUBSET Mail
      BY <1>t DEF EmailTypes, Errand
    <2>2. Named(c) \subseteq Mail
      <3>1. PICK h \in Seq(Mail) : h = errand[c].held
        BY <2>1
      <3>2. \A n \in DOMAIN h : h[n] \in Mail
        OBVIOUS
      <3> QED BY <3>1, <3>2 DEF Named
    <2>3. PICK said \in Said :
            /\ emailed' = [emailed EXCEPT ![c] = said]
            /\ said.what \in {"body", "error"}
            /\ said.what = "body" => said.mail \in Named(c) /\ said.ids = errand[c].ids
      <3>1. ASSUME NEW m \in Named(c), Returns(c, "body", m)
            PROVE  /\ [what |-> "body", ids |-> errand[c].ids, mail |-> m] \in Said
                   /\ emailed' = [emailed EXCEPT ![c] =
                        [what |-> "body", ids |-> errand[c].ids, mail |-> m]]
        <4>1. m \in Nat
          BY <2>2 DEF Mail
        <4> QED BY <2>1, <3>1, <4>1 DEF Said, Returns
      <3>2. ASSUME Returns(c, "error", NoMail)
            PROVE  /\ [what |-> "error", ids |-> {}, mail |-> NoMail] \in Said
                   /\ emailed' = [emailed EXCEPT ![c] =
                        [what |-> "error", ids |-> {}, mail |-> NoMail]]
        BY <3>2 DEF Said, Returns, NoMail
      <3>3. CASE \E m \in Named(c) : Returns(c, "body", m)
        <4>1. PICK m \in Named(c) : Returns(c, "body", m)
          BY <3>3
        <4> QED BY <3>1, <4>1
      <3>4. CASE Returns(c, "error", NoMail)
        BY <3>2, <3>4
      <3> QED BY <3>3, <3>4
    <2>4. unread' = unread \ Named(c)
      OBVIOUS
    <2>6. errand' = [errand EXCEPT ![c] = AtRest]
      BY DEF Returns
    <2>7. UNCHANGED <<arrived, folder, listing>>
      OBVIOUS
    <2>8. listing'[c] \in Listing /\ listing' = [listing EXCEPT ![c] = listing'[c]]
      BY <1>t DEF EmailTypes
    <2>9. ListingInv(c)' /\ SeenWasShown' /\ unread' \subseteq unread
      <3>1. SeenWasShown'
        <4> SUFFICES ASSUME NEW m \in 1 .. arrived, m \notin unread \/ m \in Named(c)
                     PROVE  m \in accounted' \cup alongside'
          BY <2>4 DEF SeenWasShown
        <4>1. CASE m \notin unread
          <5>1. m \in accounted \cup alongside
            BY <1>s, <4>1 DEF SeenWasShown
          <5> QED BY <5>1
        <4>2. CASE m \in unread /\ m \in Named(c)
          BY <4>2
        <4> QED BY <4>1, <4>2
      <3> QED BY <1>c, <2>4, <3>1 DEF ListingInv, Numbered, Inbox
    <2>10. did'[c] \in BOOLEAN /\ did' = [did EXCEPT ![c] = did'[c]]
      BY <1>t DEF EmailTypes
    <2>11. AnswerInv(said, Current(c)', listing'[c].mails)
      <3> SUFFICES ASSUME said.what = "body", said.ids \subseteq Current(c)
                   PROVE  \E n \in said.ids : said.mail = listing[c].mails[n]
        BY <2>7 DEF AnswerInv, Current
      <3>1. PICK n \in errand[c].ids : said.mail = errand[c].held[n]
        BY <2>3 DEF Named
      <3>2. errand[c].held[n] = listing[c].mails[n]
        BY <1>c, <2>3, <3>1 DEF ReadInv
      <3> QED BY <2>3, <3>1, <3>2
    <2> HIDE DEF ReadMail
    <2>12. said.what # "timed out"
      BY <2>3
    <2> QED BY <1>5, <2>3, <2>6, <2>7, <2>8, <2>9, <2>10, <2>11, <2>12
  <1>12. CASE UNCHANGED emailVars
    <2> USE <1>12 DEF emailVars
    <2>1. EmailTypes' /\ SeenWasShown'
      BY <1>t, <1>s DEF EmailTypes, SeenWasShown
    <2>2. ASSUME NEW c \in EmailRuns PROVE ErrandInv(c)' /\ ListingInv(c)' /\ ReadInv(c)'
      BY <1>c DEF ErrandInv, ListingInv, ReadInv, Numbered, Inbox, Current
    <2> QED BY <2>1, <2>2
      DEF EmailInv, EmailAccounted, ReadAsNumbered, TimedOutDidNothing, Bodies, Current
  <1> QED
    BY <1>1, <1>2, <1>3, <1>4, <1>7, <1>8, <1>9, <1>10, <1>11, <1>12 DEF EmailNext

(* email_read shows what was listed under its numbers, a message loses its *)
(* unread mark unaccounted for only along with one that is shown, and a    *)
(* call that timed out has done nothing: for any number of runs, messages  *)
(* and clients that move messages away, whatever the ids asked for.        *)
THEOREM EmailIsAccounted == EmailSpec => []EmailAccounted
  <1>1. EmailInv => EmailAccounted
    BY DEF EmailInv
  <1> QED BY EmailInitInv, EmailStepInv, <1>1, PTL DEF EmailSpec

(* A session is held under the lock. *)
InSession(c) == errand[c].at \in {"locked", "selected"}
LockInv ==
  /\ \A c \in EmailRuns : InSession(c) => connector = {c}
  /\ connector \subseteq EmailRuns
  /\ accounted \subseteq Mail /\ alongside \subseteq Mail

LEMMA LockStep == EmailInv /\ LockInv /\ [EmailNext]_emailVars => LockInv'
  <1> SUFFICES ASSUME EmailInv, LockInv, [EmailNext]_emailVars PROVE LockInv'
    OBVIOUS
  <1> USE EmailAssumption
  <1> DEFINE Kept == accounted \subseteq Mail /\ alongside \subseteq Mail
  <1>t. errand \in [EmailRuns -> Errand] /\ arrived \in 0 .. MaxMails /\ unread \subseteq 1 .. arrived
    BY DEF EmailInv, EmailTypes
  <1>c. /\ connector \subseteq EmailRuns /\ Kept
        /\ \A d \in EmailRuns : errand[d].at \in {"locked", "selected"} => connector = {d}
    BY DEF LockInv, InSession
  <1>r. AtRest.at = "idle"
    BY DEF AtRest
  <1>1. ASSUME UNCHANGED <<connector, errand>>, Kept' PROVE LockInv'
    BY <1>c, <1>1 DEF LockInv, InSession
  <1>2. ASSUME NEW m \in Mail, OpenedElsewhere(m) PROVE LockInv'
    BY <1>1, <1>2, <1>c DEF OpenedElsewhere, Mail
  <1>3. CASE Arrives
    BY <1>1, <1>3, <1>c DEF Arrives
  <1>4. ASSUME NEW n, Archived(n) PROVE LockInv'
    <2>1. \A d \in EmailRuns : errand'[d].at = errand[d].at
      BY <1>t, <1>4 DEF Archived, Errand
    <2> QED BY <1>c, <1>4, <2>1 DEF Archived, LockInv, InSession, Mail
  <1>5. ASSUME NEW c \in EmailRuns, NEW rest \in Errand, errand' = [errand EXCEPT ![c] = rest],
               rest.at \in {"locked", "selected"} => connector' = {c},
               \/ UNCHANGED connector /\ (InSession(c) => rest.at \in {"locked", "selected"})
               \/ connector = {} /\ connector' = {c}
               \/ InSession(c) /\ connector' = connector \ {c},
               Kept'
        PROVE  LockInv'
    <2>1. errand'[c] = rest /\ \A d \in EmailRuns \ {c} : errand'[d] = errand[d]
      BY <1>t, <1>5
    <2>2. connector' \subseteq EmailRuns
      BY <1>c, <1>5
    <2>3. ASSUME NEW d \in EmailRuns, errand'[d].at \in {"locked", "selected"}
          PROVE  connector' = {d}
      BY <1>c, <1>5, <2>1, <2>3 DEF InSession
    <2> QED BY <1>5, <2>2, <2>3 DEF LockInv, InSession, Mail
  <1>6. ASSUME NEW c \in EmailRuns, NEW what, NEW mail, Returns(c, what, mail), InSession(c),
               Kept'
        PROVE  LockInv'
    <2>1. AtRest \in Errand
      BY EmailLiterals
    <2> QED BY <1>5, <1>6, <1>r, <2>1 DEF Returns
  <1>7. ASSUME NEW c \in EmailRuns, NEW tool \in EmailTools, NEW box \in Folders,
               NEW ids \in SUBSET Mail, CallEmail(c, tool, box, ids)
        PROVE  LockInv'
    <2>1. \A d \in EmailRuns \ {c} : errand'[d] = errand[d]
      BY <1>t, <1>7 DEF CallEmail
    <2>2. errand'[c].at = "waiting" /\ errand[c].at = "idle"
      BY <1>t, <1>7 DEF CallEmail, AtRest
    <2> QED BY <1>c, <1>7, <2>1, <2>2 DEF CallEmail, LockInv, InSession, Mail
  <1>8. ASSUME NEW c \in EmailRuns, EmailTimesOut(c) PROVE LockInv'
    <2>1. \A d \in EmailRuns \ {c} : errand'[d] = errand[d]
      BY <1>t, <1>8 DEF EmailTimesOut
    <2>2. errand'[c].at = "idle"
      BY <1>t, <1>8, <1>r DEF EmailTimesOut
    <2> QED BY <1>c, <1>8, <2>1, <2>2 DEF EmailTimesOut, LockInv, InSession, Mail
  <1>9. ASSUME NEW c \in EmailRuns, LockConnector(c) PROVE LockInv'
    <2>1. \A d \in EmailRuns \ {c} : errand'[d] = errand[d]
      BY <1>t, <1>9 DEF LockConnector
    <2>2. \A d \in EmailRuns : ~InSession(d)
      BY <1>c, <1>9 DEF LockConnector, InSession
    <2> QED BY <1>c, <1>9, <2>1, <2>2 DEF LockConnector, LockInv, InSession, Mail
  <1>10. ASSUME NEW c \in EmailRuns, SelectFolder(c) PROVE LockInv'
    <2>1. \A d \in EmailRuns \ {c} : errand'[d] = errand[d]
      BY <1>t, <1>10 DEF SelectFolder
    <2> QED BY <1>c, <1>10, <2>1 DEF SelectFolder, LockInv, InSession, Mail
  <1>11. ASSUME NEW c \in EmailRuns, EmailFails(c) \/ ListMails(c) \/ SendMail(c) PROVE LockInv'
    <2>1. InSession(c) /\ Kept'
      BY <1>c, <1>11 DEF EmailFails, ListMails, SendMail, InSession, Mail
    <2> QED BY <1>6, <1>11, <2>1 DEF EmailFails, ListMails, SendMail
  <1>12. ASSUME NEW c \in EmailRuns, ReadMail(c) PROVE LockInv'
    <2>1. errand[c].held \in Seq(Mail) /\ InSession(c)
      BY <1>t, <1>12 DEF ReadMail, Errand, InSession
    <2>2. Named(c) \subseteq Mail
      <3>1. PICK h \in Seq(Mail) : h = errand[c].held
        BY <2>1
      <3>2. \A n \in DOMAIN h : h[n] \in Mail
        OBVIOUS
      <3> QED BY <3>1, <3>2 DEF Named
    <2>3. Kept'
      BY <1>c, <1>t, <1>12, <2>2 DEF ReadMail, Mail
    <2> QED BY <1>6, <1>12, <2>1, <2>3 DEF ReadMail
  <1>13. CASE UNCHANGED emailVars
    BY <1>1, <1>13, <1>c DEF emailVars
  <1> QED
    BY <1>2, <1>3, <1>4, <1>7, <1>8, <1>9, <1>10, <1>11, <1>12, <1>13 DEF EmailNext

LEMMA LockHeld == EmailSpec => [](EmailInv /\ LockInv)
  <1>1. EmailInit => LockInv
    BY DEF EmailInit, LockInv, InSession, AtRest
  <1> QED BY EmailInitInv, EmailStepInv, LockStep, <1>1, PTL DEF EmailSpec

(* Email: the types (EmailTypeOK); what is accounted for, and what a call  *)
(* holds, are messages.                                                    *)
THEOREM EmailTypeCorrect == EmailSpec => []EmailTypeOK
  <1>1. EmailInv /\ LockInv => EmailTypeOK
    BY DEF EmailInv, LockInv, EmailTypes, EmailTypeOK, Errand, Said
  <1> QED BY LockHeld, <1>1, PTL

(* No two runs are in a session of the mail server at once: a session that *)
(* selected a folder, and marks messages by their numbers in it, is not    *)
(* disturbed by another of the daemon's, also when calls fail or time out. *)
OneSession == \A c, d \in EmailRuns : InSession(c) /\ InSession(d) => c = d

(* The lock of the connector excludes sessions, for any number of runs     *)
(* (OneSession).                                                           *)
THEOREM SessionsExclude == EmailSpec => []OneSession
  <1>1. LockInv => OneSession
    BY DEF LockInv, OneSession
  <1> QED BY LockHeld, <1>1, PTL

-----------------------------------------------------------------------------
(* ModelCalls: the calls of a list are answered in it.                     *)

Words == {"prompt", "memory", "earlier", "answer", "question", "plan it", "plan", "reflect", "reflection"}
Message == [role : {"system", "user", "assistant", "calls", "result"}, what : Words \cup Nat]

(* CallsAreAnswered, of any list; the last one may be pending. *)
AnsweredIn(list, pending) ==
  \A i \in DOMAIN list : list[i].role = "calls" =>
    /\ list[i].what \in Nat
    /\ ~(pending /\ i = Len(list)) =>
         \A k \in 1 .. list[i].what :
           /\ i + k \in DOMAIN list
           /\ list[i + k] = [role |-> "result", what |-> k]

CallsInv ==
  /\ messages \in Seq(Message)
  /\ AnsweredIn(messages, runPhase = "executing")
  /\ runPhase = "executing" => messages # <<>> /\ messages[Len(messages)].role = "calls"
  /\ CallsAreAnswered
  /\ sinceReflection \in Nat /\ registered \subseteq Providers

LEMMA OpenOrAnswered ==
  ASSUME NEW s \in Seq(Message), NEW m \in Message, AnsweredIn(s, FALSE), NEW pending \in BOOLEAN,
         m.role = "calls" => pending /\ m.what \in Nat
  PROVE  AnsweredIn(Append(s, m), pending) /\ Append(s, m) \in Seq(Message)
  <1> DEFINE t == Append(s, m)
  <1>1. /\ t \in Seq(Message) /\ DOMAIN t = DOMAIN s \cup {Len(s) + 1} /\ Len(t) = Len(s) + 1
        /\ DOMAIN s = 1 .. Len(s) /\ Len(s) \in Nat
        /\ t[Len(s) + 1] = m
    OBVIOUS
  <1>2. \A i \in DOMAIN s : t[i] = s[i]
    OBVIOUS
  <1> HIDE DEF t
  <1>3. ASSUME NEW i \in DOMAIN t, t[i].role = "calls"
        PROVE  /\ t[i].what \in Nat
               /\ ~(pending /\ i = Len(t)) =>
                    \A k \in 1 .. t[i].what :
                      i + k \in DOMAIN t /\ t[i + k] = [role |-> "result", what |-> k]
    <2>1. CASE i = Len(s) + 1
      BY <1>1, <1>3, <2>1
    <2>2. CASE i \in DOMAIN s
      <3>1. /\ s[i].role = "calls" /\ t[i] = s[i] /\ s[i].what \in Nat
            /\ \A k \in 1 .. s[i].what :
                 i + k \in DOMAIN s /\ s[i + k] = [role |-> "result", what |-> k]
        BY <1>1, <1>2, <1>3, <2>2 DEF AnsweredIn
      <3> QED BY <1>1, <1>2, <3>1
    <2> QED BY <1>1, <2>1, <2>2
  <1> QED BY <1>1, <1>3 DEF AnsweredIn, t

(* The results of the open calls, in their order. *)
LEMMA ResultsAnswer ==
  ASSUME NEW s \in Seq(Message), s # <<>>, AnsweredIn(s, TRUE), s[Len(s)].role = "calls",
         NEW r, r = [i \in 1 .. s[Len(s)].what |-> [role |-> "result", what |-> i]]
  PROVE  AnsweredIn(s \o r, FALSE) /\ s \o r \in Seq(Message) /\ s[Len(s)].what \in Nat
  <1>1. Len(s) \in DOMAIN s /\ DOMAIN s = 1 .. Len(s) /\ Len(s) \in Nat
    OBVIOUS
  <1>2. PICK n \in Nat : n = s[Len(s)].what
    BY <1>1 DEF AnsweredIn
  <1>3. ASSUME NEW i \in 1 .. n PROVE [role |-> "result", what |-> i] \in Message
    BY DEF Message
  <1>4. r \in [1 .. n -> Message]
    BY <1>2, <1>3
  <1>5. PICK f \in [1 .. n -> Message] : f = r
    BY <1>4
  <1>5a. r \in Seq(Message) /\ Len(r) = n /\ DOMAIN r = 1 .. n
    <2> HIDE DEF Message
    <2> QED BY <1>5, ListOf
  <1> DEFINE t == s \o r
  <1>6. /\ t \in Seq(Message) /\ Len(t) = Len(s) + n /\ DOMAIN t = 1 .. Len(s) + n
        /\ \A i \in DOMAIN s : t[i] = s[i]
        /\ \A k \in 1 .. n : t[Len(s) + k] = r[k]
    BY ONLY <1>1, <1>2, <1>5a
  <1>7. \A k \in 1 .. n : t[Len(s) + k] = [role |-> "result", what |-> k]
    BY <1>2, <1>6
  <1> HIDE DEF t
  <1>8. ASSUME NEW i \in DOMAIN t, t[i].role = "calls"
        PROVE  /\ t[i].what \in Nat
               /\ \A k \in 1 .. t[i].what :
                    i + k \in DOMAIN t /\ t[i + k] = [role |-> "result", what |-> k]
    <2>1. CASE i = Len(s)
      <3>1. t[i] = s[i] /\ s[i].what = n
        BY <1>1, <1>2, <1>6, <2>1
      <3> QED BY <1>1, <1>6, <1>7, <2>1, <3>1
    <2>2. CASE i \in DOMAIN s /\ i # Len(s)
      <3>1. /\ s[i].role = "calls" /\ t[i] = s[i] /\ s[i].what \in Nat
            /\ \A k \in 1 .. s[i].what :
                 i + k \in DOMAIN s /\ s[i + k] = [role |-> "result", what |-> k]
        BY <1>6, <1>8, <2>2 DEF AnsweredIn
      <3>2. DOMAIN s \subseteq DOMAIN t
        BY <1>1, <1>2, <1>6
      <3> QED BY <1>6, <3>1, <3>2
    <2>3. CASE i \notin DOMAIN s
      <3>1. PICK k \in 1 .. n : i = Len(s) + k
        <4>1. i - Len(s) \in 1 .. n /\ i = Len(s) + (i - Len(s))
          BY <1>1, <1>2, <1>6, <2>3
        <4> QED BY <4>1
      <3>2. t[i] = [role |-> "result", what |-> k]
        BY <1>7, <3>1
      <3> QED BY <1>8, <3>2
    <2> QED BY <2>1, <2>2, <2>3
  <1> QED BY <1>2, <1>6, <1>8 DEF AnsweredIn, t

LEMMA CallsInitInv == CallsInit => CallsInv
  <1> SUFFICES ASSUME CallsInit PROVE CallsInv
    OBVIOUS
  <1> DEFINE Quiet(s) == s \in Seq(Message) /\ \A i \in DOMAIN s : s[i].role # "calls"
  <1>1. ASSUME NEW s, NEW t, Quiet(s), Quiet(t) PROVE Quiet(s \o t)
    <2>1. /\ s \o t \in Seq(Message) /\ DOMAIN (s \o t) = 1 .. Len(s) + Len(t)
          /\ Len(s) \in Nat /\ Len(t) \in Nat
      BY <1>1
    <2>2. ASSUME NEW i \in 1 .. Len(s) + Len(t) PROVE (s \o t)[i].role # "calls"
      <3>1. CASE i \in DOMAIN s
        BY <1>1, <3>1
      <3>2. CASE i \notin DOMAIN s
        <4>1. (s \o t)[i] = t[i - Len(s)] /\ i - Len(s) \in DOMAIN t
          BY <1>1, <3>2
        <4> QED BY <1>1, <4>1
      <3> QED BY <3>1, <3>2
    <2> QED BY <2>1, <2>2
  <1>2. ASSUME NEW m \in Message, m.role # "calls" PROVE Quiet(<<m>>)
    BY <1>2
  <1>3. Quiet(<<>>)
    OBVIOUS
  <1>4. \A role \in {"system", "user", "assistant"}, what \in Words :
          Msg(role, what) \in Message /\ Msg(role, what).role # "calls"
    BY DEF Msg, Message, Words
  <1>5. /\ Quiet(<<Msg("system", "prompt")>>) /\ Quiet(<<Msg("system", "memory")>>)
        /\ Quiet(<<Msg("user", "question")>>)
    BY <1>2, <1>4 DEF Words
  <1>6. Quiet(<<Msg("user", "earlier"), Msg("assistant", "answer")>>)
    <2>1. PICK a \in Message : a = Msg("user", "earlier") /\ a.role # "calls"
      BY <1>4 DEF Words
    <2>2. PICK b \in Message : b = Msg("assistant", "answer") /\ b.role # "calls"
      BY <1>4 DEF Words
    <2> HIDE DEF Message
    <2>3. <<a, b>> \in Seq(Message) /\ DOMAIN <<a, b>> = 1 .. 2
      OBVIOUS
    <2>4. <<a, b>>[1] = a /\ <<a, b>>[2] = b
      OBVIOUS
    <2>5. Quiet(<<a, b>>)
      BY <2>1, <2>2, <2>3, <2>4
    <2> QED BY <2>1, <2>2, <2>5
  <1> HIDE DEF Quiet
  <1>7. ASSUME NEW b \in Beginnings PROVE Quiet(b)
    <2>1. PICK m \in {<<>>, <<Msg("system", "memory")>>},
               h \in {<<>>, <<Msg("user", "earlier"), Msg("assistant", "answer")>>} : b = m \o h
      BY DEF Beginnings
    <2>2. Quiet(m) /\ Quiet(h)
      BY <1>3, <1>5, <1>6
    <2> QED BY <1>1, <2>1, <2>2
  <1>8. PICK b \in Beginnings :
          messages = <<Msg("system", "prompt")>> \o b \o <<Msg("user", "question")>>
    BY DEF CallsInit
  <1>9. Quiet(messages)
    BY <1>1, <1>5, <1>7, <1>8
  <1>10. /\ runPhase # "executing" /\ sinceReflection = 0 /\ request.list = <<>>
         /\ registered \subseteq Providers
    BY DEF CallsInit, NoRequest
  <1> QED BY <1>9, <1>10 DEF CallsInv, AnsweredIn, CallsAreAnswered, Quiet

LEMMA CallsStepInv == CallsInv /\ [CallsNext]_callsVars => CallsInv'
  <1> SUFFICES ASSUME CallsInv, [CallsNext]_callsVars PROVE CallsInv'
    OBVIOUS
  <1> USE CallsAssumption
  <1>t. /\ messages \in Seq(Message) /\ CallsAreAnswered /\ sinceReflection \in Nat
        /\ AnsweredIn(messages, runPhase = "executing")
    BY DEF CallsInv
  <1>m. \A role \in {"system", "assistant"}, what \in Words :
          Msg(role, what) \in Message /\ Msg(role, what).role # "calls"
    BY DEF Msg, Message, Words
  <1>q. ASSUME NEW s \in Seq(Message), NEW m \in Message, AnsweredIn(s, FALSE), m.role # "calls"
        PROVE  AnsweredIn(Append(s, m), FALSE) /\ Append(s, m) \in Seq(Message)
    BY <1>q, OpenOrAnswered
  <1>p. registered' = registered /\ registered \subseteq Providers
    BY DEF CallsInv, CallsNext, callsVars, agentVars, Plan, Reflect, Ask, ProviderNotFound,
           ExecuteTools, FallBack, NoFallback
  <1>1. ASSUME NEW a \in Words, NEW b \in Words, AnsweredIn(messages, FALSE),
               \/ messages' = messages \o <<Msg("system", a), Msg("assistant", b)>>
               \/ messages' = Append(messages, Msg("system", a))
        PROVE  AnsweredIn(messages', FALSE) /\ messages' \in Seq(Message)
    <2>1. messages \o <<Msg("system", a), Msg("assistant", b)>>
            = Append(Append(messages, Msg("system", a)), Msg("assistant", b))
      BY <1>t
    <2>2. AnsweredIn(Append(messages, Msg("system", a)), FALSE)
          /\ Append(messages, Msg("system", a)) \in Seq(Message)
      BY <1>1, <1>m, <1>q, <1>t
    <2>3. PICK s \in Seq(Message) : s = Append(messages, Msg("system", a))
      BY <2>2
    <2>4. AnsweredIn(Append(s, Msg("assistant", b)), FALSE)
          /\ Append(s, Msg("assistant", b)) \in Seq(Message)
      BY <1>m, <1>q, <2>2, <2>3
    <2> QED BY <1>1, <2>1, <2>2, <2>3, <2>4
  <1>2. CASE Plan
    <2>1. /\ runPhase = "planning" /\ runPhase' = "asking" /\ UNCHANGED <<request, sinceReflection>>
          /\ \/ messages' = messages \o <<Msg("system", "plan it"), Msg("assistant", "plan")>>
             \/ messages' = Append(messages, Msg("system", "plan it"))
      BY <1>2 DEF Plan
    <2>2. AnsweredIn(messages', FALSE) /\ messages' \in Seq(Message)
      BY <1>1, <1>t, <2>1 DEF Words
    <2> QED BY <1>t, <1>p, <2>1, <2>2 DEF CallsInv, CallsAreAnswered
  <1>3. CASE Reflect
    <2>1. /\ runPhase = "asking" /\ runPhase' = "asking" /\ UNCHANGED request /\ sinceReflection' = 0
          /\ \/ messages' = messages \o <<Msg("system", "reflect"), Msg("assistant", "reflection")>>
             \/ messages' = Append(messages, Msg("system", "reflect"))
      BY <1>3 DEF Reflect
    <2>2. AnsweredIn(messages', FALSE) /\ messages' \in Seq(Message)
      BY <1>1, <1>t, <2>1 DEF Words
    <2> QED BY <1>t, <1>p, <2>1, <2>2 DEF CallsInv, CallsAreAnswered
  <1>4. ASSUME AnsweredIn(messages, FALSE), request'.list = messages PROVE CallsAreAnswered'
    BY <1>4 DEF AnsweredIn, CallsAreAnswered
  <1>5. CASE Ask
    <2>1. runPhase = "asking" /\ request'.list = messages /\ UNCHANGED sinceReflection
      BY <1>5 DEF Ask, Asked
    <2>2. AnsweredIn(messages, FALSE) /\ CallsAreAnswered'
      BY <1>t, <1>4, <2>1
    <2>3. CASE AnswersText
      <3>1. AnsweredIn(messages', FALSE) /\ messages' \in Seq(Message)
        BY <1>m, <1>q, <1>t, <2>2, <2>3 DEF AnswersText, Words
      <3> QED BY <1>t, <1>p, <2>1, <2>2, <2>3, <3>1 DEF AnswersText, CallsInv
    <2>4. CASE AnswersCalls
      <3>1. PICK n \in CallsIn(primary) : messages' = Append(messages, [role |-> "calls", what |-> n])
        BY <2>4 DEF AnswersCalls
      <3>2. primary \in Providers
        BY <1>5 DEF Ask, CallsInv
      <3>3. n \in Nat
        <4>1. \A m \in AnthropicAnswers \cup OpenAIAnswers \cup OllamaAnswers \cup ClaudeCodeAnswers :
                m \in Nat
          BY DEF AnthropicAnswers, OpenAIAnswers, OllamaAnswers, ToolUse, ClaudeCodeAnswers
        <4>2. CallsIn(primary) \in {AnthropicAnswers, OpenAIAnswers, OllamaAnswers, ClaudeCodeAnswers}
          BY <3>2 DEF CallsIn, Providers
        <4> QED BY <3>1, <4>1, <4>2
      <3>4. PICK m \in Message : m = [role |-> "calls", what |-> n]
        BY <3>3 DEF Message
      <3>5. AnsweredIn(messages', TRUE) /\ messages' \in Seq(Message)
        BY <1>t, <2>2, <3>1, <3>3, <3>4, OpenOrAnswered
      <3>6. messages' # <<>> /\ messages'[Len(messages')].role = "calls"
        BY <1>t, <3>1, <3>4
      <3> QED BY <1>t, <1>p, <2>1, <2>2, <2>4, <3>5, <3>6 DEF AnswersCalls, CallsInv
    <2>5. CASE RequestFails
      BY <1>t, <1>p, <2>1, <2>2, <2>5 DEF RequestFails, CallsInv
    <2> QED BY <1>5, <2>3, <2>4, <2>5 DEF Ask
  <1>6. CASE ProviderNotFound
    BY <1>t, <1>p, <1>6 DEF ProviderNotFound, CallsInv, CallsAreAnswered
  <1>7. CASE ExecuteTools
    <2> DEFINE n == messages[Len(messages)].what
    <2>1. /\ runPhase = "executing" /\ runPhase' = "asking" /\ UNCHANGED request
          /\ messages' = messages \o [i \in 1 .. n |-> [role |-> "result", what |-> i]]
          /\ sinceReflection' = sinceReflection + n
      BY <1>7 DEF ExecuteTools
    <2>2. messages # <<>> /\ messages[Len(messages)].role = "calls"
      BY <2>1 DEF CallsInv
    <2>3. PICK r : r = [i \in 1 .. n |-> [role |-> "result", what |-> i]]
      OBVIOUS
    <2>4. PICK s \in Seq(Message) : s = messages
      BY <1>t
    <2>5. AnsweredIn(s, TRUE)
      BY <1>t, <2>1, <2>4
    <2>6. AnsweredIn(s \o r, FALSE) /\ s \o r \in Seq(Message) /\ s[Len(s)].what \in Nat
      BY <2>2, <2>3, <2>4, <2>5, ResultsAnswer
    <2>7. AnsweredIn(messages', FALSE) /\ messages' \in Seq(Message) /\ sinceReflection' \in Nat
      <3>1. PICK k \in Nat : k = s[Len(s)].what
        BY <2>6
      <3>2. messages' = s \o r /\ sinceReflection' = sinceReflection + k
        BY <2>1, <2>3, <2>4, <3>1
      <3>3. sinceReflection' \in Nat
        BY ONLY <1>t, <3>1, <3>2
      <3> QED BY ONLY <2>6, <3>2, <3>3
    <2> QED BY <1>t, <1>p, <2>1, <2>7 DEF CallsInv, CallsAreAnswered
  <1>8. CASE FallBack
    <2>1. /\ runPhase = "falling back" /\ request'.list = messages
          /\ runPhase' # "executing" /\ UNCHANGED <<messages, sinceReflection>>
      BY <1>8 DEF FallBack, Asked
    <2>2. AnsweredIn(messages, FALSE) /\ CallsAreAnswered'
      BY <1>t, <1>4, <2>1
    <2> QED BY <1>t, <1>p, <2>1, <2>2 DEF CallsInv
  <1>9. CASE NoFallback
    BY <1>t, <1>p, <1>9 DEF NoFallback, CallsInv, CallsAreAnswered
  <1>10. CASE UNCHANGED callsVars
    BY <1>t, <1>p, <1>10 DEF callsVars, CallsInv, CallsAreAnswered
  <1> QED BY <1>2, <1>3, <1>5, <1>6, <1>7, <1>8, <1>9, <1>10 DEF CallsNext

(* In every request, whatever plans, reflections, failures and fallbacks   *)
(* came before it, each tool call is followed by its results               *)
(* (CallsAreAnswered): for any number of rounds and of parallel calls.     *)
THEOREM CallsHaveResults == CallsSpec => []CallsAreAnswered
  <1>1. CallsInv => CallsAreAnswered
    BY DEF CallsInv
  <1> QED BY CallsInitInv, CallsStepInv, <1>1, PTL DEF CallsSpec

(* The rounds stay below max_iterations.                                   *)
RoundsInv ==
  /\ runPhase \in {"planning", "asking", "executing", "falling back", "completed", "failed"}
  /\ rounds \in 0 .. MaxRounds
  /\ runPhase = "executing" => rounds < MaxRounds
  /\ request.seen \subseteq DOMAIN request.list

LEMMA SeesMessages == ASSUME NEW p \in Providers PROVE Sees(p) \subseteq DOMAIN messages
  BY DEF Providers, Sees, AnthropicSees, OpenAISees, OllamaSees, ClaudeCodeSees, Last, First,
         Positions

LEMMA RoundsStep == CallsInv /\ RoundsInv /\ [CallsNext]_callsVars => RoundsInv'
  <1> SUFFICES ASSUME CallsInv, RoundsInv, [CallsNext]_callsVars PROVE RoundsInv'
    OBVIOUS
  <1> USE CallsAssumption DEF RoundsInv
  <1>1. CASE Plan \/ Reflect \/ ProviderNotFound \/ NoFallback
    BY <1>1 DEF Plan, Reflect, ProviderNotFound, NoFallback
  <1>r. CASE ExecuteTools
    BY <1>r DEF ExecuteTools
  <1>2. ASSUME NEW p \in Providers, NEW model, Asked(p, model)
        PROVE  request'.seen \subseteq DOMAIN request'.list
    BY <1>2, SeesMessages DEF Asked
  <1>3. registered \subseteq Providers
    BY DEF CallsInv
  <1>4. CASE Ask
    BY <1>2, <1>3, <1>4 DEF Ask, AnswersText, AnswersCalls, RequestFails
  <1>5. CASE FallBack
    BY <1>2, <1>3, <1>5 DEF FallBack
  <1>6. CASE UNCHANGED callsVars
    BY <1>6 DEF callsVars
  <1> QED BY <1>1, <1>r, <1>4, <1>5, <1>6 DEF CallsNext

(* ModelCalls: the types (CallsTypeOK); tool calls end with the iteration  *)
(* that max_iterations allows last, and what a provider passes on are      *)
(* messages of the list it was given.                                      *)
THEOREM CallsTypeCorrect == CallsSpec => []CallsTypeOK
  <1>1. CallsInit => RoundsInv
    BY CallsAssumption DEF CallsInit, RoundsInv, NoRequest
  <1>2. CallsInv /\ RoundsInv => CallsTypeOK
    BY DEF CallsInv, RoundsInv, CallsTypeOK
  <1> QED BY CallsInitInv, CallsStepInv, RoundsStep, <1>1, <1>2, PTL DEF CallsSpec

-----------------------------------------------------------------------------
(* Workflow: Kahn's algorithm, and what the order means to the execution.  *)

Ids == Nodes \cup Dangling
Elems(s) == {s[i] : i \in DOMAIN s}
NoDup(s) == \A i, j \in DOMAIN s : s[i] = s[j] => i = j

(* The edges into n whose beginning is not in the order yet. *)
LeftInto(n) == {e \in Into(n) : e.from \notin Elems(order)}
Closed(S) == \A n \in S : \E e \in Into(n) : e.from \in S

(* Nothing precedes what leads to it, and no cycle is in the order. *)
LineInv ==
  /\ edges \subseteq Edge /\ IsFiniteSet(edges)
  /\ order \in Seq(Ids) /\ NoDup(order)
  /\ \A i \in DOMAIN order : \A e \in Into(order[i]) : \E j \in 1 .. i - 1 : order[j] = e.from
  /\ \A S \in SUBSET Nodes : Closed(S) => S \cap Elems(order) = {}

(* The in-degree counts the edges left, and the queue has what has none. *)
SortInv ==
  /\ DOMAIN inDegree = Nodes \cup Targets
  /\ \A n \in DOMAIN inDegree : inDegree[n] = Cardinality(LeftInto(n))
  /\ queue \in Seq(Ids) /\ NoDup(queue)
  /\ Elems(order) \cap Elems(queue) = {}
  /\ Elems(order) \cup Elems(queue) \subseteq DOMAIN inDegree
  /\ \A n \in DOMAIN inDegree : inDegree[n] = 0 <=> n \in Elems(order) \cup Elems(queue)

Reached(n) ==
  \/ Into(n) = {}
  \/ \E e \in Into(n) : e.from \in DOMAIN executed /\ (e.conditional => e \in executed[e.from])

(* What is executed came before; what is reachable was reached. *)
ExecInv ==
  /\ next \in Nat \ {0}
  /\ \A n \in reachable : Reached(n)
  /\ \A n \in DOMAIN executed : Reached(n) /\ \E i \in DOMAIN order : i < next /\ order[i] = n

WorkflowInv ==
  /\ repeats \in Nat
  /\ LineInv /\ ExecInv /\ RefusedForCause
  /\ stage = "validating" => order = <<>>
  /\ stage = "sorting" => SortInv
  /\ ~Decided => DOMAIN executed = {}

-----------------------------------------------------------------------------
LEMMA InOrder ==
  ASSUME NEW S, IsFiniteSet(S), NEW s \in Permutations(S)
  PROVE  s \in Seq(S) /\ NoDup(s) /\ Elems(s) = S
  <1>1. Cardinality(S) \in Nat
    BY FS_CardinalityType
  <1>2. s \in [1 .. Cardinality(S) -> S] /\ {s[i] : i \in DOMAIN s} = S
    BY DEF Permutations
  <1>3. s \in Surjection(1 .. Cardinality(S), S)
    BY <1>2 DEF Surjection
  <1>4. IsFiniteSet(1 .. Cardinality(S)) /\ Cardinality(1 .. Cardinality(S)) = Cardinality(S)
    BY <1>1, FS_Interval
  <1>5. s \in Injection(1 .. Cardinality(S), S)
    BY <1>3, <1>4, FS_Surjection
  <1>6. NoDup(s)
    BY <1>5 DEF NoDup, Injection, IsInjective
  <1>7. s \in Seq(S)
    BY <1>1, <1>2
  <1> QED BY <1>2, <1>6, <1>7 DEF Elems

LEMMA TailElems ==
  ASSUME NEW S, NEW s \in Seq(S), s # <<>>, NoDup(s)
  PROVE  /\ Tail(s) \in Seq(S) /\ NoDup(Tail(s)) /\ Head(s) \in S
         /\ Elems(s) = {Head(s)} \cup Elems(Tail(s)) /\ Head(s) \notin Elems(Tail(s))
  <1>1. /\ Tail(s) \in Seq(S) /\ Head(s) \in S /\ Head(s) = s[1] /\ 1 \in DOMAIN s
        /\ \A i \in DOMAIN Tail(s) : i \in Nat \ {0} /\ i + 1 \in DOMAIN s /\ Tail(s)[i] = s[i + 1]
        /\ \A i \in DOMAIN s : i # 1 => i - 1 \in DOMAIN Tail(s) /\ Tail(s)[i - 1] = s[i]
    OBVIOUS
  <1>2. NoDup(Tail(s))
    BY <1>1 DEF NoDup
  <1>3. Head(s) \notin Elems(Tail(s))
    <2> SUFFICES ASSUME NEW i \in DOMAIN Tail(s), Tail(s)[i] = Head(s) PROVE FALSE
      BY DEF Elems
    <2>1. s[i + 1] = s[1] /\ i + 1 # 1 /\ i + 1 \in DOMAIN s
      BY <1>1
    <2> QED BY <1>1, <2>1 DEF NoDup
  <1>4. Elems(s) \subseteq {Head(s)} \cup Elems(Tail(s))
    <2>1. ASSUME NEW i \in DOMAIN s PROVE s[i] = Head(s) \/ s[i] \in Elems(Tail(s))
      <3>1. CASE i = 1
        BY <1>1, <3>1
      <3>2. CASE i # 1
        <4>1. i - 1 \in DOMAIN Tail(s) /\ Tail(s)[i - 1] = s[i]
          BY <1>1, <3>2
        <4> QED BY <4>1 DEF Elems
      <3> QED BY <3>1, <3>2
    <2> QED BY <2>1 DEF Elems
  <1>5. {Head(s)} \cup Elems(Tail(s)) \subseteq Elems(s)
    BY <1>1 DEF Elems
  <1> QED BY <1>1, <1>2, <1>3, <1>4, <1>5

LEMMA AppendElems ==
  ASSUME NEW S, NEW s \in Seq(S), NEW u \in S, NoDup(s), u \notin Elems(s)
  PROVE  /\ Append(s, u) \in Seq(S) /\ NoDup(Append(s, u))
         /\ Elems(Append(s, u)) = Elems(s) \cup {u}
         /\ DOMAIN Append(s, u) = DOMAIN s \cup {Len(s) + 1} /\ DOMAIN s = 1 .. Len(s)
         /\ Len(s) \in Nat
         /\ Append(s, u)[Len(s) + 1] = u /\ \A i \in DOMAIN s : Append(s, u)[i] = s[i]
  <1> DEFINE t == Append(s, u)
  <1>1. /\ t \in Seq(S) /\ DOMAIN t = DOMAIN s \cup {Len(s) + 1} /\ DOMAIN s = 1 .. Len(s)
        /\ Len(s) \in Nat
        /\ t[Len(s) + 1] = u
    OBVIOUS
  <1>2. \A i \in DOMAIN s : t[i] = s[i]
    OBVIOUS
  <1> HIDE DEF t
  <1>3. Elems(t) = Elems(s) \cup {u}
    BY <1>1, <1>2 DEF Elems
  <1>4. NoDup(t)
    BY <1>1, <1>2 DEF NoDup, Elems
  <1> QED BY <1>1, <1>2, <1>3, <1>4 DEF t

LEMMA ConcatElems ==
  ASSUME NEW S, NEW s \in Seq(S), NEW t \in Seq(S), NoDup(s), NoDup(t),
         Elems(s) \cap Elems(t) = {}
  PROVE  s \o t \in Seq(S) /\ NoDup(s \o t) /\ Elems(s \o t) = Elems(s) \cup Elems(t)
  <1> DEFINE r == s \o t
  <1>1. /\ r \in Seq(S) /\ Len(s) \in Nat /\ Len(t) \in Nat
        /\ DOMAIN r = 1 .. Len(s) + Len(t) /\ DOMAIN s = 1 .. Len(s) /\ DOMAIN t = 1 .. Len(t)
        /\ \A i \in DOMAIN s : r[i] = s[i]
        /\ \A i \in DOMAIN t : r[Len(s) + i] = t[i]
    OBVIOUS
  <1>2. \A i \in DOMAIN r : i \notin DOMAIN s => i - Len(s) \in DOMAIN t /\ r[i] = t[i - Len(s)]
    OBVIOUS
  <1> HIDE DEF r
  <1>3. \A i \in DOMAIN r : r[i] \in Elems(s) \cup Elems(t)
    BY <1>1, <1>2 DEF Elems
  <1>4. Elems(s) \cup Elems(t) \subseteq Elems(r)
    <2>1. \A i \in DOMAIN s : i \in DOMAIN r
      BY <1>1
    <2>2. \A i \in DOMAIN t : Len(s) + i \in DOMAIN r
      BY <1>1
    <2> QED BY <1>1, <2>1, <2>2 DEF Elems
  <1>5. Elems(r) = Elems(s) \cup Elems(t)
    BY <1>3, <1>4 DEF Elems
  <1>6. ASSUME NEW i \in DOMAIN r, NEW j \in DOMAIN r, r[i] = r[j] PROVE i = j
    <2>1. CASE i \in DOMAIN s /\ j \in DOMAIN s
      BY <1>1, <1>6, <2>1 DEF NoDup
    <2>2. CASE i \notin DOMAIN s /\ j \notin DOMAIN s
      <3>1. i - Len(s) = j - Len(s)
        BY <1>2, <1>6, <2>2 DEF NoDup
      <3> QED BY <1>1, <3>1
    <2>3. CASE ~(i \in DOMAIN s <=> j \in DOMAIN s)
      <3>1. \A k \in DOMAIN r : (k \in DOMAIN s => r[k] \in Elems(s))
                                /\ (k \notin DOMAIN s => r[k] \in Elems(t))
        BY <1>1, <1>2 DEF Elems
      <3> QED BY <1>6, <2>3, <3>1
    <2> QED BY <2>1, <2>2, <2>3
  <1> QED BY <1>1, <1>5, <1>6 DEF NoDup, r

LEMMA QueueGrows ==
  ASSUME NEW q \in Seq(Ids), NoDup(q), NEW F \in SUBSET Ids, IsFiniteSet(F),
         Elems(q) \cap F = {}, NEW p \in Permutations(F)
  PROVE  q \o p \in Seq(Ids) /\ NoDup(q \o p) /\ Elems(q \o p) = Elems(q) \cup F
  <1>1. p \in Seq(F) /\ NoDup(p) /\ Elems(p) = F
    BY InOrder
  <1>2. p \in Seq(Ids)
    BY <1>1
  <1> QED BY <1>1, <1>2, ConcatElems

LEMMA LineStands ==
  ASSUME LineInv, UNCHANGED <<edges, order>>
  PROVE  LineInv'
  <1>1. edges' \subseteq Edge /\ IsFiniteSet(edges') /\ order' \in Seq(Ids) /\ NoDup(order')
    BY DEF LineInv
  <1>2. \A i \in DOMAIN order' : \A e \in Into(order[i])' : \E j \in 1 .. i - 1 : order'[j] = e.from
    BY DEF LineInv, Into
  <1>3. \A S \in SUBSET Nodes : Closed(S)' => S \cap Elems(order)' = {}
    <2>1. \A S : Closed(S)' <=> Closed(S)
      BY DEF Closed, Into
    <2>2. Elems(order)' = Elems(order)
      BY DEF Elems
    <2> QED BY <2>1, <2>2 DEF LineInv
  <1> QED BY <1>1, <1>2, <1>3 DEF LineInv

LEMMA WorkflowInitInv == WorkflowInit => WorkflowInv
  <1> SUFFICES ASSUME WorkflowInit PROVE WorkflowInv
    OBVIOUS
  <1>0. PICK r \in 0 .. MaxRepeats, k \in 0 .. MaxEdges :
          \E e \in [1 .. k -> Edge] : StartsWith({e[i] : i \in 1 .. k}, r)
    BY DEF WorkflowInit
  <1>1. PICK e \in [1 .. k -> Edge] : StartsWith({e[i] : i \in 1 .. k}, r)
    BY <1>0
  <1> DEFINE E == {e[i] : i \in 1 .. k}
  <1>2. e \in Surjection(1 .. k, E) /\ E \subseteq Edge
    BY DEF Surjection
  <1>3. IsFiniteSet(1 .. k)
    BY WorkflowAssumption, FS_Interval
  <1> HIDE DEF E
  <1>4. IsFiniteSet(E)
    BY <1>2, <1>3, FS_Surjection
  <1>5. edges = E /\ stage = "validating" /\ order = <<>> /\ next = 1 /\ reachable = {} /\ executed = <<>>
        /\ repeats \in Nat
    BY <1>1, WorkflowAssumption DEF StartsWith, E
  <1>6. LineInv
    BY <1>2, <1>4, <1>5 DEF LineInv, NoDup, Elems
  <1>7. ExecInv /\ RefusedForCause
    BY <1>5 DEF ExecInv, RefusedForCause, Decided
  <1> QED BY <1>5, <1>6, <1>7 DEF WorkflowInv

LEMMA StartSortInv ==
  ASSUME WorkflowInv, StartSort
  PROVE  WorkflowInv'
  <1> USE WorkflowAssumption
  <1>1. /\ stage = "validating" /\ stage' = "sorting" /\ inDegree' = Degree
        /\ queue' \in Permutations({n \in DOMAIN inDegree' : inDegree'[n] = 0})
        /\ UNCHANGED <<edges, repeats, order, next, reachable, executed>>
    BY DEF StartSort, definition
  <1>2. order = <<>> /\ LineInv /\ ExecInv
    BY <1>1 DEF WorkflowInv
  <1>3. Elems(order) = {}
    BY <1>2 DEF Elems
  <1>4. Targets \subseteq Ids /\ IsFiniteSet(Ids)
    BY <1>2 DEF Targets, LineInv, Edge, Ids
  <1>5. PICK S : S = {n \in Nodes \cup Targets : Cardinality(Into(n)) = 0}
    OBVIOUS
  <1>6. S \subseteq Ids /\ IsFiniteSet(S)
    <2>1. S \subseteq Ids
      BY <1>4, <1>5 DEF Ids
    <2> QED BY <1>4, <2>1, FS_Subset
  <1>7. queue' \in Permutations(S)
    BY <1>1, <1>5 DEF Degree
  <1>8. PICK q \in Permutations(S) : q = queue'
    BY <1>7
  <1>9. q \in Seq(S) /\ NoDup(q) /\ Elems(q) = S
    BY <1>6, <1>8, InOrder
  <1>10. q \in Seq(Ids)
    BY <1>6, <1>9
  <1>11. \A n : LeftInto(n)' = Into(n)
    BY <1>1, <1>3 DEF LeftInto, Into, Elems
  <1>12. SortInv'
    <2>1. DOMAIN inDegree' = Nodes \cup Targets /\ Targets' = Targets
      BY <1>1 DEF Degree, Targets
    <2>2. \A n \in DOMAIN inDegree' : inDegree'[n] = Cardinality(Into(n))
      BY <1>1 DEF Degree
    <2>3. Elems(order)' = {} /\ Elems(queue)' = S
      BY <1>1, <1>3, <1>8, <1>9 DEF Elems
    <2>4. queue' \in Seq(Ids) /\ NoDup(queue')
      BY <1>8, <1>9, <1>10
    <2>5. \A n \in DOMAIN inDegree' : inDegree'[n] = 0 <=> n \in S
      BY <1>5, <2>1, <2>2
    <2>6. S \subseteq DOMAIN inDegree'
      BY <1>5, <2>1
    <2>7. \A n \in DOMAIN inDegree' : inDegree'[n] = Cardinality(LeftInto(n)')
      BY <1>11, <2>2
    <2> QED BY <2>1, <2>3, <2>4, <2>5, <2>6, <2>7 DEF SortInv
  <1>13. LineInv'
    BY <1>1, <1>2 DEF LineInv, Into, Closed, Elems
  <1>14. ExecInv'
    BY <1>1, <1>2 DEF ExecInv, Reached, Into
  <1> QED BY <1>1, <1>12, <1>13, <1>14 DEF WorkflowInv, RefusedForCause, Decided

LEMMA OrderNodeInv ==
  ASSUME WorkflowInv, OrderNode
  PROVE  WorkflowInv'
  <1> USE WorkflowAssumption
  <1>1. stage = "sorting" /\ queue # <<>> /\ UNCHANGED <<edges, repeats, stage, next, reachable, executed>>
    BY DEF OrderNode, definition
  <1>2. LineInv /\ SortInv /\ ExecInv
    BY <1>1 DEF WorkflowInv
  <1>3. PICK n : n = Head(queue)
    OBVIOUS
  <1> DEFINE Held(m) == {e \in OutOf(n) : e.to = m}
             left == [m \in DOMAIN inDegree |-> inDegree[m] - Cardinality(Held(m))]
             freed == {e.to : e \in OutOf(n)} \cap {m \in DOMAIN left : left[m] = 0}
  <1>4. /\ order' = Append(order, n) /\ inDegree' = left
        /\ \E s \in Permutations(freed) : queue' = Tail(queue) \o s
    BY <1>3 DEF OrderNode
  <1>5. /\ n \in Ids /\ Elems(queue) = {n} \cup Elems(Tail(queue)) /\ n \notin Elems(Tail(queue))
        /\ Tail(queue) \in Seq(Ids) /\ NoDup(Tail(queue))
    <2>1. PICK q \in Seq(Ids) : q = queue /\ q # <<>> /\ NoDup(q)
      BY <1>1, <1>2 DEF SortInv
    <2> QED BY <1>3, <2>1, TailElems
  <1>6. n \in DOMAIN inDegree /\ inDegree[n] = 0 /\ n \notin Elems(order)
    BY <1>2, <1>5 DEF SortInv
  <1>7. \A m : IsFiniteSet(LeftInto(m)) /\ LeftInto(m) \subseteq edges
    <2>1. \A m : LeftInto(m) \in SUBSET edges
      BY DEF LeftInto, Into
    <2>2. IsFiniteSet(edges)
      BY <1>2 DEF LineInv
    <2> QED BY <2>1, <2>2, FS_Subset
  <1>8. \A e \in Into(n) : e.from \in Elems(order)
    <2>1. LeftInto(n) = {}
      BY <1>2, <1>6, <1>7, FS_EmptySet DEF SortInv
    <2> QED BY <2>1 DEF LeftInto
  <1>9. /\ order' \in Seq(Ids) /\ NoDup(order') /\ Elems(order') = Elems(order) \cup {n}
        /\ DOMAIN order' = DOMAIN order \cup {Len(order) + 1} /\ DOMAIN order = 1 .. Len(order)
        /\ Len(order) \in Nat
        /\ order'[Len(order) + 1] = n /\ \A i \in DOMAIN order : order'[i] = order[i]
    <2>1. PICK o \in Seq(Ids) : o = order /\ NoDup(o) /\ n \notin Elems(o)
      BY <1>2, <1>6 DEF LineInv
    <2> QED BY <1>4, <1>5, <2>1, AppendElems
  <1>10. \A m : Into(m)' = Into(m)
    BY <1>1 DEF Into
  <1>11. LineInv'
    <2>1. ASSUME NEW i \in DOMAIN order', NEW e \in Into(order'[i])
          PROVE  \E j \in 1 .. i - 1 : order'[j] = e.from
      <3>1. CASE i = Len(order) + 1
        <4>1. e.from \in Elems(order)
          BY <1>8, <1>9, <3>1
        <4>2. PICK j \in DOMAIN order : order[j] = e.from
          BY <4>1 DEF Elems
        <4> QED BY <1>9, <3>1, <4>2
      <3>2. CASE i \in DOMAIN order
        <4>1. PICK j \in 1 .. i - 1 : order[j] = e.from
          BY <1>2, <1>9, <3>2 DEF LineInv
        <4>2. j \in DOMAIN order
          BY <1>9, <3>2
        <4> QED BY <1>9, <4>1, <4>2
      <3> QED BY <1>9, <3>1, <3>2
    <2>2. ASSUME NEW S \in SUBSET Nodes, Closed(S) PROVE S \cap Elems(order') = {}
      <3>1. S \cap Elems(order) = {}
        BY <1>2, <2>2 DEF LineInv
      <3>2. n \notin S
        BY <1>8, <2>2, <3>1 DEF Closed
      <3> QED BY <1>9, <3>1, <3>2
    <2>3. \A S : Closed(S)' <=> Closed(S)
      BY <1>10 DEF Closed
    <2>4. \A i \in DOMAIN order' : \A e \in edges' :
            e.to = order'[i] => \E j \in 1 .. i - 1 : order'[j] = e.from
      BY <1>1, <2>1 DEF Into
    <2>5. edges' \subseteq Edge /\ IsFiniteSet(edges')
      BY <1>1, <1>2 DEF LineInv
    <2>6. Elems(order)' = Elems(order')
      BY DEF Elems
    <2>7. \A i \in DOMAIN order' :
            \A e \in {d \in edges' : d.to = order'[i]} : \E j \in 1 .. i - 1 : order'[j] = e.from
      BY ONLY <2>4
    <2> QED BY ONLY <1>9, <2>2, <2>3, <2>5, <2>6, <2>7 DEF LineInv, Into
  <1>12. ASSUME NEW m
         PROVE  /\ LeftInto(m)' = LeftInto(m) \ Held(m) /\ Held(m) \subseteq LeftInto(m)
                /\ IsFiniteSet(Held(m))
                /\ Cardinality(LeftInto(m)') = Cardinality(LeftInto(m)) - Cardinality(Held(m))
                /\ Cardinality(LeftInto(m)) \in Nat /\ Cardinality(LeftInto(m)') \in Nat
    <2>1. Held(m) \subseteq LeftInto(m)
      BY <1>6 DEF OutOf, LeftInto, Into
    <2>2. LeftInto(m)' = LeftInto(m) \ Held(m)
      <3>1. Elems(order)' = Elems(order) \cup {n}
        BY <1>9 DEF Elems
      <3>2. LeftInto(m)' = {e \in Into(m) : e.from \notin Elems(order) \cup {n}}
        BY <1>10, <3>1 DEF LeftInto
      <3> QED BY <3>2 DEF LeftInto, OutOf, Into
    <2> DEFINE A == LeftInto(m)
               B == Held(m)
    <2>3. IsFiniteSet(A) /\ B \in SUBSET A
      BY <1>7, <2>1
    <2> HIDE DEF A, B
    <2>4. /\ IsFiniteSet(B) /\ IsFiniteSet(A \ B) /\ Cardinality(A \ B) = Cardinality(A) - Cardinality(A \cap B)
          /\ A \cap B = B
      BY <2>3, FS_Subset, FS_Difference
    <2>5. Cardinality(A) \in Nat /\ Cardinality(A \ B) \in Nat
      BY <2>3, <2>4, FS_CardinalityType
    <2> QED BY <2>1, <2>2, <2>4, <2>5 DEF A, B
  <1>13. \A m \in DOMAIN inDegree : inDegree'[m] = Cardinality(LeftInto(m)')
    BY <1>2, <1>4, <1>12 DEF SortInv
  <1>14. /\ DOMAIN inDegree' = DOMAIN inDegree
         /\ \A m : m \in freed <=> m \in DOMAIN inDegree /\ Held(m) # {} /\ inDegree'[m] = 0
    BY <1>4
  <1>15. PICK F : F = freed
    OBVIOUS
  <1>16. \A m \in F : m \notin Elems(order) \cup Elems(queue)
    <2>1. ASSUME NEW m \in F PROVE inDegree[m] # 0 /\ m \in DOMAIN inDegree
      <3>1. Held(m) # {} /\ m \in DOMAIN inDegree
        BY <1>14, <1>15
      <3>2. LeftInto(m) # {}
        BY <1>12, <3>1
      <3>3. Cardinality(LeftInto(m)) # 0
        BY <1>7, <3>2, FS_EmptySet
      <3> QED BY <1>2, <3>1, <3>3 DEF SortInv
    <2> QED BY <1>2, <2>1 DEF SortInv
  <1>17. \A m \in DOMAIN inDegree :
           inDegree'[m] = 0 <=> m \in Elems(order) \cup Elems(queue) \cup F
    <2>1. ASSUME NEW m \in DOMAIN inDegree, inDegree[m] = 0 PROVE inDegree'[m] = 0
      <3>1. Cardinality(LeftInto(m)) = 0
        BY <1>2, <2>1 DEF SortInv
      <3>2. LeftInto(m) = {}
        BY <1>7, <3>1, FS_EmptySet
      <3>3. LeftInto(m)' = {}
        BY <1>12, <3>2
      <3> QED BY <1>13, <3>3, FS_EmptySet
    <2>2. ASSUME NEW m \in DOMAIN inDegree, inDegree[m] # 0, inDegree'[m] = 0 PROVE m \in F
      <3>1. Held(m) # {}
        <4> SUFFICES ASSUME Held(m) = {} PROVE FALSE
          OBVIOUS
        <4>1. Cardinality(LeftInto(m)') = Cardinality(LeftInto(m))
          BY <1>12
        <4> QED BY <1>2, <1>13, <2>2, <4>1 DEF SortInv
      <3> QED BY <1>14, <1>15, <2>2, <3>1
    <2>3. \A m \in F : inDegree'[m] = 0
      BY <1>14, <1>15
    <2> HIDE DEF left
    <2> QED BY <1>2, <2>1, <2>2, <2>3 DEF SortInv
  <1>18. F \subseteq DOMAIN inDegree /\ DOMAIN inDegree \subseteq Ids /\ IsFiniteSet(F)
    <2>1. F \subseteq DOMAIN inDegree
      BY <1>14, <1>15
    <2>2. DOMAIN inDegree \subseteq Ids
      BY <1>2 DEF SortInv, LineInv, Targets, Edge, Ids
    <2>3. IsFiniteSet(Ids) /\ F \in SUBSET Ids
      BY <2>1, <2>2 DEF Ids
    <2> QED BY <2>1, <2>2, <2>3, FS_Subset
  <1>19. PICK p \in Permutations(F) : queue' = Tail(queue) \o p
    BY <1>4, <1>15
  <1> HIDE DEF left, freed, Held
  <1>22. /\ queue' \in Seq(Ids) /\ NoDup(queue')
         /\ Elems(queue') = Elems(Tail(queue)) \cup F
    <2>1. Elems(Tail(queue)) \cap F = {}
      BY <1>5, <1>16
    <2>2. PICK q \in Seq(Ids) : q = Tail(queue) /\ NoDup(q) /\ Elems(q) \cap F = {}
      BY <1>5, <2>1
    <2>3. F \in SUBSET Ids
      BY <1>18
    <2>4. q \o p \in Seq(Ids) /\ NoDup(q \o p) /\ Elems(q \o p) = Elems(q) \cup F
      BY <1>18, <2>2, <2>3, QueueGrows
    <2> QED BY <1>19, <2>2, <2>4
  <1>23. SortInv'
    <2>1. DOMAIN inDegree' = (Nodes \cup Targets)'
      BY <1>1, <1>2, <1>14 DEF SortInv, Targets
    <2>2. Elems(order') \cup Elems(queue') = Elems(order) \cup Elems(queue) \cup F
      BY <1>5, <1>9, <1>22
    <2>3. Elems(order') \cap Elems(queue') = {}
      BY <1>2, <1>5, <1>9, <1>16, <1>22 DEF SortInv
    <2>4. Elems(order') \cup Elems(queue') \subseteq DOMAIN inDegree'
      BY <1>2, <1>14, <1>18, <2>2 DEF SortInv
    <2>5. \A m \in DOMAIN inDegree' : inDegree'[m] = 0 <=> m \in Elems(order') \cup Elems(queue')
      BY <1>14, <1>17, <2>2
    <2>6. Elems(order)' = Elems(order') /\ Elems(queue)' = Elems(queue')
      BY DEF Elems
    <2> QED BY <1>13, <1>14, <1>22, <2>1, <2>3, <2>4, <2>5, <2>6 DEF SortInv
  <1>24. ~Decided /\ DOMAIN executed = {}
    BY <1>1 DEF WorkflowInv, Decided
  <1>25. ExecInv'
    BY <1>1, <1>2, <1>10, <1>24 DEF ExecInv, Reached
  <1> QED BY <1>1, <1>11, <1>23, <1>24, <1>25 DEF WorkflowInv, RefusedForCause, Decided

LEMMA EndSortInv ==
  ASSUME WorkflowInv, EndSort
  PROVE  WorkflowInv'
  <1> USE WorkflowAssumption
  <1>1. /\ stage = "sorting" /\ queue = <<>>
        /\ stage' = IF Len(order) = Cardinality(Nodes) + repeats THEN "executing" ELSE "cycle"
        /\ reachable' = Nodes \ Targets
        /\ UNCHANGED <<edges, repeats, inDegree, queue, order, next, executed>>
    BY DEF EndSort, definition
  <1>2. LineInv /\ SortInv /\ ExecInv
    BY <1>1 DEF WorkflowInv
  <1>3. \A m : Into(m)' = Into(m)
    BY <1>1 DEF Into
  <1>4. LineInv'
    BY <1>1, <1>2, LineStands
  <1>5. ExecInv'
    <2>1. \A n \in reachable' : Into(n) = {}
      BY <1>1 DEF Targets, Into
    <2> QED BY <1>1, <1>2, <1>3, <2>1 DEF ExecInv, Reached
  <1>6. RefusedForCause'
    <2>1. SUFFICES ASSUME WellFormed
                   PROVE  Len(order) # Cardinality(Nodes) + repeats <=> Cyclic \/ repeats > 0
      <3>1. WellFormed' <=> WellFormed
        BY <1>1 DEF WellFormed
      <3>2. Cyclic' <=> Cyclic
        BY <1>3 DEF Cyclic
      <3>3. stage' = "cycle" <=> Len(order) # Cardinality(Nodes) + repeats
        BY <1>1
      <3>4. repeats' = repeats
        BY <1>1
      <3> QED BY <2>1, <3>1, <3>2, <3>3, <3>4 DEF RefusedForCause
    <2>2. Elems(queue) = {}
      BY <1>1 DEF Elems
    <2>3. Nodes \cup Targets = Nodes
      BY <2>1 DEF WellFormed, Targets
    <2>4. Elems(order) \subseteq Nodes /\ \A n \in Nodes : inDegree[n] = 0 <=> n \in Elems(order)
      BY <1>2, <2>2, <2>3 DEF SortInv
    <2>5. IsFiniteSet(Nodes) /\ IsFiniteSet(Elems(order))
      <3>1. Nodes \in SUBSET (Nodes \cup Dangling)
        OBVIOUS
      <3>2. IsFiniteSet(Nodes)
        BY <3>1, FS_Subset
      <3> QED BY <2>4, <3>2, FS_Subset
    <2>6. Cardinality(Elems(order)) = Len(order)
      <3>1. PICK o \in Seq(Ids) : o = order /\ NoDup(o)
        BY <1>2 DEF LineInv
      <3>2. o \in Injection(1 .. Len(o), Elems(o)) /\ o \in Surjection(1 .. Len(o), Elems(o)) /\ Len(o) \in Nat
        <4>1. Len(o) \in Nat /\ DOMAIN o = 1 .. Len(o) /\ o \in [1 .. Len(o) -> Elems(o)]
          BY DEF Elems
        <4>2. \A t \in Elems(o) : \E i \in 1 .. Len(o) : o[i] = t
          BY <4>1 DEF Elems
        <4>3. o \in Surjection(1 .. Len(o), Elems(o))
          BY <4>1, <4>2 DEF Surjection
        <4>4. o \in Injection(1 .. Len(o), Elems(o))
          BY <3>1, <4>1 DEF NoDup, Injection, IsInjective
        <4> QED BY <4>1, <4>3, <4>4
      <3>3. IsFiniteSet(1 .. Len(o)) /\ Cardinality(1 .. Len(o)) = Len(o)
        <4>1. PICK n \in Nat : n = Len(o)
          BY <3>2
        <4>2. IsFiniteSet(1 .. n) /\ Cardinality(1 .. n) = n
          BY FS_Interval
        <4> QED BY ONLY <4>1, <4>2
      <3>4. Cardinality(Elems(o)) = Cardinality(1 .. Len(o))
        BY <3>2, <3>3, FS_Surjection
      <3> QED BY <3>1, <3>3, <3>4
    <2>7. Len(order) = Cardinality(Nodes) <=> Elems(order) = Nodes
      BY <2>4, <2>5, <2>6, FS_Subset
    <2>8. ASSUME Cyclic PROVE Elems(order) # Nodes
      <3>1. PICK S \in SUBSET Nodes : S # {} /\ Closed(S)
        BY <2>8 DEF Cyclic, Closed
      <3> QED BY <1>2, <3>1 DEF LineInv
    <2>9. ASSUME Elems(order) # Nodes PROVE Cyclic
      <3>1. Nodes \ Elems(order) # {}
        BY <2>4, <2>9
      <3>2. ASSUME NEW n \in Nodes \ Elems(order)
            PROVE  \E e \in Into(n) : e.from \in Nodes \ Elems(order)
        <4>1. Cardinality(LeftInto(n)) # 0
          BY <1>2, <2>3, <2>4 DEF SortInv
        <4>2. LeftInto(n) # {}
          BY <4>1, FS_EmptySet
        <4> QED BY <2>1, <4>2 DEF LeftInto, Into, WellFormed
      <3> QED BY <3>1, <3>2 DEF Cyclic
    <2>10. /\ Cardinality(Nodes) \in Nat /\ Len(order) \in Nat /\ repeats \in Nat
           /\ Len(order) <= Cardinality(Nodes)
      BY <2>4, <2>5, <2>6, FS_Subset, FS_CardinalityType DEF WorkflowInv
    <2> QED BY <2>7, <2>8, <2>9, <2>10
  <1>7. Decided'
    BY <1>1 DEF Decided
  <1> QED BY <1>1, <1>4, <1>5, <1>6, <1>7 DEF WorkflowInv, Decided

(* From here on the order stands. *)
LEMMA ExecutionInv ==
  ASSUME WorkflowInv, Skip \/ Execute \/ Fail \/ Complete
  PROVE  WorkflowInv'
  <1>1. /\ stage = "executing" /\ UNCHANGED <<edges, repeats, order>>
        /\ stage' \in {"executing", "failed", "completed"}
    BY DEF Skip, Execute, Fail, Complete, definition
  <1>2. LineInv /\ ExecInv
    BY DEF WorkflowInv
  <1>3. \A m : Into(m)' = Into(m)
    BY <1>1 DEF Into
  <1>4. LineInv'
    BY <1>1, <1>2, LineStands
  <1>5. RefusedForCause'
    <2>1. (WellFormed' <=> WellFormed) /\ (Cyclic' <=> Cyclic)
      BY <1>1, <1>3 DEF WellFormed, Cyclic
    <2> QED BY <1>1, <2>1 DEF WorkflowInv, RefusedForCause, Decided
  <1>6. ExecInv'
    <2>1. CASE Skip \/ Fail \/ Complete
      <3>1. UNCHANGED <<reachable, executed>> /\ next' \in {next, next + 1}
        BY <2>1 DEF Skip, Fail, Complete
      <3>2. \A n : Reached(n)' <=> Reached(n)
        BY <1>3, <3>1 DEF Reached
      <3>3. \A i \in DOMAIN order : i < next => i < next'
        BY <1>2, <3>1 DEF ExecInv, LineInv
      <3>4. next' \in Nat \ {0}
        BY <1>2, <3>1 DEF ExecInv
      <3> QED BY <1>1, <1>2, <3>1, <3>2, <3>3, <3>4 DEF ExecInv
    <2>2. CASE Execute
      <3>1. PICK n : n = order[next]
        OBVIOUS
      <3>2. PICK output \in SUBSET {e \in OutOf(n) : e.conditional} :
              /\ executed' = [m \in DOMAIN executed \cup {n} |-> IF m = n THEN output ELSE executed[m]]
              /\ reachable' = reachable \cup {e.to : e \in {d \in OutOf(n) : ShouldTraverse(d, output)}}
        BY <2>2, <3>1 DEF Execute
      <3>3. next' = next + 1 /\ next <= Len(order) /\ n \in reachable
        BY <2>2, <3>1 DEF Execute
      <3>4. next \in DOMAIN order /\ next' \in Nat \ {0} /\ \A i \in DOMAIN order : i \in Nat
        BY <1>2, <3>3 DEF ExecInv, LineInv
      <3>5. n \notin DOMAIN executed
        <4> SUFFICES ASSUME n \in DOMAIN executed PROVE FALSE
          OBVIOUS
        <4>1. PICK i \in DOMAIN order : i < next /\ order[i] = n
          BY <1>2 DEF ExecInv
        <4> QED BY <1>2, <3>1, <3>4, <4>1 DEF LineInv, NoDup
      <3>6. /\ DOMAIN executed' = DOMAIN executed \cup {n} /\ executed'[n] = output
            /\ \A m \in DOMAIN executed : executed'[m] = executed[m]
        BY <3>2, <3>5
      <3>7. \A m : Reached(m) => Reached(m)'
        BY <1>3, <3>6 DEF Reached
      <3>8. ASSUME NEW m \in reachable' PROVE Reached(m)'
        <4>1. CASE m \in reachable
          BY <1>2, <3>7, <4>1 DEF ExecInv
        <4>2. CASE \E e \in OutOf(n) : e.to = m /\ ShouldTraverse(e, output)
          <5>1. PICK e \in OutOf(n) : e.to = m /\ ShouldTraverse(e, output)
            BY <4>2
          <5>2. e \in Into(m) /\ e.from = n /\ (e.conditional => e \in output)
            BY <5>1 DEF OutOf, Into, ShouldTraverse
          <5> QED BY <1>3, <3>6, <5>2 DEF Reached
        <4> QED BY <3>2, <4>1, <4>2
      <3>9. ASSUME NEW m \in DOMAIN executed'
            PROVE  Reached(m)' /\ \E i \in DOMAIN order : i < next' /\ order[i] = m
        <4>1. CASE m = n
          BY <1>2, <3>1, <3>3, <3>4, <3>7, <4>1 DEF ExecInv
        <4>2. CASE m \in DOMAIN executed
          <5>1. PICK i \in DOMAIN order : i < next /\ order[i] = m
            BY <1>2, <4>2 DEF ExecInv
          <5>2. i < next'
            BY <1>2, <3>3, <3>4, <5>1 DEF ExecInv
          <5> QED BY <1>2, <3>7, <4>2, <5>1, <5>2 DEF ExecInv
        <4> QED BY <3>6, <4>1, <4>2
      <3> QED BY <1>1, <3>4, <3>8, <3>9 DEF ExecInv
    <2> QED BY <2>1, <2>2
  <1> QED BY <1>1, <1>4, <1>5, <1>6 DEF WorkflowInv, Decided

LEMMA WorkflowStepInv == WorkflowInv /\ [WorkflowNext]_workflowVars => WorkflowInv'
  <1> SUFFICES ASSUME WorkflowInv, [WorkflowNext]_workflowVars PROVE WorkflowInv'
    OBVIOUS
  <1>1. CASE UNCHANGED workflowVars
    <2>1. ExecInv'
      BY <1>1 DEF workflowVars, definition, WorkflowInv, ExecInv, Reached, Into
    <2>4. LineInv'
      BY <1>1, LineStands DEF workflowVars, definition, WorkflowInv
    <2>2. RefusedForCause'
      BY <1>1 DEF workflowVars, definition, WorkflowInv, RefusedForCause, Decided, WellFormed, Cyclic, Into
    <2>3. stage = "sorting" => SortInv'
      BY <1>1 DEF workflowVars, definition, WorkflowInv, SortInv, Targets, LeftInto, Into, Elems
    <2> QED BY <1>1, <2>1, <2>2, <2>3, <2>4 DEF workflowVars, definition, WorkflowInv, Decided
  <1> QED BY <1>1, StartSortInv, OrderNodeInv, EndSortInv, ExecutionInv DEF WorkflowNext

(* A workflow of defined nodes is refused for a cycle if, and only if, it  *)
(* has one or repeats an id, and what is executed was reached over an edge *)
(* that was satisfied, after all that leads to it (FollowsDefinition): for *)
(* any nodes and edges, parallel edges and loops included.                 *)
THEOREM WorkflowFollowsDefinition == WorkflowSpec => []FollowsDefinition
  <1>1. WorkflowInv => FollowsDefinition
    <2> SUFFICES ASSUME WorkflowInv, NEW n \in DOMAIN executed, Into(n) # {}
                 PROVE  /\ \E e \in Into(n) : e.from \in DOMAIN executed
                                              /\ (e.conditional => e \in executed[e.from])
                        /\ \A e \in Into(n) : \/ e.from \in DOMAIN executed
                                              \/ e.from \notin {order[i] : i \in next .. Len(order)}
      BY DEF FollowsDefinition, ExecutedByASatisfiedEdge, WorkflowInv
    <2>1. Reached(n)
      BY DEF WorkflowInv, ExecInv
    <2>2. PICK k \in DOMAIN order : k < next /\ order[k] = n
      BY DEF WorkflowInv, ExecInv
    <2>3. ASSUME NEW e \in Into(n) PROVE e.from \notin {order[i] : i \in next .. Len(order)}
      <3>1. PICK j \in 1 .. k - 1 : order[j] = e.from
        BY <2>2 DEF WorkflowInv, LineInv
      <3>2. /\ DOMAIN order = 1 .. Len(order) /\ Len(order) \in Nat /\ next \in Nat \ {0}
            /\ \A i, l \in DOMAIN order : order[i] = order[l] => i = l
        BY DEF WorkflowInv, LineInv, ExecInv, NoDup
      <3>3. \A i \in next .. Len(order) : i \in DOMAIN order /\ j \in DOMAIN order /\ i # j
        BY <2>2, <3>1, <3>2
      <3> QED BY <3>1, <3>2, <3>3
    <2> QED BY <2>1, <2>3 DEF Reached
  <1> QED BY WorkflowInitInv, WorkflowStepInv, <1>1, PTL DEF WorkflowSpec

(* The position is in the order, and only defined nodes are executed. *)
StageInv ==
  /\ stage \in {"validating", "sorting", "executing", "completed", "failed", "cycle"}
  /\ DOMAIN executed \subseteq Nodes
  /\ next <= Len(order) + 1
  /\ repeats \in 0 .. MaxRepeats

LEMMA StageStep == WorkflowInv /\ StageInv /\ [WorkflowNext]_workflowVars => StageInv'
  <1> SUFFICES ASSUME WorkflowInv, StageInv, [WorkflowNext]_workflowVars PROVE StageInv'
    OBVIOUS
  <1>t. order \in Seq(Ids) /\ next \in Nat /\ Len(order) \in Nat
    BY DEF WorkflowInv, LineInv, ExecInv
  <1>1. CASE StartSort \/ EndSort \/ Fail \/ Complete \/ UNCHANGED workflowVars
    BY <1>1 DEF StartSort, EndSort, Fail, Complete, workflowVars, definition, StageInv
  <1>2. CASE OrderNode
    <2>1. \E n : order' = Append(order, n)
      BY <1>2 DEF OrderNode
    <2>2. Len(order') = Len(order) + 1
      BY <1>t, <2>1
    <2> QED BY <1>t, <1>2, <2>2 DEF OrderNode, definition, StageInv
  <1>3. CASE Skip
    BY <1>t, <1>3 DEF Skip, definition, StageInv
  <1>4. CASE Execute
    <2>1. order[next] \in Nodes /\ DOMAIN executed' = DOMAIN executed \cup {order[next]}
      BY <1>4 DEF Execute
    <2> QED BY <1>t, <1>4, <2>1 DEF Execute, definition, StageInv
  <1> QED BY <1>1, <1>2, <1>3, <1>4 DEF WorkflowNext

(* A workflow executes only nodes that are defined, whatever its edges     *)
(* name (Workflow's type invariant).                                       *)
THEOREM WorkflowTypeCorrect == WorkflowSpec => []WorkflowTypeOK
  <1>1. WorkflowInit => StageInv
    BY DEF WorkflowInit, StartsWith, StageInv
  <1>2. WorkflowInv /\ StageInv => WorkflowTypeOK
    <2> SUFFICES ASSUME WorkflowInv, StageInv PROVE WorkflowTypeOK
      OBVIOUS
    <2>1. order \in Seq(Ids) /\ next \in Nat \ {0} /\ edges \subseteq Edge
      BY DEF WorkflowInv, LineInv, ExecInv
    <2> QED BY <2>1 DEF StageInv, WorkflowTypeOK
  <1> QED BY WorkflowInitInv, WorkflowStepInv, StageStep, <1>1, <1>2, PTL DEF WorkflowSpec

-----------------------------------------------------------------------------
(* ModelStream: the elements of a sequence at some of its positions.       *)

(* Each position has a rank of its own, and every rank has its position.   *)
LEMMA RankIsNumber ==
  ASSUME NEW n \in Nat, NEW S \in SUBSET (1 .. n), NEW i \in S
  PROVE  Rank(S, i) \in 1 .. Cardinality(S) /\ Cardinality(S) \in Nat
  <1> DEFINE B == {j \in S : j <= i}
  <1>1. IsFiniteSet(S) /\ B \in SUBSET S /\ i \in B
    BY PositionsFinite
  <1>2. IsFiniteSet(B) /\ Cardinality(B) <= Cardinality(S)
    BY <1>1, FS_Subset
  <1>3. Cardinality(B) \in Nat /\ Cardinality(B) # 0 /\ Cardinality(S) \in Nat
    BY <1>1, <1>2, FS_CardinalityType, FS_EmptySet
  <1> QED BY <1>2, <1>3 DEF Rank

LEMMA RanksDiffer ==
  ASSUME NEW n \in Nat, NEW S \in SUBSET (1 .. n), NEW i \in S, NEW j \in S, i < j
  PROVE  Rank(S, i) < Rank(S, j)
  <1> DEFINE A == {k \in S : k <= i}
             B == {k \in S : k <= j}
  <1>1. IsFiniteSet(B)
    BY PositionsFinite, FS_Subset
  <1>2. A \in SUBSET B /\ j \in B /\ j \notin A
    <2>1. i \in Nat /\ j \in Nat /\ \A k \in S : k \in Nat
      BY PositionsFinite
    <2>2. (\A k \in S : k <= i => k <= j) /\ j <= j /\ ~(j <= i)
      BY <2>1
    <2> QED BY <2>2
  <1>3. Cardinality(A) <= Cardinality(B) /\ Cardinality(A) # Cardinality(B) /\ IsFiniteSet(A)
    BY <1>1, <1>2, FS_Subset
  <1>4. Cardinality(A) \in Nat /\ Cardinality(B) \in Nat
    BY <1>1, <1>3, FS_CardinalityType
  <1> QED BY <1>3, <1>4 DEF Rank

LEMMA RanksAreTaken ==
  ASSUME NEW n \in Nat, NEW S \in SUBSET (1 .. n), NEW k \in 1 .. Cardinality(S)
  PROVE  \E i \in S : Rank(S, i) = k
  <1> DEFINE Below(m) == {j \in S : j <= m}
             Good == {m \in 0 .. n : \A h \in 1 .. Cardinality(Below(m)) : \E i \in S : Rank(S, i) = h}
  <1>1. IsFiniteSet(S) /\ \A j \in S : j \in Nat /\ 1 <= j /\ j <= n
    BY PositionsFinite
  <1>2. 0 \in Good
    <2>1. Below(0) = {}
      <3>1. \A j \in S : ~(j <= 0)
        BY <1>1
      <3> QED BY <3>1
    <2>2. Cardinality(Below(0)) = 0
      BY <2>1, FS_EmptySet
    <2> QED BY <2>2
  <1>3. ASSUME NEW m \in 0 .. n - 1, m \in Good PROVE m + 1 \in Good
    <2>1. CASE m + 1 \notin S
      <3>1. Below(m + 1) = Below(m)
        <4>1. \A j \in S : (j <= m + 1) <=> (j <= m)
          BY <1>1, <2>1
        <4> QED BY <4>1
      <3> HIDE DEF Below
      <3> QED BY <1>3, <3>1
    <2>2. CASE m + 1 \in S
      <3>1. Below(m + 1) = Below(m) \cup {m + 1} /\ m + 1 \notin Below(m)
        <4>1. m \in Nat /\ \A j \in S : (j <= m + 1) <=> (j <= m \/ j = m + 1)
          BY <1>1
        <4>2. ~(m + 1 <= m)
          BY <4>1
        <4> QED BY <2>2, <4>1, <4>2
      <3>2. IsFiniteSet(Below(m))
        BY <1>1, FS_Subset
      <3>3. Cardinality(Below(m + 1)) = Cardinality(Below(m)) + 1 /\ Cardinality(Below(m)) \in Nat
        BY <3>1, <3>2, FS_AddElement, FS_CardinalityType
      <3>4. Rank(S, m + 1) = Cardinality(Below(m + 1))
        BY DEF Rank
      <3>5. ASSUME NEW h \in 1 .. Cardinality(Below(m + 1)) PROVE \E i \in S : Rank(S, i) = h
        <4>1. CASE h = Cardinality(Below(m + 1))
          BY <2>2, <3>4, <4>1
        <4>2. CASE h # Cardinality(Below(m + 1))
          <5>1. h \in 1 .. Cardinality(Below(m))
            BY <3>3, <3>5, <4>2
          <5> HIDE DEF Below
          <5> QED BY <1>3, <5>1
        <4> QED BY <4>1, <4>2
      <3> HIDE DEF Below
      <3> QED BY <3>5
    <2> QED BY <2>1, <2>2
  <1> HIDE DEF Good
  <1>4. 0 .. n \subseteq Good
    BY <1>2, <1>3, UpTo
  <1>5. n \in Good /\ Below(n) = S
    <2>1. n \in 0 .. n /\ \A j \in S : j <= n
      BY <1>1
    <2> QED BY <1>4, <2>1
  <1> HIDE DEF Below
  <1> QED BY <1>5 DEF Good

LEMMA PickedAt ==
  ASSUME NEW n \in Nat, NEW S \in SUBSET (1 .. n), NEW s, NEW i \in S
  PROVE  Picked(s, S)[Rank(S, i)] = s[i]
  <1> DEFINE j == CHOOSE j \in S : Rank(S, j) = Rank(S, i)
  <1>1. j \in S /\ Rank(S, j) = Rank(S, i)
    OBVIOUS
  <1> HIDE DEF j
  <1>2. i = j
    <2>1. Rank(S, i) \in Int
      <3>1. Rank(S, i) \in 1 .. Cardinality(S) /\ Cardinality(S) \in Nat
        BY RankIsNumber
      <3> QED BY <3>1
    <2>2. ~(i < j) /\ ~(j < i)
      <3>1. ~(Rank(S, i) < Rank(S, j)) /\ ~(Rank(S, j) < Rank(S, i))
        BY <1>1, <2>1
      <3> QED BY <1>1, <3>1, RanksDiffer
    <2>3. i \in Nat /\ j \in Nat
      BY <1>1, PositionsFinite
    <2> QED BY <2>2, <2>3
  <1>3. Rank(S, i) \in 1 .. Cardinality(S)
    BY RankIsNumber
  <1> QED BY <1>2, <1>3 DEF Picked, j

(* Sequences that agree at the positions have the same elements there. *)
LEMMA PickedSame ==
  ASSUME NEW n \in Nat, NEW S \in SUBSET (1 .. n), NEW s, NEW t, \A i \in S : s[i] = t[i]
  PROVE  Picked(s, S) = Picked(t, S)
  <1>1. ASSUME NEW k \in 1 .. Cardinality(S) PROVE Picked(s, S)[k] = Picked(t, S)[k]
    <2>1. PICK i \in S : Rank(S, i) = k
      BY RanksAreTaken
    <2> QED BY <2>1, PickedAt
  <1> QED BY <1>1 DEF Picked

LEMMA PickedType ==
  ASSUME NEW n \in Nat, NEW S \in SUBSET (1 .. n), NEW T, NEW s, \A i \in S : s[i] \in T
  PROVE  /\ Picked(s, S) \in Seq(T) /\ Len(Picked(s, S)) = Cardinality(S)
         /\ DOMAIN Picked(s, S) = 1 .. Cardinality(S) /\ Cardinality(S) \in Nat
         /\ Picked(s, S) = <<>> <=> S = {}
  <1>2. Cardinality(S) \in Nat /\ (Cardinality(S) = 0 <=> S = {})
    BY PositionsFinite
  <1>3. \A k \in 1 .. Cardinality(S) : Picked(s, S)[k] \in T
    <2> SUFFICES ASSUME NEW k \in 1 .. Cardinality(S) PROVE Picked(s, S)[k] \in T
      OBVIOUS
    <2>1. PICK i \in S : Rank(S, i) = k
      BY RanksAreTaken
    <2> QED BY <2>1, PickedAt
  <1>4. Picked(s, S) \in [1 .. Cardinality(S) -> T]
    BY <1>3 DEF Picked
  <1>5. DOMAIN Picked(s, S) = 1 .. Cardinality(S)
    BY DEF Picked
  <1> HIDE DEF Picked
  <1>6. Picked(s, S) \in Seq(T) /\ Len(Picked(s, S)) = Cardinality(S)
    BY <1>2, <1>4
  <1> QED BY <1>2, <1>5, <1>6

(* A position after all the others adds its element at the end. *)
LEMMA PickedMore ==
  ASSUME NEW n \in Nat, NEW S \in SUBSET (1 .. n), NEW T, NEW s, \A i \in S \cup {n + 1} : s[i] \in T
  PROVE  /\ Picked(s, S \cup {n + 1}) = Append(Picked(s, S), s[n + 1])
         /\ Cardinality(S \cup {n + 1}) = Cardinality(S) + 1
  <1> DEFINE U == S \cup {n + 1}
             c == Cardinality(S)
  <1>1. IsFiniteSet(S) /\ n + 1 \notin S /\ U \in SUBSET (1 .. n + 1) /\ n + 1 \in Nat /\ n + 1 \in U
    BY PositionsFinite
  <1>2. Cardinality(U) = c + 1 /\ c \in Nat
    BY <1>1, FS_AddElement, FS_CardinalityType
  <1>3. ASSUME NEW i \in S PROVE Rank(U, i) = Rank(S, i)
    <2>1. {j \in U : j <= i} = {j \in S : j <= i}
      BY PositionsFinite
    <2> QED BY <2>1 DEF Rank
  <1>4. Rank(U, n + 1) = c + 1
    <2>1. {j \in U : j <= n + 1} = U
      <3>1. \A j \in S : j \in Nat /\ j <= n
        BY PositionsFinite
      <3>2. \A j \in U : j <= n + 1
        BY <3>1
      <3> QED BY <3>2
    <2> QED BY <1>2, <2>1 DEF Rank
  <1> HIDE DEF U, c
  <1>5. /\ Picked(s, S) \in Seq(T) /\ Len(Picked(s, S)) = c /\ DOMAIN Picked(s, S) = 1 .. c
        /\ DOMAIN Picked(s, U) = 1 .. c + 1
    <2>1. \A i \in S : s[i] \in T
      OBVIOUS
    <2>2. /\ Picked(s, S) \in Seq(T) /\ Len(Picked(s, S)) = Cardinality(S)
          /\ DOMAIN Picked(s, S) = 1 .. Cardinality(S)
      BY <2>1, PickedType
    <2>3. DOMAIN Picked(s, U) = 1 .. Cardinality(U)
      BY DEF Picked
    <2> QED BY <1>2, <2>2, <2>3 DEF c
  <1>6. ASSUME NEW k \in 1 .. c PROVE Picked(s, U)[k] = Picked(s, S)[k]
    <2>1. PICK i \in S : Rank(S, i) = k
      BY RanksAreTaken DEF c
    <2>2. i \in U
      BY DEF U
    <2>3. Picked(s, U)[Rank(U, i)] = s[i]
      BY <1>1, <2>2, PickedAt
    <2>4. Picked(s, S)[Rank(S, i)] = s[i]
      BY PickedAt
    <2> QED BY <1>3, <2>1, <2>3, <2>4
  <1>7. Picked(s, U)[c + 1] = s[n + 1]
    BY <1>1, <1>4, PickedAt
  <1>8. s[n + 1] \in T
    OBVIOUS
  <1>9. Picked(s, U) \in Seq(T) /\ Len(Picked(s, U)) = c + 1
    <2>1. \A i \in U : s[i] \in T
      BY DEF U
    <2> QED BY <1>1, <1>2, <2>1, PickedType
  <1>10. Picked(s, U) = Append(Picked(s, S), s[n + 1])
    <2> DEFINE q == Picked(s, S)
               f == Picked(s, U)
    <2>1. q \in Seq(T) /\ Len(q) = c /\ f \in Seq(T) /\ Len(f) = c + 1
      BY <1>5, <1>9
    <2>2. (\A k \in 1 .. c : f[k] = q[k]) /\ f[c + 1] = s[n + 1]
      BY <1>6, <1>7
    <2> HIDE DEF q, f
    <2>3. f = Append(q, s[n + 1])
      BY <1>8, <2>1, <2>2, IsAppended
    <2> QED BY <2>3 DEF q, f
  <1> QED BY <1>2, <1>10 DEF U, c

-----------------------------------------------------------------------------
(* The message as it is when the first p events of the answer a are parsed,*)
(* d being the events as they were decoded.                                *)
Chunk == [type : {"text", "start", "args", "end"}, call : STRING, part : Int]
Call == [call : STRING \cup {NoCall}, args : Seq(Chunk)]

TextsTo(a, p) == {i \in 1 .. p : a[i].type = "text"}
StartsTo(a, p) == {i \in 1 .. p : a[i].type = "start"}
ArgsTo(a, c, p) == {i \in 1 .. p : a[i].type = "args" /\ a[i].call = c}
CallAt(a, p, k) == Picked(a, StartsTo(a, p))[k].call
CallsTo(a, d, p) ==
  [k \in 1 .. Cardinality(StartsTo(a, p)) |->
     [call |-> CallAt(a, p, k), args |-> Picked(d, ArgsTo(a, CallAt(a, p, k), p))]]

(* The arguments of a call are where the network left them alone. *)
LEMMA CallsToSame ==
  ASSUME NEW p \in Nat, NEW a, NEW d, NEW e, \A i \in 1 .. p : d[i] = e[i]
  PROVE  CallsTo(a, d, p) = CallsTo(a, e, p)
  <1>1. ASSUME NEW c PROVE Picked(d, ArgsTo(a, c, p)) = Picked(e, ArgsTo(a, c, p))
    <2>1. ArgsTo(a, c, p) \in SUBSET (1 .. p)
      BY DEF ArgsTo
    <2>2. \A i \in ArgsTo(a, c, p) : d[i] = e[i]
      BY <2>1
    <2> QED BY <2>1, <2>2, PickedSame
  <1> QED BY <1>1 DEF CallsTo

(* The call of a start, and the starts of two calls. *)
LEMMA CallsOfStarts ==
  ASSUME NEW a \in Seq(Event), IsAnswer(a), NEW p \in 0 .. Len(a), NEW k \in 1 .. Cardinality(StartsTo(a, p))
  PROVE  /\ CallAt(a, p, k) \in STRING /\ CallAt(a, p, k) # NoCall
         /\ \E i \in StartsTo(a, p) : CallAt(a, p, k) = a[i].call
         /\ \A h \in 1 .. Cardinality(StartsTo(a, p)) : h # k => CallAt(a, p, h) # CallAt(a, p, k)
  <1> DEFINE S == StartsTo(a, p)
  <1>1. p \in Nat /\ S \in SUBSET (1 .. p) /\ \A i \in S : i \in DOMAIN a /\ a[i].type = "start" /\ a[i] \in Event
    BY DEF StartsTo
  <1> HIDE DEF S
  <1>2. ASSUME NEW h \in 1 .. Cardinality(S) PROVE \E i \in S : Rank(S, i) = h /\ Picked(a, S)[h] = a[i]
    <2>1. PICK i \in S : Rank(S, i) = h
      BY <1>1, RanksAreTaken
    <2> QED BY <1>1, <2>1, PickedAt
  <1>3. PICK i \in S : Rank(S, i) = k /\ Picked(a, S)[k] = a[i]
    BY <1>2 DEF S
  <1>4. CallAt(a, p, k) = a[i].call
    BY <1>3 DEF CallAt, S
  <1>5. a[i].call \in STRING /\ a[i].call # NoCall
    BY <1>1 DEF Event, IsAnswer
  <1>6. ASSUME NEW h \in 1 .. Cardinality(S), h # k PROVE CallAt(a, p, h) # CallAt(a, p, k)
    <2>1. PICK j \in S : Rank(S, j) = h /\ Picked(a, S)[h] = a[j]
      BY <1>2
    <2>2. j # i /\ CallAt(a, p, h) = a[j].call
      BY <1>3, <1>6, <2>1 DEF CallAt, S
    <2>3. a[j].call # a[i].call
      BY <1>1, <2>2 DEF IsAnswer
    <2> QED BY <1>4, <2>2, <2>3
  <1> QED BY <1>4, <1>5, <1>6 DEF S

LEMMA CallsToType ==
  ASSUME NEW a \in Seq(Event), IsAnswer(a), NEW p \in 0 .. Len(a), NEW d, \A i \in 1 .. Len(a) : d[i] \in Chunk
  PROVE  /\ CallsTo(a, d, p) \in Seq(Call)
         /\ Len(CallsTo(a, d, p)) = Cardinality(StartsTo(a, p)) /\ Cardinality(StartsTo(a, p)) \in Nat
  <1>1. p \in Nat /\ StartsTo(a, p) \in SUBSET (1 .. p)
    BY DEF StartsTo
  <1>2. Cardinality(StartsTo(a, p)) \in Nat
    BY <1>1, PositionsFinite
  <1>3. ASSUME NEW c PROVE Picked(d, ArgsTo(a, c, p)) \in Seq(Chunk)
    <2>1. ArgsTo(a, c, p) \in SUBSET (1 .. p) /\ \A i \in ArgsTo(a, c, p) : i \in 1 .. Len(a)
      BY DEF ArgsTo
    <2>2. \A i \in ArgsTo(a, c, p) : d[i] \in Chunk
      BY <2>1
    <2> QED BY <1>1, <2>1, <2>2, PickedType
  <1>4. \A k \in 1 .. Cardinality(StartsTo(a, p)) : CallAt(a, p, k) \in STRING
    BY CallsOfStarts
  <1>5. CallsTo(a, d, p) \in [1 .. Cardinality(StartsTo(a, p)) -> Call]
    BY <1>3, <1>4 DEF CallsTo, Call
  <1> QED BY <1>2, <1>5

(* A piece of text and the end of a block leave the calls as they are. *)
LEMMA CallsToSkips ==
  ASSUME NEW a, NEW d, NEW p \in Nat, a[p + 1].type \notin {"start", "args"}
  PROVE  CallsTo(a, d, p + 1) = CallsTo(a, d, p)
  <1>1. \A i \in 1 .. p + 1 : i \in 1 .. p \/ i = p + 1
    OBVIOUS
  <1>2. \A i \in 1 .. p : i \in 1 .. p + 1
    OBVIOUS
  <1>3. StartsTo(a, p + 1) = StartsTo(a, p) /\ \A c : ArgsTo(a, c, p + 1) = ArgsTo(a, c, p)
    BY <1>1, <1>2 DEF StartsTo, ArgsTo
  <1> QED BY <1>3 DEF CallsTo, CallAt

(* A start adds a call without arguments. *)
LEMMA CallsToStart ==
  ASSUME NEW a \in Seq(Event), IsAnswer(a), NEW p \in 0 .. Len(a) - 1, NEW d,
         \A i \in 1 .. Len(a) : d[i] \in Chunk, a[p + 1].type = "start"
  PROVE  CallsTo(a, d, p + 1) = Append(CallsTo(a, d, p), [call |-> a[p + 1].call, args |-> <<>>])
  <1> DEFINE S == StartsTo(a, p)
             n == Cardinality(S)
             r == [call |-> a[p + 1].call, args |-> <<>>]
  <1>1. p \in Nat /\ p + 1 \in DOMAIN a /\ \A i \in 1 .. p + 1 : i \in 1 .. p \/ i = p + 1
    OBVIOUS
  <1>2. StartsTo(a, p + 1) = S \cup {p + 1} /\ S \in SUBSET (1 .. p) /\ p + 1 \notin S
    BY <1>1 DEF StartsTo
  <1>3. \A i \in S \cup {p + 1} : a[i] \in Event
    BY <1>1, <1>2
  <1>4. Picked(a, StartsTo(a, p + 1)) = Append(Picked(a, S), a[p + 1]) /\ Cardinality(StartsTo(a, p + 1)) = n + 1
    <2> HIDE DEF S
    <2>1. /\ Picked(a, S \cup {p + 1}) = Append(Picked(a, S), a[p + 1])
          /\ Cardinality(S \cup {p + 1}) = Cardinality(S) + 1
      BY <1>1, <1>2, <1>3, PickedMore
    <2> QED BY <1>2, <2>1
  <1>5. Picked(a, S) \in Seq(Event) /\ Len(Picked(a, S)) = n /\ n \in Nat
    BY <1>1, <1>2, <1>3, PickedType
  <1>6. ASSUME NEW c PROVE ArgsTo(a, c, p + 1) = ArgsTo(a, c, p)
    BY <1>1 DEF ArgsTo
  <1>7. ArgsTo(a, a[p + 1].call, p + 1) = {}
    <2>1. ASSUME NEW i \in ArgsTo(a, a[p + 1].call, p + 1) PROVE FALSE
      <3>1. i \in 1 .. p + 1 /\ i \in DOMAIN a /\ a[i].type = "args" /\ a[i].call = a[p + 1].call
        BY <1>1 DEF ArgsTo
      <3>2. PICK s \in 1 .. i - 1 : a[s].type = "start" /\ a[s].call = a[i].call
        BY <3>1 DEF IsAnswer
      <3>3. s \in DOMAIN a /\ s # p + 1
        BY <3>1
      <3> QED BY <1>1, <3>1, <3>2, <3>3 DEF IsAnswer
    <2> QED BY <2>1
  <1>8. \A k \in 1 .. n : CallAt(a, p + 1, k) = CallAt(a, p, k)
    <2> DEFINE q == Picked(a, S)
    <2>1. q \in Seq(Event) /\ Len(q) = n /\ a[p + 1] \in Event
      BY <1>3, <1>5
    <2> HIDE DEF q, n
    <2>2. \A k \in 1 .. n : Append(q, a[p + 1])[k] = q[k]
      BY <2>1
    <2> QED BY <1>4, <2>2 DEF CallAt, q
  <1>9. CallAt(a, p + 1, n + 1) = a[p + 1].call
    <2> DEFINE q == Picked(a, S)
    <2>1. q \in Seq(Event) /\ Len(q) = n /\ a[p + 1] \in Event
      BY <1>3, <1>5
    <2> HIDE DEF q, n
    <2>2. Append(q, a[p + 1])[n + 1] = a[p + 1]
      BY <2>1
    <2> QED BY <1>4, <2>2 DEF CallAt, q
  <1>10. Picked(d, {}) = <<>>
    <2>1. {} \in SUBSET (1 .. 0) /\ \A i \in {} : d[i] \in Chunk
      OBVIOUS
    <2> QED BY <2>1, PickedType
  <1> DEFINE old == CallsTo(a, d, p)
             new == CallsTo(a, d, p + 1)
  <1> HIDE DEF n
  <1>11. old \in Seq(Call) /\ Len(old) = n
    <2>1. p \in 0 .. Len(a)
      BY <1>1
    <2> QED BY <2>1, CallsToType DEF n
  <1>12. (\A k \in 1 .. n : new[k] = old[k]) /\ new[n + 1] = r
    <2>1. \A k \in 1 .. n : k \in 1 .. n + 1
      BY <1>5
    <2>2. n + 1 \in 1 .. n + 1
      BY <1>5
    <2> HIDE DEF S
    <2> QED BY <1>4, <1>6, <1>7, <1>8, <1>9, <1>10, <2>1, <2>2 DEF CallsTo, n, S
  <1>13. r \in Call
    BY <1>3 DEF Call, Event
  <1>14. new \in Seq(Call) /\ Len(new) = n + 1
    <2>1. p + 1 \in 0 .. Len(a)
      BY <1>1
    <2> HIDE DEF S
    <2> QED BY <1>4, <2>1, CallsToType DEF S
  <1> HIDE DEF old, new, r, S
  <1> QED BY <1>5, <1>11, <1>12, <1>13, <1>14, IsAppended DEF old, new, r

(* A part of the arguments joins those of the last call, if it is theirs.  *)
LEMMA CallsToArgs ==
  ASSUME NEW a \in Seq(Event), IsAnswer(a), NEW p \in 0 .. Len(a) - 1, NEW d,
         \A i \in 1 .. Len(a) : d[i] \in Chunk, a[p + 1].type = "args",
         NEW old \in Seq(Call), NEW c \in Call, CallsTo(a, d, p) = Append(old, c), c.call = a[p + 1].call
  PROVE  CallsTo(a, d, p + 1) = Append(old, [call |-> c.call, args |-> Append(c.args, d[p + 1])])
  <1> DEFINE S == StartsTo(a, p)
             n == Cardinality(S)
             r == [call |-> c.call, args |-> Append(c.args, d[p + 1])]
             was == CallsTo(a, d, p)
             new == CallsTo(a, d, p + 1)
  <1>1. p \in Nat /\ p \in 0 .. Len(a) /\ p + 1 \in 1 .. Len(a) /\ p + 1 \in 0 .. Len(a) /\ d[p + 1] \in Chunk
    OBVIOUS
  <1>2. \A i \in 1 .. p + 1 : i \in 1 .. p \/ i = p + 1
    OBVIOUS
  <1>3. \A i \in 1 .. p : i \in 1 .. p + 1 /\ i \in 1 .. Len(a)
    OBVIOUS
  <1>4. p + 1 \in 1 .. p + 1
    BY <1>1
  <1>5. StartsTo(a, p + 1) = S
    BY <1>2, <1>3 DEF StartsTo
  <1>6. \A h \in STRING : h # c.call => ArgsTo(a, h, p + 1) = ArgsTo(a, h, p)
    BY <1>2, <1>3 DEF ArgsTo
  <1>7. ArgsTo(a, c.call, p + 1) = ArgsTo(a, c.call, p) \cup {p + 1}
    BY <1>2, <1>3, <1>4 DEF ArgsTo
  <1>8. Picked(d, ArgsTo(a, c.call, p + 1)) = Append(Picked(d, ArgsTo(a, c.call, p)), d[p + 1])
    <2>1. ArgsTo(a, c.call, p) \in SUBSET (1 .. p)
      BY DEF ArgsTo
    <2>2. \A i \in ArgsTo(a, c.call, p) \cup {p + 1} : d[i] \in Chunk
      BY <1>1, <1>3, <2>1
    <2> QED BY <1>1, <1>7, <2>1, <2>2, PickedMore
  <1>9. \A k \in 1 .. n : CallAt(a, p + 1, k) = CallAt(a, p, k)
    BY <1>5 DEF CallAt
  <1>10. was \in Seq(Call) /\ Len(was) = n /\ n \in Nat
    BY <1>1, CallsToType
  <1>11. new \in Seq(Call) /\ Len(new) = n
    BY <1>1, <1>5, CallsToType
  <1> DEFINE m == Len(old)
  <1>12. n = m + 1 /\ m \in Nat /\ n \in 1 .. n /\ was[n] = c /\ \A k \in 1 .. m : was[k] = old[k]
    <2> HIDE DEF was, n
    <2>1. was = Append(old, c)
      BY DEF was
    <2>2. n = m + 1 /\ m \in Nat
      BY <1>10, <2>1
    <2> QED BY <2>1, <2>2
  <1>13. \A k \in 1 .. n : /\ was[k] = [call |-> CallAt(a, p, k), args |-> Picked(d, ArgsTo(a, CallAt(a, p, k), p))]
                           /\ new[k] = [call |-> CallAt(a, p, k), args |-> Picked(d, ArgsTo(a, CallAt(a, p, k), p + 1))]
    BY <1>5, <1>9 DEF CallsTo
  <1> HIDE DEF was, new, S
  <1>14. CallAt(a, p, n) = c.call /\ c.args = Picked(d, ArgsTo(a, c.call, p))
    <2> HIDE DEF n
    <2>1. c = [call |-> CallAt(a, p, n), args |-> Picked(d, ArgsTo(a, CallAt(a, p, n), p))]
      BY <1>12, <1>13
    <2>2. c.call = CallAt(a, p, n) /\ c.args = Picked(d, ArgsTo(a, CallAt(a, p, n), p))
      BY <2>1
    <2> QED BY <2>2
  <1>15. new[n] = r
    BY <1>8, <1>12, <1>13, <1>14
  <1>16. ASSUME NEW k \in 1 .. m PROVE new[k] = old[k]
    <2>1. k \in 1 .. n /\ k # n
      BY <1>12
    <2>2. CallAt(a, p, k) \in STRING /\ CallAt(a, p, k) # CallAt(a, p, n)
      BY <1>1, <1>12, <2>1, CallsOfStarts DEF S
    <2>3. ArgsTo(a, CallAt(a, p, k), p + 1) = ArgsTo(a, CallAt(a, p, k), p)
      BY <1>6, <1>14, <2>2
    <2> QED BY <1>12, <1>13, <2>1, <2>3
  <1>17. r \in Call
    BY <1>1 DEF Call
  <1> HIDE DEF r, n
  <1>18. new = Append(old, r)
    BY <1>11, <1>12, <1>15, <1>16, <1>17, IsAppended
  <1> QED BY <1>18 DEF new, r

-----------------------------------------------------------------------------
Events == DOMAIN answer
Dec == [i \in Events |-> Decoded(i)]
Pieces == Int \X {"begins", "ends"}

(* What is not parsed is in the buffer or to arrive, in order and once. *)
Remaining(p) ==
  /\ Len(buffer) + Len(unsent) = 2 * (Len(answer) - p)
  /\ \A i \in 1 .. Len(buffer) : buffer[i] = Piece(2 * p + i)
  /\ \A i \in 1 .. Len(unsent) : unsent[i] = Piece(2 * p + Len(buffer) + i)

(* What is parsed has become the message so far; the current call is the   *)
(* one whose start was parsed last, as long as nothing ended it.           *)
Parsing(p) ==
  /\ text = Picked(Dec, TextsTo(answer, p))
  /\ Flushed = CallsTo(answer, Dec, p)
  /\ \A s \in StartsTo(answer, p) :
       (\A j \in s + 1 .. p : answer[j].type \notin {"start", "end"}) => open.call = answer[s].call

StreamTypes ==
  /\ answer \in Answers
  /\ buffer \in Seq(Pieces) /\ unsent \in Seq(Pieces)
  /\ garbled \in SUBSET (1 .. Len(answer))
  /\ link \in {"open", "closed", "broken"}
  /\ text \in Seq(Chunk) /\ \A i \in DOMAIN text : text[i].type = "text"
  /\ open \in Call /\ (open.call = NoCall => open.args = <<>>)
  /\ calls \in Seq(Call) /\ \A i \in DOMAIN calls : calls[i].call # NoCall

StreamInv ==
  /\ StreamTypes
  /\ \E p \in 0 .. Len(answer) : Remaining(p) /\ Parsing(p)
  /\ link = "closed" => unsent = <<>>
  /\ outcome # Reading => link # "open"
  /\ WholeStreamIsMeant

LEMMA NothingYet ==
  ASSUME NEW a, NEW d
  PROVE  TextsTo(a, 0) = {} /\ StartsTo(a, 0) = {} /\ Picked(d, {}) = <<>> /\ CallsTo(a, d, 0) = <<>>
  <1>1. TextsTo(a, 0) = {} /\ StartsTo(a, 0) = {}
    BY DEF TextsTo, StartsTo
  <1>2. Cardinality({}) = 0
    BY FS_EmptySet
  <1>3. Picked(d, {}) = <<>>
    BY <1>2 DEF Picked
  <1>4. CallsTo(a, d, 0) = <<>>
    <2>1. 1 .. Cardinality(StartsTo(a, 0)) = {}
      BY <1>1, <1>2
    <2> QED BY <2>1 DEF CallsTo
  <1> QED BY <1>1, <1>3, <1>4

LEMMA AnswerIsOne ==
  ASSUME NEW a \in Answers
  PROVE  IsAnswer(a) /\ a \in Seq(Event) /\ Len(a) \in Nat /\ DOMAIN a = 1 .. Len(a)
  BY StreamAssumption DEF IsAnswer

LEMMA DecodedIsChunk ==
  ASSUME StreamTypes
  PROVE  \A i \in 1 .. Len(answer) : Dec[i] \in Chunk /\ Dec[i].type = answer[i].type /\ Dec[i].call = answer[i].call
  <1> SUFFICES ASSUME NEW i \in 1 .. Len(answer)
               PROVE  Dec[i] \in Chunk /\ Dec[i].type = answer[i].type /\ Dec[i].call = answer[i].call
    OBVIOUS
  <1>1. answer \in Seq(Event) /\ DOMAIN answer = 1 .. Len(answer)
    BY AnswerIsOne DEF StreamTypes
  <1>2. answer[i] \in Event /\ Dec[i] = Decoded(i)
    BY <1>1 DEF Dec, Events
  <1>3. answer[i].part \in Nat /\ answer[i].type \in {"text", "start", "args", "end"} /\ answer[i].call \in STRING
        /\ answer[i] = [type |-> answer[i].type, call |-> answer[i].call, part |-> answer[i].part]
    BY <1>2 DEF Event
  <1>4. Decoded(i) \in {answer[i], [type |-> answer[i].type, call |-> answer[i].call, part |-> - answer[i].part]}
    BY <1>3 DEF Decoded
  <1> QED BY <1>2, <1>3, <1>4 DEF Chunk

LEMMA StreamStarts == StreamInit => StreamInv
  <1> SUFFICES ASSUME StreamInit PROVE StreamInv
    OBVIOUS
  <1>1. IsAnswer(answer) /\ answer \in Seq(Event) /\ Len(answer) \in Nat /\ answer \in Answers
    BY AnswerIsOne DEF StreamInit
  <1>2. unsent \in Seq(Pieces) /\ Len(unsent) = 2 * Len(answer)
        /\ \A i \in 1 .. Len(unsent) : unsent[i] = Piece(i)
    <2>1. unsent = [i \in 1 .. 2 * Len(answer) |-> Piece(i)] /\ 2 * Len(answer) \in Nat
      BY <1>1 DEF StreamInit
    <2>2. \A i \in 1 .. 2 * Len(answer) : Piece(i) \in Pieces
      BY <1>1 DEF Piece, Pieces
    <2>3. unsent \in [1 .. 2 * Len(answer) -> Pieces]
      BY <2>1, <2>2
    <2> QED BY <2>1, <2>3
  <1>3. Nothing \in Call /\ Nothing.call = NoCall /\ Nothing.args = <<>>
    <2>1. <<>> \in Seq(Chunk)
      OBVIOUS
    <2> QED BY <2>1 DEF Nothing, Call
  <1>4. StreamTypes
    BY <1>1, <1>2, <1>3 DEF StreamTypes, StreamInit
  <1>5. Remaining(0)
    BY <1>1, <1>2 DEF Remaining, StreamInit
  <1>6. Parsing(0)
    BY <1>3, NothingYet DEF Parsing, StreamInit, Flushed
  <1>7. 0 \in 0 .. Len(answer)
    BY <1>1
  <1>8. link = "open" /\ outcome = Reading
    BY DEF StreamInit
  <1> QED BY <1>4, <1>5, <1>6, <1>7, <1>8 DEF StreamInv, WholeStreamIsMeant

(* A cut that garbles an event garbles one that is not parsed yet. *)
LEMMA ReceiveKeeps ==
  ASSUME StreamInv, NEW k \in 1 .. MaxReceive, Receive(k)
  PROVE  StreamInv'
  <1> DEFINE L == Len(answer)
             head == SubSeq(unsent, 1, k)
             n == Len(buffer)
             m == Len(unsent)
  <1>1. IsAnswer(answer) /\ answer \in Seq(Event) /\ L \in Nat /\ answer \in Answers
    BY AnswerIsOne DEF StreamInv, StreamTypes
  <1>2. StreamTypes /\ n \in Nat /\ m \in Nat /\ k \in Nat /\ 1 <= k /\ k <= m
    BY StreamAssumption DEF StreamInv, StreamTypes, Receive
  <1>3. PICK p \in 0 .. L : Remaining(p) /\ Parsing(p)
    BY DEF StreamInv
  <1>4. /\ answer' = answer /\ link' = link /\ text' = text /\ open' = open /\ calls' = calls
        /\ outcome' = outcome /\ outcome = Reading /\ link = "open"
        /\ buffer' = buffer \o head /\ unsent' = SubSeq(unsent, k + 1, m)
    BY DEF Receive
  <1>5. /\ head \in Seq(Pieces) /\ Len(head) = k /\ \A i \in 1 .. k : head[i] = unsent[i]
        /\ unsent' \in Seq(Pieces) /\ Len(unsent') = m - k /\ \A i \in 1 .. m - k : unsent'[i] = unsent[i + k]
    <2>1. unsent \in Seq(Pieces) /\ k \in 0 .. Len(unsent)
      BY <1>2 DEF StreamTypes
    <2> QED BY <1>4, <2>1, Cut
  <1>6. /\ buffer' \in Seq(Pieces) /\ Len(buffer') = n + k
        /\ \A i \in 1 .. n : buffer'[i] = buffer[i]
        /\ \A i \in 1 .. k : buffer'[n + i] = unsent[i]
    <2> HIDE DEF head
    <2>1. buffer \in Seq(Pieces)
      BY <1>2 DEF StreamTypes
    <2>2. /\ buffer \o head \in Seq(Pieces) /\ Len(buffer \o head) = n + Len(head)
          /\ \A i \in 1 .. n : (buffer \o head)[i] = buffer[i]
          /\ \A i \in 1 .. Len(head) : (buffer \o head)[n + i] = head[i]
      <3>1. head \in Seq(Pieces)
        BY <1>5
      <3> QED BY ONLY <2>1, <3>1, Joined
    <2> QED BY <1>4, <1>5, <2>2
  <1> HIDE DEF head
  <1>7. Remaining(p)'
    <2>1. Len(buffer') + Len(unsent') = 2 * (Len(answer') - p)
      <3>1. n + m = 2 * (L - p)
        BY <1>3 DEF Remaining
      <3>2. n + k + (m - k) = n + m
        BY <1>2
      <3> QED BY <1>4, <1>5, <1>6, <3>1, <3>2
    <2>2. ASSUME NEW i \in 1 .. Len(buffer') PROVE buffer'[i] = Piece(2 * p + i)
      <3>1. CASE i <= n
        BY <1>2, <1>3, <1>6, <3>1 DEF Remaining
      <3>2. CASE ~(i <= n)
        <4>1. i - n \in 1 .. k /\ i - n \in 1 .. m /\ i = n + (i - n)
          BY <1>2, <1>6, <3>2
        <4>2. buffer'[i] = unsent[i - n]
          BY <1>6, <4>1
        <4>3. unsent[i - n] = Piece(2 * p + n + (i - n))
          BY <1>3, <4>1 DEF Remaining
        <4>4. 2 * p + n + (i - n) = 2 * p + i
          BY <1>2, <1>3, <4>1
        <4> QED BY <4>2, <4>3, <4>4
      <3> QED BY <3>1, <3>2
    <2>3. ASSUME NEW i \in 1 .. Len(unsent') PROVE unsent'[i] = Piece(2 * p + Len(buffer') + i)
      <3>1. unsent'[i] = unsent[i + k] /\ i + k \in 1 .. m
        BY <1>2, <1>5
      <3>2. unsent[i + k] = Piece(2 * p + n + (i + k))
        BY <1>3, <3>1 DEF Remaining
      <3>3. 2 * p + n + (i + k) = 2 * p + Len(buffer') + i
        BY <1>2, <1>3, <1>5, <1>6, <3>1
      <3> QED BY <3>1, <3>2, <3>3
    <2> QED BY <2>1, <2>2, <2>3 DEF Remaining
  <1>8. garbled' \in SUBSET (1 .. L) /\ \A i \in 1 .. p : i \in garbled' <=> i \in garbled
    <2>1. CASE garbled' = garbled
      BY <1>2, <2>1 DEF StreamTypes
    <2>2. CASE unsent[k][2] = "begins" /\ garbled' = garbled \cup {unsent[k][1]}
      <3> DEFINE q == 2 * p + n + k
      <3>1. unsent[k] = Piece(q) /\ q \in Nat /\ 2 * p < q /\ q <= 2 * L
        BY <1>2, <1>3 DEF Remaining
      <3> HIDE DEF q
      <3>2. q % 2 = 1 /\ unsent[k][1] = (q + 1) \div 2
        BY <2>2, <3>1 DEF Piece
      <3>3. (q + 1) \div 2 \in 1 .. L /\ p < (q + 1) \div 2
        BY <1>1, <1>3, <3>1, <3>2
      <3>4. garbled \in SUBSET (1 .. L)
        BY <1>2 DEF StreamTypes
      <3>5. \A i \in 1 .. p : i # (q + 1) \div 2
        BY <1>3, <3>3
      <3> QED BY <2>2, <3>2, <3>3, <3>4, <3>5
    <2> QED BY <2>1, <2>2 DEF Receive, Decode
  <1>9. \A i \in 1 .. p : Dec'[i] = Dec[i]
    <2>1. Events = 1 .. L /\ Events' = 1 .. L
      BY <1>1, <1>4 DEF Events
    <2>2. \A i \in 1 .. p : i \in 1 .. L
      BY <1>1, <1>3
    <2> QED BY <1>4, <1>8, <2>1, <2>2 DEF Dec, Decoded
  <1>10. Parsing(p)'
    <2>1. TextsTo(answer, p) \in SUBSET (1 .. p) /\ p \in Nat
      BY <1>3 DEF TextsTo
    <2>2. \A i \in TextsTo(answer, p) : Dec'[i] = Dec[i]
      BY <1>9, <2>1
    <2>3. Picked(Dec', TextsTo(answer, p)) = Picked(Dec, TextsTo(answer, p))
      BY <2>1, <2>2, PickedSame
    <2>4. CallsTo(answer, Dec', p) = CallsTo(answer, Dec, p)
      BY <1>9, <2>1, CallsToSame
    <2>5. Flushed' = Flushed
      BY <1>4 DEF Flushed
    <2> QED BY <1>3, <1>4, <2>3, <2>4, <2>5 DEF Parsing
  <1>11. StreamTypes'
    BY <1>2, <1>4, <1>5, <1>6, <1>8 DEF StreamTypes
  <1> QED BY <1>3, <1>4, <1>7, <1>10, <1>11 DEF StreamInv, WholeStreamIsMeant

LEMMA LinkKeeps ==
  ASSUME StreamInv, Close \/ Break \/ UNCHANGED streamVars
  PROVE  StreamInv'
  <1>1. CASE UNCHANGED streamVars
    <2>1. StreamTypes' /\ \E p \in 0 .. Len(answer') : Remaining(p)' /\ Parsing(p)'
      BY <1>1 DEF StreamInv, streamVars, StreamTypes, Remaining, Parsing, Dec, Events, Decoded, Flushed
    <2>2. WholeStreamIsMeant' = WholeStreamIsMeant
      BY <1>1 DEF streamVars, WholeStreamIsMeant, Meant, Starts, Texts, ArgsOf
    <2> QED BY <1>1, <2>1, <2>2 DEF StreamInv, streamVars
  <1>2. CASE Close \/ Break
    <2>1. /\ UNCHANGED <<answer, unsent, buffer, garbled, text, open, calls, outcome>>
          /\ outcome = Reading /\ link' \in {"closed", "broken"} /\ (link' = "closed" => unsent = <<>>)
      BY <1>2 DEF StreamInv, Close, Break
    <2>2. StreamTypes' /\ \E p \in 0 .. Len(answer') : Remaining(p)' /\ Parsing(p)'
      BY <2>1 DEF StreamInv, StreamTypes, Remaining, Parsing, Dec, Events, Decoded, Flushed
    <2> QED BY <2>1, <2>2 DEF StreamInv, WholeStreamIsMeant
  <1> QED BY <1>1, <1>2

(* A line that is whole in the buffer is at its front, and is one event's. *)
LEMMA LineIsEvent ==
  ASSUME StreamTypes, NEW p \in 0 .. Len(answer), Remaining(p), HasLine
  PROVE  /\ p + 1 \in 1 .. Len(answer) /\ Len(buffer) >= 2
         /\ buffer[1] = <<p + 1, "begins">> /\ buffer[2] = <<p + 1, "ends">>
         /\ (CHOOSE i \in DOMAIN buffer :
               buffer[i][2] = "ends" /\ \A j \in 1 .. i - 1 : buffer[j][2] = "begins") = 2
  <1>1. Len(answer) \in Nat /\ Len(buffer) \in Nat /\ Len(unsent) \in Nat /\ DOMAIN buffer = 1 .. Len(buffer)
    BY AnswerIsOne DEF StreamTypes
  <1>2. \A i \in 1 .. Len(buffer) : buffer[i] = Piece(2 * p + i)
    BY DEF Remaining
  <1>3. Piece(2 * p + 1) = <<p + 1, "begins">> /\ Piece(2 * p + 2) = <<p + 1, "ends">>
    <2>1. (2 * p + 1 + 1) \div 2 = p + 1 /\ (2 * p + 1) % 2 = 1
      BY <1>1
    <2>2. (2 * p + 2 + 1) \div 2 = p + 1 /\ (2 * p + 2) % 2 = 0
      BY <1>1
    <2> QED BY <2>1, <2>2 DEF Piece
  <1>4. PICK i \in 1 .. Len(buffer) : buffer[i][2] = "ends"
    BY <1>1 DEF HasLine
  <1>5. i # 1
    BY <1>1, <1>2, <1>3, <1>4
  <1>6. Len(buffer) >= 2 /\ 1 \in DOMAIN buffer /\ 2 \in DOMAIN buffer
    BY <1>1, <1>4, <1>5
  <1>7. buffer[1] = <<p + 1, "begins">> /\ buffer[2] = <<p + 1, "ends">>
    BY <1>1, <1>2, <1>3, <1>6
  <1>8. p + 1 \in 1 .. Len(answer)
    <2>1. Len(buffer) + Len(unsent) = 2 * (Len(answer) - p)
      BY DEF Remaining
    <2> QED BY <1>1, <1>6, <2>1
  <1>9. ASSUME NEW h \in DOMAIN buffer
        PROVE  (buffer[h][2] = "ends" /\ \A j \in 1 .. h - 1 : buffer[j][2] = "begins") <=> h = 2
    <2>1. CASE h = 1
      BY <1>7, <2>1
    <2>2. CASE h = 2
      <3>1. \A j \in 1 .. 1 : j = 1
        OBVIOUS
      <3> QED BY <1>7, <2>2, <3>1
    <2>3. CASE h > 2
      <3>1. 2 \in 1 .. h - 1
        BY <1>1, <2>3
      <3> QED BY <1>7, <2>3, <3>1
    <2> QED BY <1>1, <2>1, <2>2, <2>3
  <1> QED BY <1>6, <1>7, <1>8, <1>9

LEMMA TextsToMore ==
  ASSUME NEW a, NEW p \in Nat
  PROVE  /\ a[p + 1].type = "text" => TextsTo(a, p + 1) = TextsTo(a, p) \cup {p + 1}
         /\ a[p + 1].type # "text" => TextsTo(a, p + 1) = TextsTo(a, p)
         /\ a[p + 1].type = "start" => StartsTo(a, p + 1) = StartsTo(a, p) \cup {p + 1}
         /\ a[p + 1].type # "start" => StartsTo(a, p + 1) = StartsTo(a, p)
         /\ TextsTo(a, p) \in SUBSET (1 .. p) /\ StartsTo(a, p) \in SUBSET (1 .. p)
  <1>1. \A i \in 1 .. p + 1 : i \in 1 .. p \/ i = p + 1
    OBVIOUS
  <1>2. \A i \in 1 .. p : i \in 1 .. p + 1
    OBVIOUS
  <1>3. p + 1 \in 1 .. p + 1
    OBVIOUS
  <1> QED BY <1>1, <1>2, <1>3 DEF TextsTo, StartsTo

(* An event that is parsed takes its place in the message. *)
LEMMA EventParsed ==
  ASSUME StreamTypes, NEW p \in 0 .. Len(answer), Parsing(p), p + 1 \in 1 .. Len(answer),
         TakeChunk(Decoded(p + 1)), UNCHANGED <<answer, garbled>>
  PROVE  /\ Parsing(p + 1)'
         /\ text' \in Seq(Chunk) /\ \A i \in DOMAIN text' : text'[i].type = "text"
         /\ open' \in Call /\ (open'.call = NoCall => open'.args = <<>>)
         /\ calls' \in Seq(Call) /\ \A i \in DOMAIN calls' : calls'[i].call # NoCall
  <1> DEFINE e == Decoded(p + 1)
  <1>1. /\ IsAnswer(answer) /\ answer \in Seq(Event) /\ Len(answer) \in Nat
        /\ p \in Nat /\ p + 1 \in DOMAIN answer /\ p \in 0 .. Len(answer) - 1
    BY AnswerIsOne DEF StreamTypes
  <1>2. /\ \A i \in 1 .. Len(answer) : Dec[i] \in Chunk
        /\ e \in Chunk /\ e = Dec[p + 1] /\ e.type = answer[p + 1].type /\ e.call = answer[p + 1].call
    BY <1>1, DecodedIsChunk DEF Dec, Events
  <1> HIDE DEF e
  <1>3. Dec' = Dec
    BY DEF Dec, Events, Decoded
  <1>4. /\ text = Picked(Dec, TextsTo(answer, p)) /\ Flushed = CallsTo(answer, Dec, p)
        /\ text \in Seq(Chunk) /\ open \in Call /\ calls \in Seq(Call)
        /\ \A i \in DOMAIN text : text[i].type = "text"
        /\ \A i \in DOMAIN calls : calls[i].call # NoCall
        /\ open.call = NoCall => open.args = <<>>
    BY DEF Parsing, StreamTypes
  <1>5. /\ Flushed \in Seq(Call)
        /\ \A i \in DOMAIN Flushed : Flushed[i].call # NoCall
    BY <1>4 DEF Flushed
  <1>6. e.type \in {"text", "start", "args", "end"} /\ answer[p + 1].type \in {"text", "start", "args", "end"}
    BY <1>2 DEF Chunk
  <1>7. CASE e.type = "text"
    <2>1. text' = Append(text, e) /\ open' = open /\ calls' = calls
      BY <1>7 DEF TakeChunk, e
    <2>2. text' = Picked(Dec, TextsTo(answer, p + 1))
      <3>1. TextsTo(answer, p) \in SUBSET (1 .. p) /\ TextsTo(answer, p + 1) = TextsTo(answer, p) \cup {p + 1}
        BY <1>1, <1>2, <1>7, TextsToMore
      <3>2. \A i \in TextsTo(answer, p) \cup {p + 1} : Dec[i] \in Chunk
        BY <1>1, <1>2, <3>1
      <3> QED BY <1>1, <1>2, <1>4, <2>1, <3>1, <3>2, PickedMore
    <2>3. Flushed' = CallsTo(answer, Dec, p + 1)
      BY <1>1, <1>2, <1>4, <1>7, <2>1, CallsToSkips DEF Flushed
    <2>4. ASSUME NEW s \in StartsTo(answer, p + 1), \A j \in s + 1 .. p + 1 : answer[j].type \notin {"start", "end"}
          PROVE  open'.call = answer[s].call
      <3>1. s \in StartsTo(answer, p)
        BY <1>1, <1>2, <1>7, <2>4, TextsToMore
      <3>2. \A j \in s + 1 .. p : j \in s + 1 .. p + 1
        BY <1>1, <3>1 DEF StartsTo
      <3> QED BY <2>1, <2>4, <3>1, <3>2 DEF Parsing
    <2>5. text' \in Seq(Chunk) /\ \A i \in DOMAIN text' : text'[i].type = "text"
      BY <1>2, <1>4, <1>7, <2>1
    <2> QED BY <1>3, <1>4, <2>1, <2>2, <2>3, <2>4, <2>5 DEF Parsing
  <1>8. CASE e.type = "start"
    <2> DEFINE r == [call |-> e.call, args |-> <<>>]
    <2>1. text' = text /\ calls' = Flushed /\ open' = r
      BY <1>4, <1>8 DEF TakeChunk, e
    <2>2. e.call # NoCall /\ open'.call = e.call
      BY <1>1, <1>2, <1>8, <2>1 DEF IsAnswer
    <2>3. r \in Call
      <3>1. <<>> \in Seq(Chunk)
        OBVIOUS
      <3> QED BY <1>2, <3>1 DEF Chunk, Call
    <2>4. text' = Picked(Dec, TextsTo(answer, p + 1))
      BY <1>1, <1>2, <1>4, <1>8, <2>1, TextsToMore
    <2>5. Flushed' = CallsTo(answer, Dec, p + 1)
      <3>1. CallsTo(answer, Dec, p + 1) = Append(CallsTo(answer, Dec, p), r)
        BY <1>1, <1>2, <1>8, CallsToStart
      <3>2. Flushed' = Append(calls', open')
        BY <2>2 DEF Flushed
      <3> QED BY <1>4, <2>1, <3>1, <3>2
    <2>6. ASSUME NEW s \in StartsTo(answer, p + 1), \A j \in s + 1 .. p + 1 : answer[j].type \notin {"start", "end"}
          PROVE  open'.call = answer[s].call
      <3>1. s \in 1 .. p + 1 /\ answer[p + 1].type = "start"
        BY <1>2, <1>8 DEF StartsTo
      <3>2. ~(p + 1 \in s + 1 .. p + 1)
        BY <2>6, <3>1
      <3>3. s = p + 1
        BY <1>1, <3>1, <3>2
      <3> QED BY <1>2, <2>2, <3>3
    <2> QED BY <1>3, <1>4, <1>5, <2>1, <2>2, <2>3, <2>4, <2>5, <2>6 DEF Parsing
  <1>9. CASE e.type = "args"
    <2>1. text' = text /\ calls' = calls /\ open' = [open EXCEPT !.args = Append(@, e)]
      BY <1>9 DEF TakeChunk, e
    <2>2. PICK s \in 1 .. p : /\ answer[s].type = "start" /\ answer[s].call = e.call
                              /\ \A j \in s + 1 .. p : answer[j].type \notin {"start", "end"}
      <3>1. \A i \in DOMAIN answer : answer[i].type = "args" =>
              \E s \in 1 .. i - 1 : /\ answer[s].type = "start" /\ answer[s].call = answer[i].call
                                    /\ \A j \in s + 1 .. i - 1 : answer[j].type \notin {"start", "end"}
        BY <1>1 DEF IsAnswer
      <3>2. answer[p + 1].type = "args" /\ answer[p + 1].call = e.call /\ p + 1 - 1 = p
        BY <1>1, <1>2, <1>9
      <3>3. \E s \in 1 .. p + 1 - 1 : /\ answer[s].type = "start" /\ answer[s].call = answer[p + 1].call
                                     /\ \A j \in s + 1 .. p + 1 - 1 : answer[j].type \notin {"start", "end"}
        BY <1>1, <3>1, <3>2
      <3> QED BY <3>2, <3>3
    <2>3. open.call = e.call /\ open.call # NoCall
      <3>1. s \in StartsTo(answer, p) /\ s \in DOMAIN answer
        BY <1>1, <2>2 DEF StartsTo
      <3> QED BY <1>1, <2>2, <3>1 DEF Parsing, IsAnswer
    <2> DEFINE r == [call |-> open.call, args |-> Append(open.args, e)]
    <2>4. open' = r /\ r \in Call /\ r.call = open.call
      <3>1. open.args \in Seq(Chunk) /\ open.call \in STRING \cup {NoCall} /\ open = [call |-> open.call, args |-> open.args]
        BY <1>4 DEF Call
      <3>2. Append(open.args, e) \in Seq(Chunk)
        BY <1>2, <3>1
      <3>3. open' = r
        BY <2>1, <3>1
      <3> QED BY <3>1, <3>2, <3>3 DEF Call
    <2>5. CallsTo(answer, Dec, p + 1) = Append(calls, r)
      <3>1. CallsTo(answer, Dec, p) = Append(calls, open)
        BY <1>4, <2>3 DEF Flushed
      <3> QED BY <1>1, <1>2, <1>4, <1>9, <2>3, <3>1, CallsToArgs
    <2>6. Flushed' = CallsTo(answer, Dec, p + 1)
      BY <2>1, <2>3, <2>4, <2>5 DEF Flushed
    <2>7. text' = Picked(Dec, TextsTo(answer, p + 1))
      BY <1>1, <1>2, <1>4, <1>9, <2>1, TextsToMore
    <2>8. ASSUME NEW t \in StartsTo(answer, p + 1), \A j \in t + 1 .. p + 1 : answer[j].type \notin {"start", "end"}
          PROVE  open'.call = answer[t].call
      <3>1. t \in StartsTo(answer, p)
        BY <1>1, <1>2, <1>9, <2>8, TextsToMore
      <3>2. \A j \in t + 1 .. p : j \in t + 1 .. p + 1
        BY <1>1, <3>1 DEF StartsTo
      <3> QED BY <2>4, <2>8, <3>1, <3>2 DEF Parsing
    <2> QED BY <1>3, <1>4, <2>1, <2>3, <2>4, <2>6, <2>7, <2>8 DEF Parsing
  <1>10. CASE e.type = "end"
    <2>1. text' = text /\ calls' = Flushed /\ open' = IF open.call = NoCall THEN open ELSE Nothing
      BY <1>10 DEF TakeChunk, e
    <2>2. Nothing \in Call /\ Nothing.call = NoCall /\ Nothing.args = <<>>
      <3>1. <<>> \in Seq(Chunk)
        OBVIOUS
      <3> QED BY <3>1 DEF Nothing, Call
    <2>3. open'.call = NoCall /\ open' \in Call /\ open'.args = <<>>
      BY <1>4, <2>1, <2>2
    <2>4. Flushed' = CallsTo(answer, Dec, p + 1)
      <3>1. Flushed' = calls'
        BY <2>3 DEF Flushed
      <3>2. CallsTo(answer, Dec, p + 1) = CallsTo(answer, Dec, p)
        BY <1>1, <1>2, <1>10, CallsToSkips
      <3> QED BY <1>4, <2>1, <3>1, <3>2
    <2>5. text' = Picked(Dec, TextsTo(answer, p + 1))
      BY <1>1, <1>2, <1>4, <1>10, <2>1, TextsToMore
    <2>6. ASSUME NEW t \in StartsTo(answer, p + 1), \A j \in t + 1 .. p + 1 : answer[j].type \notin {"start", "end"}
          PROVE  FALSE
      <3>1. t \in 1 .. p
        BY <1>1, <1>2, <1>10, <2>6, TextsToMore
      <3>2. p + 1 \in t + 1 .. p + 1
        BY <1>1, <3>1
      <3> QED BY <1>2, <1>10, <2>6, <3>2
    <2> QED BY <1>3, <1>4, <1>5, <2>1, <2>3, <2>4, <2>5, <2>6 DEF Parsing
  <1> QED BY <1>6, <1>7, <1>8, <1>9, <1>10

LEMMA ParseKeeps ==
  ASSUME StreamInv, ParseLine
  PROVE  StreamInv'
  <1>1. StreamTypes /\ Len(answer) \in Nat
    BY AnswerIsOne DEF StreamInv, StreamTypes
  <1>2. PICK p \in 0 .. Len(answer) : Remaining(p) /\ Parsing(p)
    BY DEF StreamInv
  <1>3. /\ HasLine /\ outcome = Reading
        /\ answer' = answer /\ unsent' = unsent /\ garbled' = garbled /\ link' = link /\ outcome' = outcome
    BY DEF ParseLine
  <1>4. /\ p + 1 \in 1 .. Len(answer) /\ Len(buffer) >= 2
        /\ buffer[1] = <<p + 1, "begins">> /\ buffer[2] = <<p + 1, "ends">>
        /\ (CHOOSE i \in DOMAIN buffer :
              buffer[i][2] = "ends" /\ \A j \in 1 .. i - 1 : buffer[j][2] = "begins") = 2
    BY <1>1, <1>2, <1>3, LineIsEvent
  <1>5. TakeChunk(Decoded(p + 1)) /\ buffer' = SubSeq(buffer, 3, Len(buffer))
    <2>1. buffer[1][1] = p + 1 /\ buffer[2][1] = p + 1 /\ 2 + 1 = 3
      BY <1>4
    <2> DEFINE n == CHOOSE i \in DOMAIN buffer :
                      buffer[i][2] = "ends" /\ \A j \in 1 .. i - 1 : buffer[j][2] = "begins"
    <2>2. n = 2
      BY <1>4
    <2>3. /\ IF n = 2 /\ buffer[1][1] = buffer[2][1] THEN TakeChunk(Decoded(buffer[1][1]))
                                                      ELSE UNCHANGED <<text, open, calls>>
          /\ buffer' = SubSeq(buffer, n + 1, Len(buffer))
      BY DEF ParseLine
    <2> HIDE DEF n
    <2> QED BY <2>1, <2>2, <2>3
  <1>6. /\ Parsing(p + 1)'
        /\ text' \in Seq(Chunk) /\ \A i \in DOMAIN text' : text'[i].type = "text"
        /\ open' \in Call /\ (open'.call = NoCall => open'.args = <<>>)
        /\ calls' \in Seq(Call) /\ \A i \in DOMAIN calls' : calls'[i].call # NoCall
    BY <1>1, <1>2, <1>3, <1>4, <1>5, EventParsed
  <1>7. /\ buffer' \in Seq(Pieces) /\ Len(buffer') = Len(buffer) - 2 /\ Len(buffer) \in Nat
        /\ \A i \in 1 .. Len(buffer) - 2 : buffer'[i] = buffer[i + 2]
    <2>1. buffer \in Seq(Pieces) /\ 2 \in 0 .. Len(buffer) /\ Len(buffer) \in Nat
      BY <1>1, <1>4 DEF StreamTypes
    <2>2. /\ SubSeq(buffer, 2 + 1, Len(buffer)) \in Seq(Pieces)
          /\ Len(SubSeq(buffer, 2 + 1, Len(buffer))) = Len(buffer) - 2
          /\ \A i \in 1 .. Len(buffer) - 2 : SubSeq(buffer, 2 + 1, Len(buffer))[i] = buffer[i + 2]
      BY ONLY <2>1, Cut
    <2>3. 2 + 1 = 3
      OBVIOUS
    <2> QED BY <1>5, <2>1, <2>2, <2>3
  <1>8. Remaining(p + 1)'
    <2>1. Len(unsent) \in Nat /\ Len(buffer) + Len(unsent) = 2 * (Len(answer) - p)
      BY <1>1, <1>2 DEF Remaining, StreamTypes
    <2>2. ASSUME NEW i \in 1 .. Len(buffer') PROVE buffer'[i] = Piece(2 * (p + 1) + i)
      <3>1. buffer'[i] = buffer[i + 2] /\ i + 2 \in 1 .. Len(buffer)
        BY <1>7
      <3>2. buffer[i + 2] = Piece(2 * p + (i + 2)) /\ 2 * p + (i + 2) = 2 * (p + 1) + i
        BY <1>2, <3>1 DEF Remaining
      <3> QED BY <3>1, <3>2
    <2>3. ASSUME NEW i \in 1 .. Len(unsent) PROVE unsent[i] = Piece(2 * (p + 1) + Len(buffer') + i)
      <3>1. unsent[i] = Piece(2 * p + Len(buffer) + i)
        BY <1>2 DEF Remaining
      <3>2. 2 * p + Len(buffer) + i = 2 * (p + 1) + Len(buffer') + i
        BY <1>7
      <3> QED BY <3>1, <3>2
    <2>4. Len(buffer') + Len(unsent) = 2 * (Len(answer) - (p + 1))
      BY <1>1, <1>7, <2>1
    <2> QED BY <1>3, <2>2, <2>3, <2>4 DEF Remaining
  <1>9. StreamTypes'
    BY <1>1, <1>3, <1>6, <1>7 DEF StreamTypes
  <1>10. p + 1 \in 0 .. Len(answer') /\ (link' = "closed" => unsent' = <<>>) /\ outcome' = Reading
    BY <1>1, <1>3, <1>4 DEF StreamInv
  <1> QED BY <1>6, <1>8, <1>9, <1>10 DEF StreamInv, WholeStreamIsMeant

(* At the end of a stream that the server closed every event is parsed. *)
LEMMA AllParsed ==
  ASSUME StreamTypes, NEW p \in 0 .. Len(answer), Remaining(p), ~HasLine, unsent = <<>>
  PROVE  p = Len(answer)
  <1>1. Len(answer) \in Nat /\ Len(buffer) \in Nat /\ DOMAIN buffer = 1 .. Len(buffer) /\ Len(unsent) = 0
    BY AnswerIsOne DEF StreamTypes
  <1>2. SUFFICES ASSUME p # Len(answer) PROVE FALSE
    OBVIOUS
  <1>3. Len(buffer) = 2 * (Len(answer) - p)
    BY <1>1 DEF Remaining
  <1>4. 2 \in 1 .. Len(buffer)
    BY <1>1, <1>2, <1>3
  <1>5. (2 * p + 2) % 2 = 0
    BY <1>1
  <1>6. buffer[2][2] = "ends"
    BY <1>4, <1>5 DEF Remaining, Piece
  <1> QED BY <1>1, <1>4, <1>6 DEF HasLine

LEMMA FinishKeeps ==
  ASSUME StreamInv, Finish
  PROVE  StreamInv'
  <1> DEFINE L == Len(answer)
  <1>1. StreamTypes /\ L \in Nat /\ L \in 0 .. L /\ IsAnswer(answer) /\ answer \in Seq(Event) /\ DOMAIN answer = 1 .. L
    BY AnswerIsOne DEF StreamInv, StreamTypes
  <1>2. PICK p \in 0 .. L : Remaining(p) /\ Parsing(p)
    BY DEF StreamInv
  <1>3. /\ ~HasLine /\ link # "open"
        /\ answer' = answer /\ unsent' = unsent /\ buffer' = buffer /\ garbled' = garbled /\ link' = link
        /\ text' = text /\ open' = open /\ calls' = calls
    BY DEF Finish
  <1>4. StreamTypes' /\ Remaining(p)' /\ Parsing(p)'
    BY <1>1, <1>2, <1>3 DEF StreamTypes, Remaining, Parsing, Dec, Events, Decoded, Flushed
  <1>5. ASSUME link' = "closed" PROVE WholeStreamIsMeant'
    <2>1. p = L
      <3>1. unsent = <<>>
        BY <1>3, <1>5 DEF StreamInv
      <3> QED BY <1>1, <1>2, <1>3, <3>1, AllParsed
    <2>2. \A i \in 1 .. L : Dec[i] \in Chunk
      BY <1>1, DecodedIsChunk
    <2>3. \A i \in 1 .. L : answer[i] \in Chunk
      <3>1. \A x \in Event : x \in Chunk
        BY DEF Event, Chunk
      <3> QED BY <1>1, <3>1
    <2>4. StartsTo(answer, L) = Starts /\ TextsTo(answer, L) = Texts /\ \A c : ArgsTo(answer, c, L) = ArgsOf(c)
      BY <1>1 DEF StartsTo, Starts, TextsTo, Texts, ArgsTo, ArgsOf
    <2> DEFINE n == Cardinality(Starts)
    <2>5. /\ text = Picked(Dec, Texts) /\ Flushed = CallsTo(answer, Dec, L)
          /\ Flushed \in Seq(Call) /\ Len(Flushed) = n /\ n \in Nat
      BY <1>1, <1>2, <2>1, <2>2, <2>4, CallsToType DEF Parsing
    <2>6. n = 0 <=> Starts = {}
      <3>1. Starts \in SUBSET (1 .. L)
        BY <1>1 DEF Starts
      <3> QED BY <1>1, <3>1, PositionsFinite
    <2>7. garbled = {} => \A i \in 1 .. L : Dec[i] = answer[i]
      BY <1>1 DEF Dec, Events, Decoded
    <2>8. ASSUME NEW S \in SUBSET (1 .. L)
          PROVE  /\ Picked(Dec, S) \in Seq(Chunk) /\ Picked(answer, S) \in Seq(Chunk)
                 /\ Len(Picked(Dec, S)) = Len(Picked(answer, S))
                 /\ (Picked(Dec, S) = <<>> <=> S = {}) /\ (Picked(answer, S) = <<>> <=> S = {})
                 /\ garbled = {} => Picked(Dec, S) = Picked(answer, S)
      <3>1. \A i \in S : Dec[i] \in Chunk /\ answer[i] \in Chunk
        BY <2>2, <2>3
      <3>2. /\ Picked(Dec, S) \in Seq(Chunk) /\ Len(Picked(Dec, S)) = Cardinality(S)
            /\ (Picked(Dec, S) = <<>> <=> S = {})
        BY <1>1, <3>1, PickedType
      <3>3. /\ Picked(answer, S) \in Seq(Chunk) /\ Len(Picked(answer, S)) = Cardinality(S)
            /\ (Picked(answer, S) = <<>> <=> S = {})
        BY <1>1, <3>1, PickedType
      <3>4. garbled = {} => Picked(Dec, S) = Picked(answer, S)
        <4>1. garbled = {} => \A i \in S : Dec[i] = answer[i]
          BY <2>7
        <4> QED BY <1>1, <4>1, PickedSame
      <3> QED BY <3>2, <3>3, <3>4
    <2>9. CASE n = 0
      <3>1. Flushed = <<>>
        BY <2>5, <2>9
      <3>2. outcome' = [kind |-> "text", text |-> text]
        BY <3>1 DEF Finish
      <3>3. Meant = [kind |-> "text", text |-> Picked(answer, Texts)]
        BY <2>6, <2>9 DEF Meant
      <3>4. Texts \in SUBSET (1 .. L)
        BY <1>1 DEF Texts
      <3>5. Len(text) = Len(Picked(answer, Texts)) /\ (garbled = {} => text = Picked(answer, Texts))
        BY <2>5, <2>8, <3>4
      <3>6. Meant' = Meant
        BY <1>3 DEF Meant, Starts, Texts, ArgsOf
      <3>7. /\ outcome'.kind = "text" /\ outcome'.text = text
            /\ Meant'.kind = "text" /\ Meant'.text = Picked(answer, Texts)
        BY <3>2, <3>3, <3>6
      <3> QED BY <1>3, <3>2, <3>3, <3>5, <3>6, <3>7 DEF WholeStreamIsMeant
    <2>10. CASE n # 0
      <3> DEFINE meant == [k \in 1 .. n |->
                             LET c == Picked(answer, Starts)[k].call
                             IN [call |-> c, args |-> IF ArgsOf(c) = {} THEN "null" ELSE "whole"]]
                 got == [i \in DOMAIN Flushed |-> Parsed(Flushed[i])]
      <3>1. Flushed # <<>> /\ DOMAIN Flushed = 1 .. n
        BY <2>5, <2>10
      <3>2. outcome' = [kind |-> "calls", calls |-> got]
        BY <3>1 DEF Finish
      <3>3. Meant' = [kind |-> "calls", calls |-> meant]
        BY <1>3, <2>6, <2>10 DEF Meant, Starts, ArgsOf
      <3>4. ASSUME NEW k \in 1 .. n
            PROVE  /\ got[k].call = meant[k].call
                   /\ got[k].args = "null" <=> meant[k].args = "null"
                   /\ garbled = {} => got[k] = meant[k]
        <4> DEFINE c == Picked(answer, Starts)[k].call
                   r == Flushed[k]
        <4>1. r = [call |-> c, args |-> Picked(Dec, ArgsOf(c))]
          BY <2>4, <2>5 DEF CallsTo, CallAt
        <4>2. got[k] = Parsed(r) /\ meant[k] = [call |-> c, args |-> IF ArgsOf(c) = {} THEN "null" ELSE "whole"]
          BY <3>1
        <4> HIDE DEF c, r, got, meant
        <4>3. r.call = c /\ r.args = Picked(Dec, ArgsOf(c))
          BY <4>1
        <4>4. ArgsOf(c) \in SUBSET (1 .. L)
          BY <1>1 DEF ArgsOf
        <4>5. /\ Len(r.args) = Len(PartsOf(c)) /\ (r.args = <<>> <=> ArgsOf(c) = {})
              /\ (garbled = {} => r.args = PartsOf(c))
          BY <2>8, <4>3, <4>4 DEF PartsOf
        <4>6. CASE ArgsOf(c) = {}
          <5>1. r.args = <<>> /\ PartsOf(c) = <<>>
            BY <2>8, <4>4, <4>5, <4>6 DEF PartsOf
          <5>2. Parsed(r) = [call |-> c, args |-> "null"]
            BY <4>3, <5>1 DEF Parsed
          <5> QED BY <4>2, <4>6, <5>2
        <4>7. CASE ArgsOf(c) # {} /\ r.args = PartsOf(c)
          <5>1. Parsed(r) = [call |-> c, args |-> "whole"]
            BY <4>3, <4>5, <4>7 DEF Parsed
          <5> QED BY <4>2, <4>7, <5>1
        <4>8. CASE ArgsOf(c) # {} /\ r.args # PartsOf(c)
          <5>1. Parsed(r) = [call |-> c, args |-> "garbled"]
            BY <4>3, <4>5, <4>8 DEF Parsed
          <5> QED BY <4>2, <4>5, <4>8, <5>1
        <4> QED BY <4>6, <4>7, <4>8
      <3>5. DOMAIN got = 1 .. n /\ DOMAIN meant = 1 .. n /\ Len(got) = n /\ Len(meant) = n
        BY <2>5, <3>1
      <3>6. garbled = {} => got = meant
        BY <3>1, <3>4
      <3> HIDE DEF got, meant
      <3>7. /\ outcome'.kind = "calls" /\ outcome'.calls = got
            /\ Meant'.kind = "calls" /\ Meant'.calls = meant
        BY <3>2, <3>3
      <3>8. garbled = {} => outcome' = Meant'
        BY <3>2, <3>3, <3>6
      <3> QED BY <1>3, <3>4, <3>5, <3>7, <3>8 DEF WholeStreamIsMeant
    <2> QED BY <2>9, <2>10
  <1>6. WholeStreamIsMeant'
    BY <1>5 DEF WholeStreamIsMeant
  <1> QED BY <1>2, <1>3, <1>4, <1>6 DEF StreamInv

(* Whatever a provider is streamed, and wherever the network cuts it, a    *)
(* stream that the server closed is the message that the server meant.     *)
THEOREM StreamIsMeant == StreamSpec => []WholeStreamIsMeant
  <1>1. StreamInv /\ [StreamNext]_streamVars => StreamInv'
    BY ReceiveKeeps, LinkKeeps, ParseKeeps, FinishKeeps DEF StreamNext
  <1>2. StreamInv => WholeStreamIsMeant
    BY DEF StreamInv
  <1> QED BY StreamStarts, <1>1, <1>2, PTL DEF StreamSpec

(* Every text part is text and every call that was flushed has an id.      *)
THEOREM StreamTypeCorrect == StreamSpec => []StreamTypeOK
  <1>1. StreamInv /\ [StreamNext]_streamVars => StreamInv'
    BY ReceiveKeeps, LinkKeeps, ParseKeeps, FinishKeeps DEF StreamNext
  <1>2. StreamInv => StreamTypeOK
    BY DEF StreamInv, StreamTypes, StreamTypeOK
  <1> QED BY StreamStarts, <1>1, <1>2, PTL DEF StreamSpec
=============================================================================
