------------------------------ MODULE Browser ------------------------------
(***************************************************************************)
(* The browser tools.  One BrowserManager, with one Chromium and at most   *)
(* one current page, serves all agents: every tool call locks it and keeps *)
(* the lock across the awaits of its operation.  navigate gives up the     *)
(* current page before it opens the next one and makes that the current    *)
(* page only at its end; the tool registry drops a call that exceeds its   *)
(* time, at whichever await it is.                                         *)
(*                                                                         *)
(* A page is the number of its tab.  close and maybe_close_idle have no    *)
(* caller and are left out, and so are the contents of pages.              *)
(***************************************************************************)
EXTENDS Naturals, FiniteSets

CONSTANTS
  Visitors,  \* the runs that call browser tools
  MaxTabs    \* bound: tabs ever opened

ASSUME BrowserAssumption == MaxTabs \in Nat

Tab == 1 .. MaxTabs
NoPage == 0

(* One evaluation; an evaluation, a pause and another one; evaluations in  *)
(* a loop until the selector is found or the deadline has passed.          *)
PageOps == {"evaluate", "click", "back", "wait_for"}
BrowserOps == PageOps \cup {"navigate"}

VARIABLES
  chromium,  \* "none": not launched; "running"; "crashed"
  page,      \* BrowserManager.page
  tabs,      \* the tabs that are open in Chromium
  tabCount,  \* how many were opened
  lock,      \* who holds the mutex: a set of at most one visitor
  visit,     \* visit[v]: [op, pc, tab], the tool call in progress
  since,     \* since[v]: tabCount when the latest navigate of v gave up a page
  spoilt     \* how many navigations left a tab behind

browserVars == <<chromium, page, tabs, tabCount, lock, visit, since, spoilt>>

AtHome == [op |-> "none", pc |-> "idle", tab |-> NoPage]

BrowserInit ==
  /\ chromium = "none"
  /\ page = NoPage
  /\ tabs = {}
  /\ tabCount = 0
  /\ lock = {}
  /\ visit = [v \in Visitors |-> AtHome]
  /\ since = [v \in Visitors |-> 0]
  /\ spoilt = 0

-----------------------------------------------------------------------------
At(v, op, pc) == visit[v].op = op /\ visit[v].pc = pc
Goes(v, pc, tab) == visit' = [visit EXCEPT ![v].pc = pc, ![v].tab = tab]

(* The operation returns, with a result or an error, or is dropped. *)
Leaves(v) ==
  /\ visit' = [visit EXCEPT ![v] = AtHome]
  /\ lock' = lock \ {v}

CallTool(v, op) ==
  /\ visit[v].pc = "idle"
  /\ visit' = [visit EXCEPT ![v] = [op |-> op, pc |-> "waiting", tab |-> NoPage]]
  /\ UNCHANGED <<chromium, page, tabs, tabCount, lock, since, spoilt>>

(* self.browser.lock().await *)
LockBrowser(v) ==
  /\ visit[v].pc = "waiting"
  /\ lock = {}
  /\ lock' = {v}
  /\ Goes(v, "locked", NoPage)
  /\ UNCHANGED <<chromium, page, tabs, tabCount, since, spoilt>>

-----------------------------------------------------------------------------
(* navigate.                                                               *)

(* check_domain: no host, or one that is not allowed. *)
RefuseDomain(v) ==
  /\ At(v, "navigate", "locked")
  /\ Leaves(v)
  /\ UNCHANGED <<chromium, page, tabs, tabCount, since, spoilt>>

(* ensure_browser.  A browser that crashed is not launched again. *)
LaunchBrowser(v) ==
  /\ At(v, "navigate", "locked")
  /\ chromium = "none"
  /\ \/ chromium' = "running" /\ UNCHANGED <<visit, lock>>
     \/ chromium' = "none" /\ Leaves(v)
  /\ UNCHANGED <<page, tabs, tabCount, since, spoilt>>

(* "Close previous page to prevent tab leaks": page.take(). *)
TakeOldPage(v) ==
  /\ At(v, "navigate", "locked")
  /\ chromium # "none"
  /\ page' = NoPage
  /\ since' = [since EXCEPT ![v] = tabCount]
  /\ Goes(v, IF page = NoPage THEN "opening" ELSE "closing", page)
  /\ UNCHANGED <<chromium, tabs, tabCount, lock, spoilt>>

(* An error of close is ignored. *)
CloseOldPage(v) ==
  /\ At(v, "navigate", "closing")
  /\ \/ tabs' = tabs \ {visit[v].tab} /\ UNCHANGED spoilt
     \/ UNCHANGED tabs /\ spoilt' = spoilt + 1
  /\ Goes(v, "opening", NoPage)
  /\ UNCHANGED <<chromium, page, tabCount, lock, since>>

OpenTab(v) ==
  /\ At(v, "navigate", "opening")
  /\ chromium = "running"
  /\ tabCount < MaxTabs
  /\ tabCount' = tabCount + 1
  /\ tabs' = tabs \cup {tabCount'}
  /\ Goes(v, "loading", tabCount')
  /\ UNCHANGED <<chromium, page, lock, since, spoilt>>

OpenFails(v) ==
  /\ At(v, "navigate", "opening")
  /\ Leaves(v)
  /\ UNCHANGED <<chromium, page, tabs, tabCount, since, spoilt>>

(* The page is loaded, and has a title and a URL. *)
Arrive(v) ==
  /\ At(v, "navigate", "loading")
  /\ chromium = "running"
  /\ page' = visit[v].tab
  /\ Leaves(v)
  /\ UNCHANGED <<chromium, tabs, tabCount, since, spoilt>>

(* Loading, or reading the title or the URL, fails.  The tab stays. *)
LoadFails(v) ==
  /\ At(v, "navigate", "loading")
  /\ spoilt' = spoilt + 1
  /\ Leaves(v)
  /\ UNCHANGED <<chromium, page, tabs, tabCount, since>>

-----------------------------------------------------------------------------
(* The operations on the current page.                                     *)

(* "No page open", an invalid selector, or Chromium does not answer. *)
CannotAct(v) ==
  /\ visit[v].op \in PageOps /\ visit[v].pc = "locked"
  /\ Leaves(v)
  /\ UNCHANGED <<chromium, page, tabs, tabCount, since, spoilt>>

(* Slip: the lock is not kept while the page settles. *)
ActUnlocked(v) ==
  /\ visit[v].op \in PageOps /\ visit[v].pc = "locked"
  /\ page # NoPage /\ chromium = "running"
  /\ lock' = lock \ {v}
  /\ Goes(v, "acting", page)
  /\ UNCHANGED <<chromium, page, tabs, tabCount, since, spoilt>>

(* The first evaluation: of most operations the only one. *)
Act(v) ==
  /\ visit[v].op \in PageOps /\ visit[v].pc = "locked"
  /\ page # NoPage /\ chromium = "running"
  /\ Goes(v, "acting", page)
  /\ UNCHANGED <<chromium, page, tabs, tabCount, lock, since, spoilt>>

(* Its result, or its error. *)
Answer(v) ==
  /\ At(v, "evaluate", "acting")
  /\ Leaves(v)
  /\ UNCHANGED <<chromium, page, tabs, tabCount, since, spoilt>>

(* The element was there and is clicked: half a second for the page to     *)
(* settle, then the URL of the page is the result.                         *)
Click(v) ==
  /\ \/ At(v, "click", "acting") /\ Goes(v, "settling", visit[v].tab) /\ UNCHANGED lock
     \/ At(v, "click", "acting") /\ Leaves(v)    \* no such element
     \/ At(v, "click", "settling") /\ Leaves(v)
  /\ UNCHANGED <<chromium, page, tabs, tabCount, since, spoilt>>

(* history.back(), half a second, and page_info. *)
GoBack(v) ==
  /\ \/ At(v, "back", "acting") /\ Goes(v, "settling", visit[v].tab) /\ UNCHANGED lock
     \/ At(v, "back", "settling") /\ Leaves(v)
  /\ UNCHANGED <<chromium, page, tabs, tabCount, since, spoilt>>

(* Every 200 ms until the selector is there or the deadline has passed. *)
WaitForSelector(v) ==
  /\ \/ At(v, "wait_for", "acting") /\ Goes(v, "settling", visit[v].tab) /\ UNCHANGED lock
     \/ At(v, "wait_for", "settling") /\ Goes(v, "acting", page) /\ UNCHANGED lock
     \/ At(v, "wait_for", "acting") /\ Leaves(v)
  /\ UNCHANGED <<chromium, page, tabs, tabCount, since, spoilt>>

-----------------------------------------------------------------------------
(* The time of the tool is over and its future is dropped, and the lock    *)
(* with it.  A tab that was asked for may have been opened.                *)
CutOff(v) ==
  /\ visit[v].pc # "idle"
  /\ \/ /\ ~At(v, "navigate", "closing") /\ ~At(v, "navigate", "loading")
        /\ UNCHANGED <<tabs, tabCount, spoilt>>
     \/ /\ At(v, "navigate", "closing") \/ At(v, "navigate", "loading")
        /\ spoilt' = spoilt + 1
        /\ UNCHANGED <<tabs, tabCount>>
     \/ /\ At(v, "navigate", "opening") /\ chromium = "running" /\ tabCount < MaxTabs
        /\ tabCount' = tabCount + 1
        /\ tabs' = tabs \cup {tabCount'}
        /\ spoilt' = spoilt + 1
  /\ Leaves(v)
  /\ UNCHANGED <<chromium, page, since>>

BrowserCrashes ==
  /\ chromium = "running"
  /\ chromium' = "crashed"
  /\ tabs' = {}
  /\ UNCHANGED <<page, tabCount, lock, visit, since, spoilt>>

BrowserNext ==
  \/ BrowserCrashes
  \/ \E v \in Visitors :
       \/ \E op \in BrowserOps : CallTool(v, op)
       \/ LockBrowser(v) \/ RefuseDomain(v) \/ LaunchBrowser(v)
       \/ TakeOldPage(v) \/ CloseOldPage(v) \/ OpenTab(v) \/ OpenFails(v)
       \/ Arrive(v) \/ LoadFails(v)
       \/ CannotAct(v) \/ Act(v) \/ Answer(v) \/ Click(v) \/ GoBack(v)
       \/ WaitForSelector(v) \/ CutOff(v)

BrowserSpec == BrowserInit /\ [][BrowserNext]_browserVars

-----------------------------------------------------------------------------
BrowserTypeOK ==
  /\ chromium \in {"none", "running", "crashed"}
  /\ page \in Tab \cup {NoPage}
  /\ tabs \subseteq Tab /\ tabCount \in 0 .. MaxTabs
  /\ lock \subseteq Visitors
  /\ visit \in [Visitors -> [op : BrowserOps \cup {"none"}, tab : Tab \cup {NoPage},
       pc : {"idle", "waiting", "locked", "closing", "opening", "loading", "acting", "settling"}]]
  /\ since \in [Visitors -> 0 .. MaxTabs]
  /\ spoilt \in Nat

Acting == {v \in Visitors : visit[v].op \in PageOps /\ visit[v].pc \in {"acting", "settling"}}

(* An operation ends on the page it began on: while click waits for the    *)
(* page to settle, or wait_for for its selector, no other run navigates.   *)
OperationKeepsItsPage == \A v \in Acting : page = visit[v].tab

(* After navigate has failed or was cut off, its run does not go on with   *)
(* an older page as if it were the one it asked for: there is no page, or  *)
(* one that another run opened since.                                      *)
NeverOnAnOlderPage == \A v \in Acting : visit[v].tab > since[v]

(* "Close previous page to prevent tab leaks" (browser.rs:229): however    *)
(* the runs take turns, the tabs that nobody will close are at most one    *)
(* for every navigation that failed, was cut off, or could not close.      *)
TabsLeakOnlyByFailure ==
  Cardinality(tabs \ ({page} \cup {visit[v].tab : v \in Visitors})) <= spoilt

(* All three: the shared page is the one that an operation means.          *)
PageKept == OperationKeepsItsPage /\ NeverOnAnOlderPage /\ TabsLeakOnlyByFailure
=============================================================================
