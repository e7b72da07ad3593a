---------------------------- MODULE BrowserTabs ----------------------------
(* The browser of a runtime session: the tabs that the nodes open, switch  *)
(* and close, the pop-ups that the pages open by themselves, and the frame *)
(* that the nodes act in. runtime/engine.py: browser_runtime, its helpers  *)
(* from _require_browser_page to _resolve_browser_frame and the executors  *)
(* of the browser.* nodes.                                                 *)
(*                                                                         *)
(* A node runs while the driver delivers the events of the browser: pages  *)
(* open and close themselves before, between and during the nodes. What a  *)
(* node does to the content of a page, URLs, cookies, dialogs, requests    *)
(* and downloads are left out; a reference by label, index or URL is the   *)
(* tab it finds. Tabs are numbered in the order they were opened.          *)
(*                                                                         *)
(* Definitions named Faulty... are seeded faults of the definition that    *)
(* follows them; nothing else uses them.                                   *)
EXTENDS Naturals, Sequences, SequencesExt, Filtering

CONSTANTS
    NoTab,          \* None
    RecordLimit,    \* BROWSER_OBSERVATION_RECORD_LIMIT
    MaxTabs,        \* bound: tabs of a session, those that were closed included
    MaxFrames,      \* bound: frames on the stack
    MaxAnnounced    \* bound: tabs that were announced and have not come

ASSUME TabsAssumption ==
    /\ RecordLimit \in Nat \ {0}
    /\ MaxTabs \in Nat \ {0}
    /\ MaxFrames \in Nat /\ MaxAnnounced \in Nat
    /\ NoTab \notin Nat

VARIABLES
    page,       \* browser_runtime["page"]: NoTab before the launch
    pages,      \* browser_runtime["pages"]: may hold tabs that closed meanwhile
    index,      \* browser_runtime["active_page_index"], from 0
    popups,     \* browser_runtime["popup_records"]: their pages
    suppress,   \* browser_runtime["suppress_next_page_record"]
    stack,      \* browser_runtime["frame_stack"]: tab of each frame, still attached
    inFrame,    \* browser_runtime["current_frame"] is the top of the stack, not None
    opening,    \* browser.open_tab: "no", "asks" the browser, or "has" the tab
    own,        \* the tab that browser.open_tab has
    opened,     \* number of tabs opened so far
    alive,      \* the tabs that are open
    chosen,     \* history: the tab that the flow activated last
    lost        \* history: since then it, or a tab in front of it, has closed

tabVars == <<page, pages, index, popups, suppress, stack, inFrame, opening, own, opened,
             alive, chosen, lost>>

Tabs == 1 .. MaxTabs
FrameRecord == [tab : Tabs, attached : BOOLEAN]

TabsInit ==
    /\ page = NoTab /\ pages = <<>> /\ index = 0
    /\ popups = <<>> /\ suppress = 0
    /\ stack = <<>> /\ inFrame = FALSE
    /\ opening = "no" /\ own = NoTab
    /\ opened = 0 /\ alive = {}
    /\ chosen = NoTab /\ lost = FALSE

Idle == page # NoTab /\ opening = "no"

-----------------------------------------------------------------------------
(* The helpers.                                                            *)

\* _browser_pages
OpenPages == Kept(pages, alive)

\* _register_browser_page
RegisteredTab(seq, t) == IF t \in ToSet(seq) THEN seq ELSE Append(seq, t)

\* _append_bounded_browser_record
Recorded(records, t) ==
    LET all == Append(records, t)
    IN  IF Len(all) > RecordLimit THEN Tail(all) ELSE all

\* _reset_browser_frame_context
ResetFrames == stack' = <<>> /\ inFrame' = FALSE

\* BUG PATTERN: a tab is made active and the frame of the last one is kept.
FaultyActivate(seq, t) ==
    LET listed == RegisteredTab(seq, t)
    IN  /\ page' = t /\ pages' = listed
        /\ index' = (CHOOSE i \in DOMAIN listed : listed[i] = t) - 1
        /\ UNCHANGED <<stack, inFrame>>

\* _set_active_browser_page, which takes a closed page as well
Activate(seq, t) ==
    LET listed == RegisteredTab(seq, t)
    IN  /\ page' = t /\ pages' = listed
        /\ index' = (CHOOSE i \in DOMAIN listed : listed[i] = t) - 1
        /\ ResetFrames

\* The flow wants its nodes to act on t from here on.
Chooses(t) == chosen' = t /\ lost' = (t \notin alive)

Shown == <<page, index, stack, inFrame>>

-----------------------------------------------------------------------------
(* The browser.                                                            *)

\* handle_page: what happens to the lists when the driver reports tab t.
Reported(t) ==
    /\ pages' = RegisteredTab(pages, t)
    /\ IF suppress > 0
       THEN suppress' = suppress - 1 /\ UNCHANGED popups
       ELSE popups' = Recorded(popups, t) /\ UNCHANGED suppress

\* A page opens another one: a pop-up.
PopupOpens ==
    /\ page # NoTab /\ alive # {} /\ opened < MaxTabs
    /\ opened' = opened + 1 /\ alive' = alive \cup {opened'}
    /\ Reported(opened')
    /\ UNCHANGED <<Shown, opening, own, chosen, lost>>

\* t comes before the chosen tab in the list, or is it.
NotBehindChosen(t) ==
    \E i, j \in DOMAIN pages : i <= j /\ pages[i] = t /\ pages[j] = chosen

\* A page closes itself, or the user closes it.
TabCloses(t) ==
    /\ t \in alive
    /\ alive' = alive \ {t}
    /\ lost' = (lost \/ NotBehindChosen(t))
    /\ UNCHANGED <<Shown, pages, popups, suppress, opening, own, opened, chosen>>

\* A frame of the stack is removed from its page.
FrameDetaches(i) ==
    /\ stack[i].attached
    /\ stack' = [stack EXCEPT ![i].attached = FALSE]
    /\ UNCHANGED <<page, pages, index, popups, suppress, inFrame, opening, own, opened, alive,
                   chosen, lost>>

-----------------------------------------------------------------------------
(* The nodes.                                                              *)

\* The first node that needs a page launches the browser: _require_browser_page
LaunchBrowser ==
    /\ page = NoTab
    /\ opened' = 1 /\ alive' = {1}
    /\ page' = 1 /\ pages' = <<1>> /\ index' = 0
    /\ chosen' = 1
    /\ UNCHANGED <<popups, suppress, stack, inFrame, opening, own, lost>>

\* Any node that acts on an element: _require_browser_target leaves a frame
\* that was removed for the top of the page, not for the frame around it.
ActOnTarget ==
    /\ Idle
    /\ inFrame' = (inFrame /\ Last(stack).attached)
    /\ UNCHANGED <<page, pages, index, popups, suppress, stack, opening, own, opened, alive,
                   chosen, lost>>

\* browser.navigate, go_back, go_forward, refresh and open_frame_page; they
\* raise before anything changes when the page is closed.
Navigate ==
    /\ Idle /\ page \in alive
    /\ ResetFrames
    /\ UNCHANGED <<page, pages, index, popups, suppress, opening, own, opened, alive, chosen, lost>>

\* browser.switch_to_default_content, which needs no open page
DefaultContent ==
    /\ Idle
    /\ ResetFrames
    /\ UNCHANGED <<page, pages, index, popups, suppress, opening, own, opened, alive, chosen, lost>>

\* browser.switch_to_frame finds the frame in the active page.
SwitchToFrame ==
    /\ Idle /\ page \in alive /\ Len(stack) < MaxFrames
    /\ stack' = Append(stack, [tab |-> page, attached |-> TRUE])
    /\ inFrame' = TRUE
    /\ UNCHANGED <<page, pages, index, popups, suppress, opening, own, opened, alive, chosen, lost>>

\* browser.switch_to_parent_frame
SwitchToParentFrame ==
    /\ Idle
    /\ stack' = IF stack = <<>> THEN stack ELSE Front(stack)
    /\ inFrame' = (stack' # <<>>)
    /\ UNCHANGED <<page, pages, index, popups, suppress, opening, own, opened, alive, chosen, lost>>

\* browser.open_tab announces its page, so that it is not taken for a pop-up.
AskForTab ==
    /\ Idle /\ suppress < MaxAnnounced
    /\ suppress' = suppress + 1
    /\ opening' = "asks"
    /\ UNCHANGED <<Shown, pages, popups, own, opened, alive, chosen, lost>>

\* new_page returns when the event of the page was handled. A pop-up may have
\* come first.
TabIsThere ==
    /\ opening = "asks" /\ opened < MaxTabs
    /\ opened' = opened + 1 /\ alive' = alive \cup {opened'}
    /\ Reported(opened')
    /\ opening' = "has" /\ own' = opened'
    /\ UNCHANGED <<Shown, chosen, lost>>

\* new_page raises; the announcement stays.
NoTabComes ==
    /\ opening = "asks"
    /\ opening' = "no"
    /\ UNCHANGED <<Shown, pages, popups, suppress, own, opened, alive, chosen, lost>>

\* goto raises, and the tab stays open in the background; or the tab is shown,
\* if the node is to activate it.
OpenTab ==
    /\ opening = "has"
    /\ opening' = "no" /\ own' = NoTab
    /\ \/ UNCHANGED <<Shown, pages, chosen, lost>>
       \/ /\ own \in alive
          /\ Activate(OpenPages, own) /\ Chooses(own)
    /\ UNCHANGED <<popups, suppress, opened, alive>>

\* browser.switch_tab: a reference by label, index or URL finds any open tab.
SwitchTab(t) ==
    /\ Idle /\ t \in ToSet(OpenPages)
    /\ Activate(OpenPages, t) /\ Chooses(t)
    /\ UNCHANGED <<popups, suppress, opening, own, opened, alive>>

\* A reference that finds nothing has still dropped the closed tabs.
TabNotFound ==
    /\ Idle
    /\ pages' = OpenPages
    /\ UNCHANGED <<Shown, popups, suppress, opening, own, opened, alive, chosen, lost>>

\* browser.close_tab, of the active or of another tab: then the tab that has
\* the index which the active one had when it was made active becomes active.
CloseTab(t) ==
    /\ Idle /\ (t = page \/ t \in ToSet(OpenPages))
    /\ alive' = alive \ {t}
    /\ LET left == Kept(pages, alive')
       IN  IF left = <<>>
           THEN pages' = left /\ UNCHANGED Shown
           ELSE Activate(left, left[IF index < Len(left) THEN index + 1 ELSE Len(left)])
    /\ lost' = (lost \/ NotBehindChosen(t))
    /\ UNCHANGED <<popups, suppress, opening, own, opened, chosen>>

\* browser.wait_for_popup returns the first pop-up there ever was: a record is
\* never taken out, and its page may be closed.
WaitForPopup ==
    /\ Idle /\ popups # <<>>
    /\ Activate(OpenPages, Head(popups)) /\ Chooses(Head(popups))
    /\ UNCHANGED <<popups, suppress, opening, own, opened, alive>>

\* session.apply_auth_session: _apply_local_storage opens a page for a moment
\* and does not announce it.
ApplyStorage ==
    /\ Idle /\ opened < MaxTabs
    /\ opened' = opened + 1
    /\ Reported(opened')
    /\ UNCHANGED <<Shown, opening, own, alive, chosen, lost>>

TabsNext ==
    \/ LaunchBrowser \/ PopupOpens
    \/ \E t \in Tabs : TabCloses(t) \/ SwitchTab(t) \/ CloseTab(t)
    \/ \E i \in DOMAIN stack : FrameDetaches(i)
    \/ ActOnTarget \/ Navigate \/ DefaultContent \/ SwitchToFrame \/ SwitchToParentFrame
    \/ AskForTab \/ TabIsThere \/ NoTabComes \/ OpenTab \/ TabNotFound
    \/ WaitForPopup \/ ApplyStorage

TabsSpec == TabsInit /\ [][TabsNext]_tabVars

-----------------------------------------------------------------------------
(* Every variable has its type.                                            *)
TabsTypeOK ==
    /\ page \in Tabs \cup {NoTab} /\ pages \in Seq(Tabs) /\ index \in Nat
    /\ popups \in Seq(Tabs) /\ Len(popups) <= RecordLimit /\ suppress \in 0 .. MaxAnnounced
    /\ stack \in Seq(FrameRecord) /\ Len(stack) <= MaxFrames /\ inFrame \in BOOLEAN
    /\ opening \in {"no", "asks", "has"} /\ own \in Tabs \cup {NoTab}
    /\ opened \in 0 .. MaxTabs /\ alive \in SUBSET Tabs
    /\ chosen \in Tabs \cup {NoTab} /\ lost \in BOOLEAN

(* A node acts on the tab that the flow activated last, and in a frame of  *)
(* that tab: pop-ups, background tabs, tabs that close and closing other    *)
(* tabs do not redirect it. The exception is real: when that tab, or one    *)
(* that was listed in front of it, has closed, the remembered index names   *)
(* another tab and the next close_tab activates that one.                   *)
NodesHitChosenTab ==
    LET target == IF inFrame THEN Last(stack).tab ELSE page
    IN  ~lost => target = chosen
=============================================================================
