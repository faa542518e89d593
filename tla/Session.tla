-------------------------------- MODULE Session --------------------------------
(***************************************************************************)
(* What a visit does to the session history of the browser: link clicks and *)
(* popstate events that begin visits, the record a visit pushes or replaces *)
(* as it starts, the record a redirect rewrites, the way back a failed one  *)
(* takes.  Every step is a step of Navigation, which says what becomes of   *)
(* the visits, and of the history beside it.                                *)
(*                                                                          *)
(* All entries are swup's own: those of an earlier load of the page, if the *)
(* tab has any, and those of this one.  A traversal (the back button, or    *)
(* history.back()) moves to an entry and fires popstate in one task.        *)
(* Hashes stay within a page and are left out.                              *)
(***************************************************************************)
EXTENDS Navigation, Sequences

CONSTANTS
    Urls,     \* local URLs: path and query (Location.url)
    Resolve,  \* options.resolveUrl
    Tab       \* the URLs of the entries that swup finds in the tab

ASSUME ResolveAssumption == Resolve \in [Urls -> Urls]
ASSUME TabAssumption == Tab \in Seq(Urls) /\ Tab # <<>>

VARIABLES
    url,        \* url[v]: visit.to.url
    how,        \* how[v]: visit.history.popstate, or else .action
    direction,  \* direction[v]: visit.history.direction
    location,   \* swup.location
    index,      \* swup.currentHistoryIndex
    entries,    \* the session history: the URL and the index in each state
    position,   \* the current entry
    incoming,   \* the URL of the page that is being rendered (page.url)
    visible,    \* history variable: the URL of the content on the page
    passed      \* history variable: a popstate event was let pass that moved
                \* to an entry with another index

history == <<location, index, entries, position, passed>>
details == <<url, how, direction, incoming, visible>>
session == <<vars, history, details>>

Hows == {"push", "replace", "popstate"}
Directions == {"undefined", "forwards", "backwards"}

(* isSameResolvedUrl() *)
Same(a, b) == Resolve[a] = Resolve[b]

(* getCurrentUrl() *)
Address == entries[position].url

-----------------------------------------------------------------------------
(* The records *)

(* Bugs to detect: the entries ahead are kept, before or after the record. *)
PushAtEnd(u, i) ==
    /\ entries' = Append(SubSeq(entries, 1, position), [url |-> u, index |-> i])
    /\ position' = Len(entries) + 1

PushBetween(u, i) ==
    /\ entries' = SubSeq(entries, 1, position)
                      \o <<[url |-> u, index |-> i]>>
                      \o SubSeq(entries, position + 1, Len(entries))
    /\ position' = position + 1

(* createHistoryRecord(): pushState drops the entries ahead. *)
Push(u, i) ==
    /\ entries' = Append(SubSeq(entries, 1, position), [url |-> u, index |-> i])
    /\ position' = position + 1

(* A bug to detect: the state is written anew, with the instance's index. *)
RewriteAnew(u) ==
    /\ entries' = [entries EXCEPT ![position] = [url |-> u, index |-> 1]]
    /\ UNCHANGED position

(* updateHistoryRecord(): the rest of the state, the index too, is kept. *)
Rewrite(u) ==
    /\ entries' = [entries EXCEPT ![position].url = u]
    /\ UNCHANGED position

-----------------------------------------------------------------------------
(* What begins visits *)

(* createVisit() and performNavigation(). *)
Ask(v, u, h, d) ==
    /\ Request(v)
    /\ url' = [url EXCEPT ![v] = u]
    /\ how' = [how EXCEPT ![v] = h]
    /\ direction' = [direction EXCEPT ![v] = d]
    /\ UNCHANGED <<incoming, visible>>

(* The link leads where swup is going already: the click is swallowed. *)
Underway(u) == navigating /\ url[current] = u

(* handleLinkClick(): a link to another page, or to this one when linkToSelf
   is "navigate".  data-swup-history makes a visit replace its record. *)
Click(v, u, h) ==
    /\ ~Underway(u)
    /\ u = location \/ ~Same(u, location)
    /\ Ask(v, u, h, "undefined")
    /\ UNCHANGED history

(* handleLinkClick(): link:self and link:anchor record the URL and scroll. *)
ClickSelf(u) ==
    /\ Task
    /\ ~Underway(u)
    /\ u = location
    /\ Rewrite(u)
    /\ UNCHANGED <<vars, location, index, passed, details>>

(* swup.navigate(): nothing stands in its way. *)
Navigate(v, u, h) ==
    /\ Ask(v, u, h, "undefined")
    /\ UNCHANGED history

Traverse(i) ==
    /\ i \in DOMAIN entries
    /\ i # position
    /\ position' = i

Towards(i) ==
    CASE entries[i].index = index -> "undefined"
      [] entries[i].index > index -> "forwards"
      [] entries[i].index < index -> "backwards"

(* A bug to detect: currentHistoryIndex is left as it was. *)
FollowStale(v, i) ==
    /\ Ask(v, entries[i].url, "popstate", Towards(i))
    /\ UNCHANGED index

(* handlePopState(): a visit to where the browser is already. *)
Follow(v, i) ==
    /\ Ask(v, entries[i].url, "popstate", Towards(i))
    /\ index' = entries[i].index

PopState(v, i) ==
    /\ fallback = NoVisit
    /\ Traverse(i)
    /\ ~Same(entries[i].url, location)
    /\ Follow(v, i)
    /\ UNCHANGED <<location, entries, passed>>

(* handlePopState() returns early: "the resolved path hasn't changed". *)
PassPopState(i) ==
    /\ Task
    /\ fallback = NoVisit
    /\ Traverse(i)
    /\ Same(entries[i].url, location)
    /\ passed' = (passed \/ entries[i].index # index)
    /\ UNCHANGED <<vars, location, index, entries, details>>

(* A failed visit has replaced skipPopStateHandling: the traversal of its
   history.back(), or any other, makes the browser load the URL of the visit. *)
PopFallback(i) ==
    /\ Traverse(i)
    /\ FallbackLoad
    /\ UNCHANGED <<location, index, entries, passed, details>>

-----------------------------------------------------------------------------
(* What visits do *)

(* "Create/update history record if this is not a popstate call or leads to
   the same URL" *)
StartVisit(v) ==
    /\ Start(v)
    /\ location' = url[v]
    /\ \/ /\ how[v] = "popstate"
          /\ UNCHANGED <<index, entries, position>>
       \/ /\ how[v] # "popstate"
          /\ how[v] = "replace" \/ url[v] = location
          /\ Rewrite(url[v])
          /\ UNCHANGED index
       \/ /\ how[v] = "push"
          /\ url[v] # location
          /\ Push(url[v], index + 1)
          /\ index' = index + 1
    /\ UNCHANGED <<passed, details>>

(* A bug to detect: the location is left behind. *)
RedirectAddressOnly(v, u) ==
    /\ ~Same(Address, u)
    /\ Rewrite(u)
    /\ url' = [url EXCEPT ![v] = u]
    /\ UNCHANGED location

(* The page is not the one the address bar shows. *)
Redirect(v, u) ==
    /\ ~Same(Address, u)
    /\ Rewrite(u)
    /\ location' = u
    /\ url' = [url EXCEPT ![v] = u]

(* renderPage() for a page at u: the URL asked for, or where that redirects. *)
EnterVisit(v, u) ==
    /\ Enter(v)
    /\ \/ Done(v) /\ UNCHANGED <<location, entries, position, url>>
       \/ ~Done(v) /\ Redirect(v, u)
       \/ /\ ~Done(v)
          /\ Same(Address, u)
          /\ UNCHANGED <<location, entries, position, url>>
    /\ incoming' = IF Done(v) THEN incoming ELSE u
    /\ UNCHANGED <<index, passed, how, direction, visible>>

ReplaceVisit(v) ==
    /\ Replace(v)
    /\ visible' = IF Done(v) THEN visible ELSE incoming
    /\ UNCHANGED <<history, url, how, direction, incoming>>

(* The steps that do not touch the history. *)
OtherStep(v) ==
    \/ TakeOver(v)
    \/ Wait(v)
    \/ Transition(v)
    \/ Leave(v)
    \/ Rendered(v)
    \/ Entered(v)
    \/ Complete(v)
    \/ PageRejects(v)
    \/ ContainerMismatch(v)
    \/ HandlerThrows(v)
    \/ HandlerAborts(v)
    \/ LoaderStep(v)

-----------------------------------------------------------------------------
(* The constructor: the index is the one of the current entry. *)
SessionInit ==
    /\ Init
    /\ entries = [i \in DOMAIN Tab |-> [url |-> Tab[i], index |-> i]]
    /\ position \in DOMAIN Tab
    /\ index = position
    /\ location = Tab[position]
    /\ visible = location
    /\ incoming = location
    /\ passed = FALSE
    /\ url = [v \in Visits |-> location]
    /\ how = [v \in Visits |-> "push"]
    /\ direction = [v \in Visits |-> "undefined"]

UserStep ==
    \/ \E u \in Urls : ClickSelf(u)
    \/ \E i \in DOMAIN entries : PassPopState(i) \/ PopFallback(i)
    \/ \E v \in Visits, u \in Urls, h \in {"push", "replace"} :
          Click(v, u, h) \/ Navigate(v, u, h)
    \/ \E v \in Visits, i \in DOMAIN entries : PopState(v, i)

SessionStep(v) ==
    \/ StartVisit(v)
    \/ \E u \in Urls : EnterVisit(v, u)
    \/ ReplaceVisit(v)
    \/ OtherStep(v) /\ UNCHANGED <<history, details>>

SessionNext == UserStep \/ \E v \in Visits : SessionStep(v)

SessionSpec == SessionInit /\ [][SessionNext]_session

-----------------------------------------------------------------------------
(* Properties *)

(* The types of the session; the browser is at one of its entries. *)
SessionTypeOK ==
    /\ url \in [Visits -> Urls]
    /\ how \in [Visits -> Hows]
    /\ direction \in [Visits -> Directions]
    /\ location \in Urls
    /\ incoming \in Urls
    /\ visible \in Urls
    /\ index \in Nat
    /\ entries \in Seq([url : Urls, index : Nat])
    /\ position \in DOMAIN entries
    /\ passed \in BOOLEAN

Idle == ~navigating /\ ~unloaded

(* When swup is idle, the content, location and the address bar agree, whichever
   visits were superseded, queued, failed or redirected and wherever the user
   moved meanwhile, unless a popstate event was let pass. *)
IdleAgrees ==
    Idle /\ ~passed => Same(location, visible) /\ Same(Address, visible)

(* currentHistoryIndex is the "Index of the current history entry"
   (Swup.ts:105), unless a popstate event was let pass: visits that are
   superseded or fail after they pushed, and visits that replace, included. *)
IndexIsCurrent == passed \/ unloaded \/ index = entries[position].index

(* The indexes of the entries increase from back to front, so that comparing
   two of them tells the direction of travel. *)
IndexesIncrease ==
    passed \/ \A i, j \in DOMAIN entries :
                 i < j => entries[i].index < entries[j].index

(* "The direction of travel in case of a browser history navigation"
   (Visit.ts:67): a popstate visit goes the way the user went. *)
DirectionIsTrue ==
    [][\A v \in Visits :
          ~passed /\ how[v] # "popstate" /\ how'[v] = "popstate" =>
              direction'[v] = IF position' > position THEN "forwards"
                                                      ELSE "backwards"]_session

(* "Go back to the actual page we're still at" (navigate.ts:234): the way back
   after a failed visit leads to the entry of the content on the page. *)
BackAtShownPage ==
    [][unloaded' # unloaded /\ position' = position - 1
          => Same(entries[position'].url, visible)]_session
=============================================================================
