# swup in TLA+

A formal model of [swup](https://github.com/swup/swup), the page transition
library in `src/`: TLA+ modules translated from its TypeScript, TLC
configurations that check them on small instances, and theorems proved with
TLAPS for every instance. `PROJECT.json` lists the runs, what each checks, the
source lines each definition stands for, the disagreements found and the hazards
the properties are aimed at.

    tlc -workers 2 -config nav_default.cfg MCNavigation
    tlapm NavigationProofs.tla

## The system

One `Swup` instance intercepts link clicks and popstate events and replaces page
loads by *visits*. Everything runs on one JavaScript thread. Concurrency is that
of coroutines: every `await` is a place where other visits, handlers, timers and
network answers come in.

| component | state | operations | talks to |
|---|---|---|---|
| Navigation (`navigate.ts`, `Visit.ts`, `renderPage.ts`, `animatePage*.ts`) | `navigating` (the lock), `visit`, `onVisitEnd` (the queue of one), per visit its `state`, document, animation flag, and where its coroutine stands | `navigate`, `performNavigation`, `Visit.advance`, `abort`, `done` | calls hooks at every step; awaits the page; changes history, classes, content; on failure the browser |
| Hooks (`Hooks.ts`) | a ledger per hook: Map from handler to registration | `on`, `before`, `replace`, `once`, `off`, `clear`, `call`, `callSync` | runs the default handlers of the core and the handlers of plugins and users, which call back into everything |
| Page loading (`fetchPage.ts`, default handler of `page:load`) | request, timer, abort controller | `fetchPage` | network, cache, hooks `fetch:*` |
| Cache (`Cache.ts`, `resolveUrl.ts`) | Map from resolved URL to page | `set`, `get`, `has`, `update`, `delete`, `prune`, `clear` | `options.resolveUrl`; hooks `cache:*` |
| Session (`Swup.ts`, `history.ts`, `Location.ts`) | `location`, `currentHistoryIndex`, the browser's history | `handleLinkClick`, `handlePopState`, the history part of `performNavigation`, `renderPage`'s redirect | starts visits |
| Lifecycle and plugins (`Swup.ts`, `plugins.ts`, `delegateEvent.ts`) | `plugins`, listeners | `enable`, `destroy`, `use`, `unuse` | mounts plugins, registers and clears hooks, clears the cache |
| Content and classes (`replaceContent.ts`, `Classes.ts`, `scrollToContent.ts`, `getAnchorElement.ts`) | the DOM | replace, persist, add and remove classes, scroll | `swup.visit` decides the targets of classes |
| Animation timing (`awaitAnimations.ts`) | per element a count of finished properties and a timer | `awaitAnimations` | awaited by the out and in animations |
| Helpers, entry points | none | `classify`, `matchPath`, re-exports | |

What is hard here, and what makes each part correct:

* **Superseding.** A request during a visit aborts it, or waits, depending on a
  state that is read before an await and acted on after it. At most one visit may
  be live; the latest request wins; a dead visit stays dead although its page,
  its timers and its handlers are still to come.
* **Ends.** A visit ends at three done checks, in the catch block or regularly;
  the lock, the queue and the document must be dealt with on each way.
* **Handlers.** Any hook may wait, abort the visit, throw, navigate.
  Registrations change while calls run over a snapshot of them, and calls
  overlap: no handler may be lost, run out of order or bypassed.
* **Answers.** A page comes in two parts, late, under another URL, or not at all;
  the cache is shared with other loads and with plugins. What is cached under a
  URL must be the answer for it.
* **History.** Visits push, replace and rewrite records of a history in which the
  user moves at the same time. When all is done, address bar, `location` and content
  must agree, and `currentHistoryIndex` must be that of the current entry.
* **Lifecycle.** `enable()` and `destroy()` go on after an await, beside visits
  and beside each other; what one sets up the other must take away.
* **The document.** Classes are put on the targets of `swup.visit`, whichever visit
  calls; superseded visits leave off half way. Nothing of them may stay, and a page
  must not be put together from two visits.
* **Animations.** A wait is ended by end events or by a timer, whichever comes
  first: not before the motion is over, and always.

## The modules

| module | what it is |
|---|---|
| `Navigation` | the visits of one instance, with TypeOK, the safety, action and liveness properties |
| `VisitQueue` | what navigation promises: the abstract specification `Navigation` implements |
| `NavigationProofs` | the proofs about `Navigation`: the lock, the queue, the latest request |
| `VisitProofs` | the proofs about `Navigation`: its refinement of `VisitQueue`, documents and pages, what is shown, progress |
| `Hooks` | one hook: its ledger, and calls over snapshots of it |
| `HooksProofs` | the proofs about `Hooks` |
| `PageLoad` | loads, `fetchPage()` and the cache |
| `PageLoadProofs` | the proofs about `PageLoad` |
| `Session` | the history of the browser, over `Navigation`: every step is a step of a visit and what it does to the history, or one of the user |
| `SessionProofs` | the proofs about `Session`, and that it implements `Navigation` |
| `Lifecycle` | `enable`, `destroy`, `use`, `unuse`, over `Navigation` |
| `LifecycleProofs` | the proofs about `Lifecycle` |
| `Content` | classes, containers and title, over `Navigation` |
| `ContentProofs` | the proofs about `Content`, and that it implements `Navigation` |
| `AwaitAnimations` | one call of `awaitAnimations()` |
| `AnimationProofs` | the proofs about `AwaitAnimations`, and about its arithmetic on lists of any length |
| `MC...` | sets, bounds and symmetry for TLC, one for each of the seven models |

`Session`, `Lifecycle` and `Content` EXTEND `Navigation` and conjoin their own part
to its actions (`StartVisit(v) == Start(v) /\ ...`): they are compositions of
a component with the visits, one for each thing visits act on, so that each stays
within TLC's reach. `Hooks`, `PageLoad` and `AwaitAnimations` are checked on their
own; `Navigation` meets them at three places. It sees a hook as a label at which a
coroutine stands until the call returns, with the outcomes `Hooks` gives a call: it
returns, it throws what a replacing handler throws, or it skips all handlers of a
visit that is done. It sees a load as `page[v]`, which settles as a load of
`PageLoad` does: `fulfilled`, `failed` (errors and timeouts) or `aborted`. And it
sees `awaitAnimations()` as a wait of any finite length, which `AllResolve` is about.

### Navigation

A visit has two coroutines. `pc[v]` is the await at which `performNavigation(v)`
stands, from `"idle"` (not requested) to `"finished"`; `page[v]` is the progress
of its `page:load` call, which runs beside it. An action takes a coroutine from
one await to the next, with everything the code does in between:

| action | code |
|---|---|
| `Request` = `RequestIdle`, `RequestQueued`, `RequestAborting` | the first lines of `performNavigation`: begin, wait in `onVisitEnd`, or call `visit:abort` |
| `TakeOver` | `visit:abort` has returned: abort `swup.visit`, whichever it is now, take the lock |
| `Start` | `visit:start` has returned: `STARTED`, begin loading, history, await the page or not |
| `Wait`, `Transition`, `Leave` | the awaited page; the first done check and the two kinds of transition; the out animation |
| `Enter`, `Replace`, `Rendered`, `Entered` | `renderPage`, `animatePageIn`, the second done check |
| `Complete` = `ReleaseLock` or `RunQueue` | `COMPLETED`, release the lock, run `onVisitEnd` |
| `PageRejects`, `ContainerMismatch`, `HandlerThrows`, all through `Catch` | the catch and finally blocks |
| `HandlerAborts` | `visit.abort()` in a handler |
| `LoadPage`, `FetchSettles`, `PageArrives` | the loading coroutine and `page.then()` |
| `FallbackLoad` | the popstate event after `history.back()`, with `skipPopStateHandling` overridden |

**The event loop.** Awaiting a hook without handlers is a chain of microtasks,
during which no click, timer or answer comes in. `Parked(v)` says that only a task
can resume the coroutines of `v`; tasks (requests, answers, ends of animations)
happen when everything is parked (`Quiescent`), and otherwise only the coroutine
that is not parked goes on. `HandledHooks` is the set of hooks during which other
code may run: because handlers wait, abort or throw, or because the application
calls `navigate()` in the middle of a task. Two calls of `navigate()` in one task
are therefore behaviours with `visit:start` and `visit:abort` in `HandledHooks`, and
not behaviours without. The order of microtasks within one task is not modelled
beyond this.

Not in this module: URLs and the history (`Session`), classes and content
(`Content`), the options `performNavigation` copies into the visit, scrolling. `wait`
and `animate` are free choices: handlers, options and attributes set them.

### Hooks

The ledger is a set of registrations with their place in the Map. `Begin` takes
the snapshot: `todo[c]` holds the registrations the call has still to run, sorted
by `Precedes`; `below[c]` the replaced handlers the main handler can reach. `call()`
awaits between handlers and interleaves with everything; `callSync()` and the first
handler that runs before are on the JavaScript stack (`stack`), where only the
innermost call proceeds, while the handler itself may register, unregister and
call. `done[c]` is the `done` of the call's visit, read before each handler. An error
of a handler that runs before or after is only logged; one of the main handler ends
the call.

Bounds: `Calls`, `Handlers` and `MaxRegistrations` (calls of `on()`). DOM events,
arguments and results are left out. Registrations carry a `serial` that the code
does not have, so that properties can tell two registrations of one function apart.

### PageLoad

A load is the default handler of `page:load`, or a direct `fetchPage()` call. It
reads the cache, or starts its timer and sends a request. Headers (`Answer`) and
body (`Complete`) arrive separately; the timer is cleared with the headers.
The server answers any URL (a redirect), with a page or an error, and its pages
change (`version`, bounded by `MaxVersion`); plugins write to and empty the cache
at any time, and handlers withdraw `visit.cache.write`. `resolveUrl` is any
idempotent function (`ResolveAssumption`), as a function to a canonical form is;
`prune()`, which resolves its keys a second time, relies on it too.

### Session

`entries` is the session history of the tab, each entry with the URL and the index
that its state holds; `position` is the current one. `location` and `index` are
`swup.location` and `currentHistoryIndex`. A visit has its `url`, `how` it treats the
history (push, replace or popstate) and its `direction`; `incoming` and `visible` are
the URLs of the page that is being rendered and of the content that is shown.

| action | code |
|---|---|
| `Click`, `ClickSelf` | `handleLinkClick`: a link to another page, or to this one with `linkToSelf`; a link to where swup is going already is swallowed (`Underway`) |
| `Navigate` | `swup.navigate()` |
| `PopState`, `PassPopState` | a traversal (`Traverse`) and `handlePopState`, with and without a visit |
| `PopFallback` | a traversal after a visit has failed: `skipPopStateHandling` loads its URL |
| `StartVisit` | `Start` with the record pushed or rewritten and `location` set |
| `EnterVisit`, `ReplaceVisit` | `renderPage`: the redirect; the content |
| `OtherStep` | the steps of Navigation that leave the history alone |

`Push` and `Rewrite` are `createHistoryRecord` and `updateHistoryRecord`: a push drops
the entries ahead, a rewrite keeps the index. A page may be at any URL, that is, every
request may be redirected. `resolveUrl` is any function here.
`passed` remembers that a popstate event was let pass whose entry has another index:
`handlePopState` returns before it looks at the index, and from then on the
properties promise nothing, as the code does not.
Left out: hashes, entries of other scripts, links that are ignored or open in a
new tab (they begin no visit and change nothing). A traversal and its popstate event
are one task; in a browser, traversals may be delayed.

### Lifecycle

The synchronous part of each call is one action (`Enable`, `Destroy`, `Use`, `Unuse`);
`Tick` is the rest of `enable()`, after two frames, `Disable` the rest of `destroy()`,
when the handlers of the disable hook have returned. Calls are counted
(`calls`, bounded by `MaxCalls`) and may overlap in any way: `ticks` and `disabling`
count the calls that are still waiting. `EnableThrows` is `enable()` with a plugin
whose `mount()` throws: listeners and the plugins before it stay. `delegates` counts
the click listeners in the document and `held` says whether `clickDelegate` is
one of them, since a second `enable()` forgets the first. `mounted` and `listed` count
for each plugin; `Unmet` are those with requirements that are not met.
`VisitDone` is what makes the hooks of an instance depend on its visits.
Three history variables say what has happened: `alternating`, that every call was of the
other kind than the one before, none failed, and no plugin was used twice;
`overlapped`, that a call was made before the one before had settled; `skipped`, that an
enable or disable hook found its visit done. `CallsUndoEachOther` promises as much as is
true in each case: that no handler outlives the last `destroy()`, in any overlap; that
listeners and plugins are in step at every moment, if calls alternate; the handlers
too when calls do not overlap, and the classes when no hook was skipped either. Handlers
of the enable and disable hooks that throw, `cache.clear()`, the native option and
`scrollRestoration` are left out.

### Content

The classes of swup on the html element and on each container, the visit each
container's content is from, and the title. `Targets` are those of
`swup.visit`; since all visits take their scope and containers from the options,
they are the same for all. `CleanUp` (a visit takes the lock), `StartPage`, `TransitionPage`
(the out animation), `ReplacePage` (`content:replace`: `Outgoing`, then the
containers and title, then the new ones are marked), `EnteredPage` and `CompletePage`
each are the step of Navigation of that name with what its default handler does.
Containers may be `missing` on the new page or in the document: the others and the
title are replaced all the same, and the visit fails (`ContainerMismatch`).
No handler is assumed (`HandlersAssumption`): with handlers that abort a visit the default handlers would
be skipped as in `Hooks`. Names of animations are one `to-` class; persisted
elements and scrolling are left out.

### AwaitAnimations

An element has a style: for transitions and for animations the lists of delays
and durations and the length of the list of properties, as computed styles have
them. Its motion begins `offset` after the wait, or before. `Parts(e)` and `EndOf`
say when each part ends (CSS), `Timeout`, `Type` and `PropCount` what
`getTransitionInfo()` makes of the lists. `PartEnds` dispatches an end event, on time
or late, or never; `EarlierEnds` is the end of a transition that began before the wait
and is not one of those listed; `Heard` is `onEnd`; `TimerFires` the timer, on
time or late. Time is in whole units up to `Horizon`; the millisecond the code
adds to the timeout is the strict `clock > Timeout(e)`. Iteration counts, negative
delays and the end events of pseudo-elements are outside the model, as the code handles
none of them: that motion is over (`OverWhenResolved`) means the motion that
lists of delays and durations describe, run once.

## The runs

| run | bounds | checks |
|---|---|---|
| `nav_default` | 3 visits, no handled hook | TypeOK, LiveIsCurrent, LatestWins, QueueWaits, ShownNotAborted, DocumentReleased, NoRevival, ImplementsVisitQueue, Settles |
| `nav_handlers` | 3 visits, handlers on `page:load`, `visit:transition`, `content:replace`, `visit:end` | LiveIsCurrent, LatestWins, QueueWaits, NoRevival |
| `hooks_calls` | 2 handlers, 2 calls, 2 registrations, 5 options | TypeOK, OnceIsSpent, NoneLost, RunsInOrder, ReplacersWrapDefault |
| `load_cache` | 2 loads, a URL and its alias, 2 versions, 4 kinds of request | TypeOK, CacheIsFaithful, ReloadIsFresh, SharedPagesAreAnswers |
| `session_history` | 2 visits, 3 URLs of which one is an alias, a tab with 2 entries | SessionTypeOK, IdleAgrees, IndexIsCurrent, IndexesIncrease, DirectionIsTrue |
| `lifecycle` | 1 visit, 4 calls, 3 plugins (configured, added, incompatible) | LifecycleTypeOK, ListedAreMounted, CallsUndoEachOther, DestroyEnds |
| `content` | 3 visits of 3 kinds, 2 containers, both scopes | ContentTypeOK, IdleIsUnmarked, PlainIsUnmarked, LeavingOrRendering, PageIsWhole |
| `animations` | 2 elements, 5 styles, 3 offsets, 4 units of time | TypeOK, OverWhenResolved, TimeoutIsLongest, AllResolve |
| `nav_abort_at_start` | 2 visits, a handler on `visit:start` | LiveIsCurrent is violated |
| `nav_stuck_queue` | 2 visits, no handlers | QueueIsServed is violated |
| `session_back` | 1 visit | BackAtShownPage is violated |
| `lifecycle_destroy` | 1 visit, 4 calls | DestroyRemovesClasses is violated |

Further configurations print a trace of a behaviour described below
(`tlc -config nav_late_abort.cfg MCNavigation`): `nav_late_abort`,
`nav_superseded_failure` and `nav_late_document` (MCNavigation), `hooks_once` and
`hooks_order` (MCHooks), `load_timeout` (MCPageLoad), `content_type` (MCContent),
`animations_late` (MCAwaitAnimations).

Why the bounds suffice: three visits are the least for a visit that runs, one that
waits and one that takes its place, and for a superseded visit that is still alive
while a third one is requested; swup keeps no more of a visit than the lock, the
queue and the visit itself. Two calls of a hook interleave or nest, and two
registrations are the least for an order, for a replacement of a replacement and
for a registration made again; an id in use twice and out of order takes four.
Two loads race for one entry of the cache; the alias makes two URLs with one key;
two versions make a page old. Two visits over two entries give a visit that is
superseded, queued or failed while the user moves, with entries behind, at and ahead
of the current one; each visit can add one entry. Four calls are the least for
`enable()` twice and `destroy()` twice after the constructor's own call; they meet
visits only in whether `swup.visit` is done, so that one visit is enough. The third
visit of `content` meets the leavings of two superseded ones. The styles
have fewer delays than durations, fewer durations than properties, and
transitions longer than, shorter than and as long as animations; elements are waited for
independently, two show that one does not end the wait of the other, and the longest
part takes four units. Deadlock is not checked: every model may stop when
there is nothing left to request.

**Fairness.** `FairSpec` of Navigation assumes weak fairness of each coroutine:
JavaScript runs every promise reaction, timers fire, handlers return, and the
network answers or fails. Nothing else is assumed: no request, abort or popstate
event need happen. `Settles` leaves out the visits behind a lock nothing releases
(`Stuck`), which `nav_stuck_queue` is about. `TimerSpec` of PageLoad assumes only
that timers fire, since a timeout is there for servers that never answer.
`LifecycleSpec` assumes that frames are drawn (`Tick`) and that the handlers of the disable
hook return (`Disable`): then every `destroy()` comes to its end (`DestroyEnds`),
whatever the visits do. `AwaitAnimations` assumes that time passes and timers fire, but of
no end event that it comes: motion of a hidden element is cancelled without one.

## What disagrees with the code

Each violation run is one trace, and so is each of the further configurations.

* A visit aborted during `visit:start` is set to `STARTED` afterwards
  (`navigate.ts:127`) and runs beside its successor.
* A visit whose content comes in during `visit:abort` is aborted although it should
  finish (`navigate.ts:78-80`; `nav_late_abort`).
* A late error of a superseded visit takes the browser back and to the superseded
  URL (`navigate.ts:216-235`; `nav_superseded_failure`).
* A visit that ends in the catch block as aborted, or at a done check after
  `visit.abort()`, keeps the lock; the queue is not run (`navigate.ts:179-221`).
* The page of a visit that ended at a done check stores its document afterwards
  (`navigate.ts:147-151`; `nav_late_document`).
* Overlapping calls run a once handler twice (`Hooks.ts:442`; `hooks_once`).
* Ids repeat after `off()`, so that the order of registration is not kept
  (`Hooks.ts:248`; `hooks_order`).
* The timeout does not cover the body (`fetchPage.ts:79`; `load_timeout`).
* A failed visit goes back in the history although it has pushed no entry: after a
  visit with `history: replace`, to the page itself or from a popstate event, the
  browser is taken off the page that is shown (`navigate.ts:235`; `session_back`).
* `destroy()` after a visit that is done leaves its classes on the html element: the
  disable hook falls back to that visit and skips its handlers (`Hooks.ts:435-441`;
  `lifecycle_destroy`). The enable hook of a later `enable()` is skipped likewise.
* The `is-popstate` class of a superseded animated visit marks the next one
  (`navigate.ts:165`, `:95`; `content_type`).
* The end events are counted against the durations, not the properties, and only
  those of the longer of transitions and animations; the in animation begins two
  frames after the wait for it (`awaitAnimations.ts:16`, `:125`; `animations_late`).

## What is proved

TLAPS checks the following for any number of visits, handlers, calls, loads and URLs.

**Navigation.** `TypeCorrect` holds with any handlers. `OneVisitRuns`
(LiveIsCurrent), `QueueIsOrderly` (QueueWaits), `LatestRequestWins` (LatestWins) and
`DoneForGood` (NoRevival) assume `BeginsUndisturbed`: nothing runs during `visit:start`
and `visit:abort`. Without it they are false (`nav_abort_at_start`). They follow from
`Inductive`, the invariant `IInv`. LiveIsCurrent is not inductive by itself: that
the visit to be aborted still loads when `visit:abort` returns (`AbortsInTime`) needs
that its coroutine could not run meanwhile (`OneRunnable`), and that a starting visit
holds the lock needs that no other request came (`ExclusiveHoldsLock`). LatestWins
needs to know at every moment where the latest request is: about to abort,
waiting or running (`LatestIsKnown`), and that a visit that goes on to its end
has been shown (`RenderedIsShown`).

`DocumentsAreReleased` (DocumentReleased) assumes that nothing disturbs
`visit:transition` and the start of the out animation (`LeavesUndisturbed`): then a
visit cannot end before its page has settled.

`KeepsPromise` proves that Navigation implements `VisitQueue`, action by action, when
no handler runs during `visit:start`, `visit:abort` and `visit:end`
(`EndsUndisturbed`); handlers of all other hooks may wait, throw and abort. It
follows from `IInv` and `CommitInv`: a visit is `ENTERING` only while it renders, and
one that renders is `ENTERING` unless it stands at a hook with handlers. Such a
handler may abort the visit, but a done check or the catch block comes before its
end. After `visit:end` there is none: a visit aborted by a handler of that hook
completes nevertheless, and the abstract queue has no such step.

Two theorems hold with any handlers. `NeverWithoutItsPage`: a live visit at
`content:replace` has its page and the document made of it, so that the early return
of `replaceContent()` without a document is never taken by a visit that goes on; the
document is taken away only when the visit is done. `VisitsMoveOn`: every step of a
visit but an abort takes it further on a way of at most 15 stages (`Travelled`), and
no step of anyone takes a visit back, so that a visit takes finitely many steps. This is
the part of `Settles` that is not about fairness.

**Hooks.** `RegistryHolds` is the invariant of the ledger: serials identify
registrations, so that what a call takes out by its function is the once
registration it runs, or a newer one, but never leaves the spent one behind
(`SpentForGood`, OnceIsSpent). `ProgressHolds` is that of the calls: what a call found
is still to do or done once (`EachRunsOnce`, NoneLost), and the main handler has all
those it replaces below it (`DefaultIsWrapped`, ReplacersWrapDefault). `OrderIsKept`
proves RunsInOrder.

**PageLoad.** `LoadsAreFaithful` is the inductive invariant; it adds to the
properties what is known of loads in flight. From it follow `TypeCorrect`,
`CacheNeverLies` (CacheIsFaithful) and `ReloadsAreFresh` (ReloadIsFresh).
`SharedPages` (SharedPagesAreAnswers) is about two loads: what one is given from the
cache is the whole answer another got and had leave to share, not newer than the
request of the one. The entry may have changed since, so the invariant (`SharedInv`)
follows the page: an entry of the cache that a load made was made with leave
(`CachedWithLeave`, `EntryComesFrom`), and a load that is fulfilled never changes
(`FulfilledStays`).

**What is shown.** `ShownIsNotAborted` (ShownNotAborted) adds to `IInv` that the visit
on the page has its page settled and stands after its rendering (`ShownInv`). It
assumes `BeginsUndisturbed` and that no handler runs between the rendering and
the end of a visit (`ShowsUndisturbed`), since such a handler may abort its visit;
`nav_late_abort` shows that the first is needed.

**Session.** `SessionIsNavigation` proves SessionSpec => Spec, step by step, so that the
theorems about visits hold with a history beside them. `SessionInvariant` is SInv, the
conjunction of SessionTypeOK, IndexIsCurrent and IndexesIncrease
(`SessionTypeCorrect`, `IndexIsThatOfEntry`, `EntriesAreOrdered`): a push keeps the
order only because the index is that of the current entry and the entries ahead
go. `DirectionOfTravel` (DirectionIsTrue) follows from it: comparing two indexes compares
two places. They hold for any handlers, URLs, resolveUrl and tab. `IdleSessionAgrees`
(IdleAgrees) assumes `BeginsUndisturbed`. With a handler of `visit:start` it is
false: the location is old while the handler of a popstate visit is awaited, and a
click on a link to the old page then rewrites the record the visit leads to. Handlers
of later hooks may abort the running visit, and its successor has to find the session
in order: what is known of the running visit (`Agreement`) is known only as long as it
is live or about to complete (`Going`).
What has to be known before the end is in `RunsWell`: the running visit
has the location from its start on, the address bar is at the latest visit's URL
from its popstate event on and at the running one's while no other has been asked
for, and the page being rendered is the one that the location names. That a step
belongs to the latest visit comes from `LatestIsKnown` (`GoesOnAsLatest`), and
that a traversal to the same index is none from SInv (`PassIsSeen`).

**Content.** `ContentIsNavigation` proves ContentSpec => Spec. `ContentInvariant` is CInv:
ContentTypeOK, PageIsWhole and, in `Marked`, for every element which visit its classes
come from: none when swup is idle, is-rendering only once the content is in, and for a
visit without an animation only what it is marked with itself. A visit that changes the
document holds the lock, by the invariant of Navigation (`QInv`, proved for any handlers
of visits that have begun; here there are none), so no class is put back behind clear(). `ContentTypeCorrect`, `IdleLeavesNoMark`
(IdleIsUnmarked), `PlainVisitsRunUnmarked` (PlainIsUnmarked), `LeavesBeforeRendering`
(LeavingOrRendering) and `PagesAreWhole` (PageIsWhole) follow.

**Lifecycle.** `LifecycleTypeCorrect` and `ListedPluginsWork` (ListedAreMounted) hold for
calls in any overlap. `CallsUndo` (CallsUndoEachOther) is proved from `Undone`, which says
what each history leaves: `InStep`, of listeners and plugins while calls alternate;
`Apart`, of handlers and classes in each phase of calls that do not overlap
(`EnabledPhase`, `DestroyedPhase`); and `HandlersAwaitDisable`, in any overlap. Nothing
about the visits is used but that `VisitDone` is true or false. `LifecycleIsNavigation` proves LifecycleSpec => Spec.
`DestroyIsUnderway`: in any overlap, handlers that are there after `destroy()` have a
disable hook under way that will remove them, which is the part of `DestroyEnds` that is
not about fairness.

**AwaitAnimations.** `TimerIsExact` (TimeoutIsLongest) is about the arithmetic of
`getTransitionInfo()`, for lists of any length. `Doubled` is a recursive function over
sequences; that the list it ends with is the given one repeated cyclically, as CSS
repeats it, is proved for every list (`DoubledRepeats`), with a least counterexample in
place of an induction (`LeastNatural`, from the library's `WFMin`). So the maximum the code computes is that of the ends of the parts
(`TimerIsLastEnd`). `WaitInvariant` is `WaitInv`: no more is counted than parts of the
awaited type have ended, each no sooner than it should, and a wait is over by its timer or
by its count. `WaitTypeCorrect` (TypeOK) needs it, since a promise that has resolved
counts no more. For `MotionIsOver` (OverWhenResolved), a full count must mean that all
parts have ended (`AllOfThem`: as many parts of a finite set as it has are all of
them), and the longer motion being over must mean that the other one is.

The proofs assume the named ASSUMEs of the modules, which TLC evaluates for every
run. Only model-checked are the liveness properties `Settles`, `DestroyEnds` and
`AllResolve`, since the prover has neither fairness nor ENABLED. The violation runs show
what is false without the assumptions of the theorems.

## Not modelled

* Persisted elements (`replaceContent.ts:19`, `:41-47`), scrolling (`scrollToContent.ts`,
  `getAnchorElement.ts`): one synchronous step each over the DOM, whose
  outcome nothing else depends on.
* `classify`, `matchPath` and the query helpers: pure functions of the platform's
  strings and patterns. The entry points re-export.
* Header merging, DOM events dispatched by hooks, arguments and results of handlers.
* Hashes, entries of other scripts, and a delay between a traversal and its popstate
  event. The browser's own view transitions are a longer wait.
* The options `performNavigation` copies into the visit: what they set is a free choice
  of the models.

## The plan

Done: Navigation, VisitQueue, Hooks, PageLoad, Session, Lifecycle, Content and
AwaitAnimations, in the order of their weight. What would come next:

1. A composition of Navigation with PageLoad, in which `page[v]` is the load of `v` and
   handlers set `visit.cache`.
2. Persisted elements in `Content`; an abstract specification of the cache that
   `PageLoad` implements.
3. The wrapped order of replacing handlers by priority.
