------------------------------- MODULE PageLoad -------------------------------
(***************************************************************************)
(* Where pages come from: the default handler of page:load, fetchPage() and *)
(* the page cache.  A load reads the cache or sends a request; the answer   *)
(* comes in two parts, headers and body, between which the cache may be     *)
(* written, pruned and emptied by other loads and by plugins.  A load that  *)
(* does not read the cache also stands for a direct call of fetchPage().    *)
(*                                                                          *)
(* The server is the environment: it answers with a page or an error, may   *)
(* redirect, and its pages change; a page is known by the version it had    *)
(* when the server sent it.                                                 *)
(***************************************************************************)
EXTENDS Naturals

CONSTANTS
    Urls,        \* local URLs: path and query (Location.url)
    Loads,       \* the loads a behaviour may begin
    Application, \* the origin of what plugins put into the cache themselves
    Resolve,     \* options.resolveUrl
    Asked,       \* the requests that loads may make
    MaxVersion   \* bound: how often the pages on the server change

(* What a load asks for: options.method, visit.cache.read, options.timeout. *)
Requests == [url : Urls, post : BOOLEAN, read : BOOLEAN, timeout : BOOLEAN]

ASSUME ApplicationAssumption == Application \notin Loads
(* "Rewrite URLs before loading them": to a canonical form. *)
ASSUME ResolveAssumption ==
    /\ Resolve \in [Urls -> Urls]
    /\ \A url \in Urls : Resolve[Resolve[url]] = Resolve[url]
ASSUME AskedAssumption == Asked \subseteq Requests
ASSUME MaxVersionAssumption == MaxVersion \in Nat

VARIABLES
    cache,    \* cache[url]: the page cached for a resolved URL, or NoPage
    stage,    \* stage[l]: the progress of load l
    request,  \* request[l]: what l asks for
    mayWrite, \* mayWrite[l]: visit.cache.write, which handlers may change
    timer,    \* timer[l]: the timeout of l is pending
    answer,   \* answer[l]: what the server has sent to l
    page,     \* page[l]: the page l was fulfilled with
    version,  \* the version of the pages on the server
    since     \* history: the version when l began

vars == <<cache, stage, request, mayWrite, timer, answer, page, version, since>>

(* No HTML at all: undefined in the code. *)
NoHtml == MaxVersion + 1

Pages == [url : Urls, html : 0..NoHtml, via : Loads \cup {Application}]
NoPage == [via |-> "nobody"]

NoRequest == [url |-> "none"]

(* An answer with status 500 or an empty body is an error; a 404 is a page. *)
Answers == [status : {"ok", "error"}, url : Urls, html : 0..MaxVersion]
NoAnswer == [status |-> "none"]

Settled == {"fulfilled", "failed", "aborted", "timedOut"}

-----------------------------------------------------------------------------
(* The cache *)

(* A bug to detect: the URL is not resolved. *)
SetUnresolved(url, p) == [cache EXCEPT ![url] = [p EXCEPT !.url = url]]

(* cache.set(): Location.fromUrl() and resolveUrl() make the key. *)
Set(url, p) == [cache EXCEPT ![Resolve[url]] = [p EXCEPT !.url = Resolve[url]]]

(* A bug to detect: the flag of the visit is not consulted. *)
LookUpAlways(r) == cache[Resolve[r.url]]

LookUp(r) == IF r.read THEN cache[Resolve[r.url]] ELSE NoPage

(* cache.set() of a page that a plugin has made or preloaded itself. *)
CacheSet(url) ==
    /\ cache' = Set(url, [url |-> url, html |-> version, via |-> Application])
    /\ UNCHANGED <<stage, request, mayWrite, timer, answer, page, version,
                   since>>

(* cache.update() with custom data, which is kept here no further: it makes an
   entry where there is none. *)
CacheUpdate(url) ==
    /\ cache[Resolve[url]] = NoPage
    /\ cache' = Set(url, [url |-> url, html |-> NoHtml, via |-> Application])
    /\ UNCHANGED <<stage, request, mayWrite, timer, answer, page, version,
                   since>>

(* cache.delete(), prune() and clear(): any set of entries goes. *)
CacheRemove(urls) ==
    /\ cache' = [url \in Urls |-> IF url \in {Resolve[u] : u \in urls}
                                  THEN NoPage ELSE cache[url]]
    /\ UNCHANGED <<stage, request, mayWrite, timer, answer, page, version,
                   since>>

-----------------------------------------------------------------------------
(* Loads *)

(* The default handler of page:load: fulfilled from the cache, or fetchPage()
   starts its timer and sends the request. *)
Load(l, r, write) ==
    /\ stage[l] = "idle"
    /\ request' = [request EXCEPT ![l] = r]
    /\ mayWrite' = [mayWrite EXCEPT ![l] = write]
    /\ since' = [since EXCEPT ![l] = version]
    /\ \/ /\ LookUp(r) # NoPage
          /\ stage' = [stage EXCEPT ![l] = "fulfilled"]
          /\ page' = [page EXCEPT ![l] = LookUp(r)]
          /\ UNCHANGED timer
       \/ /\ LookUp(r) = NoPage
          /\ stage' = [stage EXCEPT ![l] = "requested"]
          /\ timer' = [timer EXCEPT ![l] = r.timeout]
          /\ UNCHANGED page
    /\ UNCHANGED <<cache, answer, version>>

(* A handler takes back the visit's permission to write to the cache. *)
ForbidWrite(l) ==
    /\ stage[l] \in {"requested", "answered"}
    /\ mayWrite[l]
    /\ mayWrite' = [mayWrite EXCEPT ![l] = FALSE]
    /\ UNCHANGED <<cache, stage, request, timer, answer, page, version, since>>

(* fetch() resolves as soon as the headers are here; the timer is cleared. *)
Answer(l, status, url) ==
    /\ stage[l] = "requested"
    /\ stage' = [stage EXCEPT ![l] = "answered"]
    /\ answer' = [answer EXCEPT ![l] =
                     [status |-> status, url |-> url, html |-> version]]
    /\ timer' = [timer EXCEPT ![l] = FALSE]
    /\ UNCHANGED <<cache, request, mayWrite, page, version, since>>

(* fetch() or response.text() rejects. *)
NetworkFails(l) ==
    /\ stage[l] \in {"requested", "answered"}
    /\ \/ stage' = [stage EXCEPT ![l] = "failed"]
       \/ stage[l] = "requested" /\ stage' = [stage EXCEPT ![l] = "aborted"]
    /\ UNCHANGED <<cache, request, mayWrite, timer, answer, page, version,
                   since>>

(* controller.abort(): only a fetch() in progress notices. *)
TimerFires(l) ==
    /\ timer[l]
    /\ timer' = [timer EXCEPT ![l] = FALSE]
    /\ stage' = IF stage[l] = "requested"
                THEN [stage EXCEPT ![l] = "timedOut"] ELSE stage
    /\ UNCHANGED <<cache, request, mayWrite, answer, page, version, since>>

(* Bugs to detect: a redirected page, or the answer to a form, is cached. *)
CachesRedirects(l) == mayWrite[l] /\ ~request[l].post
CachesForms(l) == mayWrite[l] /\ answer[l].url = request[l].url

(* "Write to cache for safe methods and non-redirects." *)
Caches(l) ==
    /\ mayWrite[l]
    /\ ~request[l].post
    /\ answer[l].url = request[l].url

(* What fetchPage() returns, under the URL after redirects. *)
Received(l) ==
    [url |-> answer[l].url, html |-> answer[l].html, via |-> l]

(* The body is complete: an error, or a page, cached under the URL it has. *)
Complete(l) ==
    /\ stage[l] = "answered"
    /\ \/ /\ answer[l].status # "ok"
          /\ stage' = [stage EXCEPT ![l] = "failed"]
          /\ UNCHANGED <<cache, page>>
       \/ /\ answer[l].status = "ok"
          /\ stage' = [stage EXCEPT ![l] = "fulfilled"]
          /\ page' = [page EXCEPT ![l] = Received(l)]
          /\ cache' = IF Caches(l) THEN Set(answer[l].url, Received(l))
                                   ELSE cache
    /\ UNCHANGED <<request, mayWrite, timer, answer, version, since>>

ServerChanges ==
    /\ version < MaxVersion
    /\ version' = version + 1
    /\ UNCHANGED <<cache, stage, request, mayWrite, timer, answer, page, since>>

-----------------------------------------------------------------------------
Init ==
    /\ cache = [url \in Urls |-> NoPage]
    /\ stage = [l \in Loads |-> "idle"]
    /\ request = [l \in Loads |-> NoRequest]
    /\ mayWrite = [l \in Loads |-> FALSE]
    /\ timer = [l \in Loads |-> FALSE]
    /\ answer = [l \in Loads |-> NoAnswer]
    /\ page = [l \in Loads |-> NoPage]
    /\ version = 0
    /\ since = [l \in Loads |-> 0]

ServerAnswers(l) ==
    \/ \E status \in {"ok", "error"}, url \in Urls : Answer(l, status, url)
    \/ Complete(l)
    \/ NetworkFails(l)

Next ==
    \/ \E url \in Urls : CacheSet(url) \/ CacheUpdate(url)
    \/ \E urls \in SUBSET Urls : CacheRemove(urls)
    \/ \E l \in Loads :
          \/ \E r \in Asked, write \in BOOLEAN : Load(l, r, write)
          \/ ForbidWrite(l)
          \/ ServerAnswers(l)
          \/ TimerFires(l)
    \/ ServerChanges

Spec == Init /\ [][Next]_vars

(* Timers fire; whether the network ever answers is not in the code's hands. *)
TimerFairness == \A l \in Loads : WF_vars(TimerFires(l))
TimerSpec == Spec /\ TimerFairness

-----------------------------------------------------------------------------
(* Properties *)

(* The types of the cache and of the loads; the cache is keyed by resolved URLs
   and a cached page carries the URL it is cached for. *)
TypeOK ==
    /\ cache \in [Urls -> Pages \cup {NoPage}]
    /\ \A url \in Urls : cache[url] # NoPage =>
          cache[url].url = url /\ Resolve[url] = url
    /\ stage \in [Loads -> {"idle", "requested", "answered"} \cup Settled]
    /\ request \in [Loads -> Requests \cup {NoRequest}]
    /\ mayWrite \in [Loads -> BOOLEAN]
    /\ timer \in [Loads -> BOOLEAN]
    /\ answer \in [Loads -> Answers \cup {NoAnswer}]
    /\ page \in [Loads -> Pages \cup {NoPage}]
    /\ version \in 0..MaxVersion
    /\ since \in [Loads -> 0..MaxVersion]

(* Every page a load has put into the cache answers for the URL it is found
   under: it was requested by GET for a URL that resolves to this one, and was
   neither an error nor redirected from elsewhere (fetchPage.ts:95-110). *)
CacheIsFaithful ==
    \A url \in Urls :
        cache[url] # NoPage /\ cache[url].via \in Loads =>
            LET l == cache[url].via
            IN  /\ stage[l] = "fulfilled"
                /\ ~request[l].post
                /\ Resolve[request[l].url] = url
                /\ answer[l].url = request[l].url
                /\ answer[l].status = "ok"
                /\ cache[url].html = answer[l].html

(* A load that may not read the cache is given a page the server sent after the
   load began, never an older one, whatever others cache meanwhile. *)
ReloadIsFresh ==
    \A l \in Loads :
        stage[l] = "fulfilled" /\ ~request[l].read =>
            page[l].via = l /\ page[l].html >= since[l]

(* A page that one load has from another through the cache is what the server
   answered to a GET for an equivalent URL, after the other load began and before
   this one did: never the answer to a form, nor a redirected page, nor one whose
   visit lost its leave to cache it while it was on its way (navigate.ts:133,
   fetchPage.ts:95-110). *)
SharedPagesAreAnswers ==
    \A l \in Loads :
        stage[l] = "fulfilled" /\ page[l].via \in Loads \ {l} =>
            LET k == page[l].via
            IN  /\ request[l].read
                /\ page[l].url = Resolve[request[l].url]
                /\ Resolve[request[k].url] = Resolve[request[l].url]
                /\ stage[k] = "fulfilled"
                /\ ~request[k].post
                /\ mayWrite[k]
                /\ answer[k].status = "ok"
                /\ answer[k].url = request[k].url
                /\ page[l].html = answer[k].html
                /\ page[l].html \in since[k]..since[l]

(* "The request timeout in milliseconds" (fetchPage.ts:19): a request with a
   timeout comes to an end, even if the server falls silent. *)
TimeoutEndsRequest ==
    \A l \in Loads :
        stage[l] = "requested" /\ timer[l] ~> stage[l] \in Settled
=============================================================================
