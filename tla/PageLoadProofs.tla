---------------------------- MODULE PageLoadProofs ----------------------------
(***************************************************************************)
(* What the cache holds and what a load is fulfilled with, for any URLs,    *)
(* any way to resolve them and any number of loads.                         *)
(*                                                                          *)
(* Faithful is the inductive invariant: CacheIsFaithful and ReloadIsFresh   *)
(* speak of loads that are fulfilled, so it adds what is known of a load on *)
(* its way there: the request it has made, and an answer no older than it.  *)
(***************************************************************************)
EXTENDS PageLoad, TLAPS

HasAsked == \A l \in Loads : stage[l] # "idle" => request[l] \in Requests

AnswerIsFresh ==
    \A l \in Loads :
        stage[l] = "answered" =>
            answer[l] \in Answers /\ answer[l].html >= since[l]

(* The server's pages do not change back. *)
SinceBound == \A l \in Loads : since[l] =< version

Faithful ==
    /\ TypeOK
    /\ SinceBound
    /\ HasAsked
    /\ AnswerIsFresh
    /\ CacheIsFaithful
    /\ ReloadIsFresh

-----------------------------------------------------------------------------
(* An empty cache and no load. *)
LEMMA InitFaithful == Init => Faithful
<1> USE ResolveAssumption, AskedAssumption, MaxVersionAssumption
<1> SUFFICES ASSUME Init PROVE Faithful
  OBVIOUS
<1>1. TypeOK
  BY DEF Init, TypeOK
<1>2. SinceBound /\ HasAsked /\ AnswerIsFresh /\ CacheIsFaithful /\ ReloadIsFresh
  BY DEF Init, SinceBound, HasAsked, AnswerIsFresh, CacheIsFaithful, ReloadIsFresh
<1> QED
  BY <1>1, <1>2 DEF Faithful

(* An entry of the cache after set(): the new page, or what was there. *)
LEMMA SetEntry ==
    ASSUME TypeOK, NEW url \in Urls, NEW p \in Pages, cache' = Set(url, p)
    PROVE  /\ cache' \in [Urls -> Pages \cup {NoPage}]
           /\ cache'[Resolve[url]] = [p EXCEPT !.url = Resolve[url]]
           /\ \A u \in Urls : u # Resolve[url] => cache'[u] = cache[u]
<1>1. Resolve[url] \in Urls
  BY ResolveAssumption
<1>2. [p EXCEPT !.url = Resolve[url]] \in Pages
  BY <1>1 DEF Pages
<1> QED
  BY <1>1, <1>2 DEF Set, TypeOK

(* set() keeps the cache keyed by resolved URLs. *)
LEMMA SetKeepsType ==
    ASSUME TypeOK, NEW url \in Urls, NEW p \in Pages, cache' = Set(url, p)
    PROVE  /\ cache' \in [Urls -> Pages \cup {NoPage}]
           /\ \A u \in Urls : cache'[u] # NoPage =>
                 cache'[u].url = u /\ Resolve[u] = u
<1>1. cache' \in [Urls -> Pages \cup {NoPage}]
  BY SetEntry
<1>2. ASSUME NEW u \in Urls, cache'[u] # NoPage
      PROVE  cache'[u].url = u /\ Resolve[u] = u
  <2>1. CASE u = Resolve[url]
    <3>1. cache'[u] = [p EXCEPT !.url = u]
      BY <2>1, SetEntry
    <3>2. cache'[u].url = u
      BY <3>1 DEF Pages
    <3> QED
      BY <2>1, <3>2, ResolveAssumption
  <2>2. CASE u # Resolve[url]
    <3>1. cache'[u] = cache[u]
      BY <2>2, SetEntry
    <3> QED
      BY <1>2, <3>1 DEF TypeOK
  <2> QED
    BY <2>1, <2>2
<1> QED
  BY <1>1, <1>2

-----------------------------------------------------------------------------
(* Steps of the application on the cache. *)
LEMMA CacheStepFaithful ==
    ASSUME Faithful,
           \/ \E url \in Urls : CacheSet(url) \/ CacheUpdate(url)
           \/ \E urls \in SUBSET Urls : CacheRemove(urls)
    PROVE  Faithful'
<1> USE ResolveAssumption, MaxVersionAssumption, ApplicationAssumption
<1>0. TypeOK /\ CacheIsFaithful
  BY DEF Faithful
<1>1. UNCHANGED <<stage, request, mayWrite, timer, answer, page, version,
                  since>>
  BY DEF CacheSet, CacheUpdate, CacheRemove
<1>2. /\ cache' \in [Urls -> Pages \cup {NoPage}]
      /\ \A u \in Urls : cache'[u] # NoPage =>
            cache'[u].url = u /\ Resolve[u] = u
      /\ \A u \in Urls : cache'[u] # NoPage /\ cache'[u].via \in Loads =>
            cache'[u] = cache[u]
  <2>1. ASSUME NEW url \in Urls, NEW p \in Pages, p.via = Application,
               cache' = Set(url, p)
        PROVE  <1>2!1 /\ <1>2!2 /\ <1>2!3
    <3>1. <1>2!1 /\ <1>2!2
      BY <1>0, <2>1, SetKeepsType
    <3>2. ASSUME NEW u \in Urls, cache'[u].via \in Loads
          PROVE  cache'[u] = cache[u]
      <4>1. CASE u = Resolve[url]
        <5>1. cache'[u] = [p EXCEPT !.url = u]
          BY <1>0, <2>1, <4>1, SetEntry
        <5>2. cache'[u].via = Application
          BY <2>1, <5>1 DEF Pages
        <5> QED
          BY <3>2, <5>2
      <4>2. CASE u # Resolve[url]
        BY <1>0, <2>1, <4>2, SetEntry
      <4> QED
        BY <4>1, <4>2
    <3> QED
      BY <3>1, <3>2
  <2>2. ASSUME NEW url \in Urls, CacheSet(url)
        PROVE  <1>2!1 /\ <1>2!2 /\ <1>2!3
    <3> DEFINE p == [url |-> url, html |-> version, via |-> Application]
    <3>1. p \in Pages /\ p.via = Application
      BY <1>0 DEF TypeOK, Pages, NoHtml
    <3>2. cache' = Set(url, p)
      BY <2>2 DEF CacheSet
    <3> HIDE DEF p
    <3> QED
      BY <2>1, <3>1, <3>2
  <2>3. ASSUME NEW url \in Urls, CacheUpdate(url)
        PROVE  <1>2!1 /\ <1>2!2 /\ <1>2!3
    <3> DEFINE p == [url |-> url, html |-> NoHtml, via |-> Application]
    <3>1. p \in Pages /\ p.via = Application
      BY DEF Pages, NoHtml
    <3>2. cache' = Set(url, p)
      BY <2>3 DEF CacheUpdate
    <3> HIDE DEF p
    <3> QED
      BY <2>1, <3>1, <3>2
  <2>4. ASSUME NEW urls \in SUBSET Urls, CacheRemove(urls)
        PROVE  <1>2!1 /\ <1>2!2 /\ <1>2!3
    <3>1. \A u \in Urls : cache'[u] = NoPage \/ cache'[u] = cache[u]
      BY <2>4 DEF CacheRemove
    <3>2. cache' \in [Urls -> Pages \cup {NoPage}]
      BY <1>0, <2>4 DEF CacheRemove, TypeOK
    <3> QED
      BY <1>0, <3>1, <3>2 DEF TypeOK
  <2> QED
    BY <2>2, <2>3, <2>4
<1>3. TypeOK'
  BY <1>0, <1>1, <1>2 DEF TypeOK
<1>4. SinceBound' /\ HasAsked' /\ AnswerIsFresh' /\ ReloadIsFresh'
  BY <1>1 DEF Faithful, SinceBound, HasAsked, AnswerIsFresh, ReloadIsFresh
<1>5. CacheIsFaithful'
  BY <1>0, <1>1, <1>2 DEF CacheIsFaithful
<1> QED
  BY <1>3, <1>4, <1>5 DEF Faithful

(* A load begins. *)
LEMMA LoadFaithful ==
    ASSUME Faithful, NEW l \in Loads, NEW r \in Asked, NEW write \in BOOLEAN,
           Load(l, r, write)
    PROVE  Faithful'
<1> USE ResolveAssumption, AskedAssumption, MaxVersionAssumption
<1>0. TypeOK /\ HasAsked /\ AnswerIsFresh /\ CacheIsFaithful /\ ReloadIsFresh
  BY DEF Faithful
<1>1. r \in Requests /\ r.read \in BOOLEAN /\ r.timeout \in BOOLEAN
      /\ r.url \in Urls
  BY DEF Requests
<1>2. LookUp(r) \in Pages \cup {NoPage}
  BY <1>0, <1>1 DEF LookUp, TypeOK
<1>3. TypeOK'
  <2>1. page' \in [Loads -> Pages \cup {NoPage}]
    BY <1>0, <1>2 DEF Load, TypeOK
  <2> QED
    BY <1>0, <1>1, <2>1 DEF Load, TypeOK, Settled
<1>4. /\ request'[l] = r /\ stage[l] = "idle"
      /\ stage'[l] \in {"requested", "fulfilled"}
      /\ stage'[l] = "fulfilled" => LookUp(r) # NoPage
      /\ \A k \in Loads : k # l =>
            /\ stage'[k] = stage[k]
            /\ request'[k] = request[k]
            /\ since'[k] = since[k]
            /\ page'[k] = page[k]
      /\ UNCHANGED <<cache, answer, version>>
  BY <1>0 DEF Load, TypeOK
<1>5. HasAsked'
  BY <1>0, <1>1, <1>4 DEF HasAsked
<1>6. AnswerIsFresh'
  BY <1>0, <1>4 DEF AnswerIsFresh
<1>7. CacheIsFaithful'
  BY <1>0, <1>4 DEF CacheIsFaithful
<1>8. ReloadIsFresh'
  <2>1. stage'[l] = "fulfilled" => request'[l].read
    BY <1>1, <1>4 DEF LookUp
  <2> QED
    BY <1>0, <1>4, <2>1 DEF ReloadIsFresh
<1>9. SinceBound'
  <2>1. version \in Nat /\ since'[l] = version
    BY <1>0 DEF Load, TypeOK
  <2> QED
    BY <1>4, <2>1 DEF Faithful, SinceBound
<1> QED
  BY <1>3, <1>5, <1>6, <1>7, <1>8, <1>9 DEF Faithful

(* The server answers. *)
LEMMA AnswerFaithful ==
    ASSUME Faithful, NEW l \in Loads, NEW status \in {"ok", "error"},
           NEW url \in Urls, Answer(l, status, url)
    PROVE  Faithful'
<1> USE MaxVersionAssumption
<1>0. TypeOK /\ HasAsked /\ AnswerIsFresh /\ CacheIsFaithful /\ ReloadIsFresh
  BY DEF Faithful
<1> DEFINE a == [status |-> status, url |-> url, html |-> version]
<1>1. a \in Answers /\ a.html = version
  BY <1>0 DEF Answers, TypeOK
<1>2. /\ stage[l] = "requested" /\ stage'[l] = "answered"
      /\ answer'[l] = a
      /\ \A k \in Loads : k # l => stage'[k] = stage[k] /\ answer'[k] = answer[k]
      /\ UNCHANGED <<cache, request, mayWrite, page, version, since>>
  BY <1>0 DEF Answer, TypeOK
<1>3. answer' = [answer EXCEPT ![l] = a]
  BY DEF Answer
<1> HIDE DEF a
<1>4. TypeOK'
  <2>1. answer' \in [Loads -> Answers \cup {NoAnswer}]
    BY <1>0, <1>1, <1>3 DEF TypeOK
  <2> QED
    BY <1>0, <2>1 DEF Answer, TypeOK, Settled
<1>5. HasAsked'
  BY <1>0, <1>2 DEF HasAsked
<1>6. AnswerIsFresh'
  <2>1. since[l] =< version
    <3>1. SinceBound
      BY DEF Faithful
    <3> QED
      BY <3>1 DEF SinceBound
  <2> QED
    BY <1>0, <1>1, <1>2, <2>1 DEF AnswerIsFresh
<1>7. CacheIsFaithful'
  BY <1>0, <1>2 DEF CacheIsFaithful
<1>8. ReloadIsFresh'
  BY <1>0, <1>2 DEF ReloadIsFresh
<1>9. SinceBound'
  BY <1>2 DEF Faithful, SinceBound
<1> QED
  BY <1>4, <1>5, <1>6, <1>7, <1>8, <1>9 DEF Faithful

(* The body is complete: the only step of a load that writes to the cache. *)
LEMMA CompleteFaithful ==
    ASSUME Faithful, NEW l \in Loads, Complete(l)
    PROVE  Faithful'
<1> USE ResolveAssumption, MaxVersionAssumption
<1>0. TypeOK /\ HasAsked /\ AnswerIsFresh /\ CacheIsFaithful /\ ReloadIsFresh
      /\ SinceBound
  BY DEF Faithful
<1>1. stage[l] = "answered" /\ stage'[l] \in Settled
      /\ (\A k \in Loads : k # l => stage'[k] = stage[k] /\ page'[k] = page[k])
      /\ UNCHANGED <<request, mayWrite, timer, answer, version, since>>
      /\ stage' \in [Loads -> {"idle", "requested", "answered"} \cup Settled]
  BY <1>0 DEF Complete, TypeOK, Settled
<1>2. /\ answer[l] \in Answers
      /\ answer[l].url \in Urls
      /\ answer[l].html \in 0..MaxVersion
      /\ answer[l].html >= since[l]
  BY <1>0, <1>1 DEF AnswerIsFresh, Answers
<1>3. Received(l) \in Pages /\ Received(l).via = l
      /\ Received(l).html = answer[l].html
  BY <1>2 DEF Received, Pages, NoHtml
<1>4. HasAsked' /\ SinceBound'
  BY <1>0, <1>1 DEF HasAsked, SinceBound
<1>5. AnswerIsFresh'
  BY <1>0, <1>1 DEF AnswerIsFresh, Settled
<1>6. CASE answer[l].status # "ok"
  <2>1. stage'[l] = "failed" /\ UNCHANGED <<cache, page>>
    BY <1>0, <1>6 DEF Complete, TypeOK
  <2>2. TypeOK'
    BY <1>0, <1>1, <2>1 DEF TypeOK
  <2>3. CacheIsFaithful' /\ ReloadIsFresh'
    BY <1>0, <1>1, <2>1 DEF CacheIsFaithful, ReloadIsFresh
  <2> QED
    BY <1>4, <1>5, <2>2, <2>3 DEF Faithful
<1>7. CASE answer[l].status = "ok"
  <2>1. /\ stage'[l] = "fulfilled"
        /\ page' = [page EXCEPT ![l] = Received(l)]
        /\ page'[l] = Received(l)
        /\ cache' = IF Caches(l) THEN Set(answer[l].url, Received(l)) ELSE cache
    BY <1>0, <1>7 DEF Complete, TypeOK
  <2>2. ReloadIsFresh'
    BY <1>0, <1>1, <1>2, <1>3, <2>1 DEF ReloadIsFresh
  <2>3. page' \in [Loads -> Pages \cup {NoPage}]
    BY <1>0, <1>3, <2>1 DEF TypeOK
  <2>4. CASE ~Caches(l)
    <3>1. cache' = cache
      BY <2>1, <2>4
    <3>2. TypeOK'
      BY <1>0, <1>1, <2>3, <3>1 DEF TypeOK
    <3>3. CacheIsFaithful'
      BY <1>0, <1>1, <3>1 DEF CacheIsFaithful
    <3> QED
      BY <1>4, <1>5, <2>2, <3>2, <3>3 DEF Faithful
  <2>5. CASE Caches(l)
    <3>1. cache' = Set(answer[l].url, Received(l))
      BY <2>1, <2>5
    <3>2. TypeOK'
      <4>1. /\ cache' \in [Urls -> Pages \cup {NoPage}]
            /\ \A u \in Urls : cache'[u] # NoPage =>
                  cache'[u].url = u /\ Resolve[u] = u
        BY <1>0, <1>2, <1>3, <3>1, SetKeepsType
      <4> QED
        BY <1>0, <1>1, <2>3, <4>1 DEF TypeOK
    <3>3. CacheIsFaithful'
      <4> SUFFICES ASSUME NEW u \in Urls, cache'[u] # NoPage,
                          cache'[u].via \in Loads
                   PROVE  LET k == cache'[u].via
                          IN  /\ stage'[k] = "fulfilled"
                              /\ ~request'[k].post
                              /\ Resolve[request'[k].url] = u
                              /\ answer'[k].url = request'[k].url
                              /\ answer'[k].status = "ok"
                              /\ cache'[u].html = answer'[k].html
        BY DEF CacheIsFaithful
      <4>1. CASE u = Resolve[answer[l].url]
        <5>1. cache'[u] = [Received(l) EXCEPT !.url = Resolve[answer[l].url]]
          BY <1>0, <1>2, <1>3, <3>1, <4>1, SetEntry
        <5>2. cache'[u].via = l /\ cache'[u].html = answer[l].html
          BY <1>3, <5>1 DEF Pages
        <5>3. ~request[l].post /\ answer[l].url = request[l].url
          BY <2>5 DEF Caches
        <5> QED
          BY <1>1, <1>7, <2>1, <4>1, <5>2, <5>3
      <4>2. CASE u # Resolve[answer[l].url]
        <5>1. cache'[u] = cache[u]
          BY <1>0, <1>2, <1>3, <3>1, <4>2, SetEntry
        <5> QED
          BY <1>0, <1>1, <2>1, <5>1 DEF CacheIsFaithful
      <4> QED
        BY <4>1, <4>2
    <3> QED
      BY <1>4, <1>5, <2>2, <3>2, <3>3 DEF Faithful
  <2> QED
    BY <2>4, <2>5
<1> QED
  BY <1>6, <1>7

(* The steps that only give up permissions and timers, or end a load. *)
LEMMA EndFaithful ==
    ASSUME Faithful, NEW l \in Loads,
           ForbidWrite(l) \/ NetworkFails(l) \/ TimerFires(l)
    PROVE  Faithful'
<1>0. TypeOK /\ HasAsked /\ AnswerIsFresh /\ CacheIsFaithful /\ ReloadIsFresh
      /\ SinceBound
  BY DEF Faithful
<1>1. /\ \A k \in Loads :
            \/ stage'[k] = stage[k]
            \/ /\ stage[k] \in {"requested", "answered"}
               /\ stage'[k] \in {"failed", "aborted", "timedOut"}
      /\ UNCHANGED <<cache, request, answer, page, version, since>>
  BY <1>0 DEF ForbidWrite, NetworkFails, TimerFires, TypeOK
<1>2. TypeOK'
  BY <1>0 DEF ForbidWrite, NetworkFails, TimerFires, TypeOK, Settled
<1>3. HasAsked' /\ AnswerIsFresh' /\ SinceBound'
  BY <1>0, <1>1 DEF HasAsked, AnswerIsFresh, SinceBound
<1>4. CacheIsFaithful' /\ ReloadIsFresh'
  BY <1>0, <1>1 DEF CacheIsFaithful, ReloadIsFresh
<1> QED
  BY <1>2, <1>3, <1>4 DEF Faithful

(* The pages on the server change. *)
LEMMA ServerFaithful == Faithful /\ ServerChanges => Faithful'
<1> SUFFICES ASSUME Faithful, ServerChanges PROVE Faithful'
  OBVIOUS
<1>0. TypeOK /\ SinceBound
  BY DEF Faithful
<1>1. TypeOK' /\ SinceBound'
  BY <1>0, MaxVersionAssumption DEF ServerChanges, TypeOK, SinceBound
<1>2. HasAsked' /\ AnswerIsFresh' /\ CacheIsFaithful' /\ ReloadIsFresh'
  BY DEF ServerChanges, Faithful, HasAsked, AnswerIsFresh, CacheIsFaithful,
         ReloadIsFresh
<1> QED
  BY <1>1, <1>2 DEF Faithful

-----------------------------------------------------------------------------
(* Every step of a load, the server or a plugin preserves the invariant. *)
LEMMA StepFaithful == Faithful /\ [Next]_vars => Faithful'
<1> SUFFICES ASSUME Faithful, [Next]_vars PROVE Faithful'
  OBVIOUS
<1>1. CASE \/ \E url \in Urls : CacheSet(url) \/ CacheUpdate(url)
           \/ \E urls \in SUBSET Urls : CacheRemove(urls)
  BY <1>1, CacheStepFaithful
<1>2. ASSUME NEW l \in Loads, NEW r \in Asked, NEW write \in BOOLEAN,
             Load(l, r, write)
      PROVE  Faithful'
  BY <1>2, LoadFaithful
<1>3. ASSUME NEW l \in Loads, ForbidWrite(l) \/ NetworkFails(l) \/ TimerFires(l)
      PROVE  Faithful'
  BY <1>3, EndFaithful
<1>4. ASSUME NEW l \in Loads, NEW status \in {"ok", "error"}, NEW url \in Urls,
             Answer(l, status, url)
      PROVE  Faithful'
  BY <1>4, AnswerFaithful
<1>5. ASSUME NEW l \in Loads, Complete(l) PROVE Faithful'
  BY <1>5, CompleteFaithful
<1>6. CASE ServerChanges
  BY <1>6, ServerFaithful
<1>7. CASE UNCHANGED vars
  BY <1>7 DEF vars, Faithful, TypeOK, SinceBound, HasAsked, AnswerIsFresh,
              CacheIsFaithful, ReloadIsFresh
<1> QED
  BY <1>1, <1>2, <1>3, <1>4, <1>5, <1>6, <1>7 DEF Next, ServerAnswers

(* The invariant of the cache and the loads (fetchPage, Cache.set). *)
THEOREM LoadsAreFaithful == Spec => []Faithful
<1>1. Init => Faithful
  BY InitFaithful
<1>2. Faithful /\ [Next]_vars => Faithful'
  BY StepFaithful
<1> QED
  BY <1>1, <1>2, PTL DEF Spec

(* The types, and the cache keyed by resolved URLs, in every state. *)
THEOREM TypeCorrect == Spec => []TypeOK
<1>1. Faithful => TypeOK
  BY DEF Faithful
<1> QED
  BY <1>1, LoadsAreFaithful, PTL

(* No load ever caches an error, a form's answer or a redirected page under a
   URL it does not belong to (fetchPage.ts:95-110), for any resolveUrl that maps
   to canonical URLs. *)
THEOREM CacheNeverLies == Spec => []CacheIsFaithful
<1>1. Faithful => CacheIsFaithful
  BY DEF Faithful
<1> QED
  BY <1>1, LoadsAreFaithful, PTL

(* With cache.read off, visitors see what the server sends from now on. *)
THEOREM ReloadsAreFresh == Spec => []ReloadIsFresh
<1>1. Faithful => ReloadIsFresh
  BY DEF Faithful
<1> QED
  BY <1>1, LoadsAreFaithful, PTL

-----------------------------------------------------------------------------
(* What loads have from one another, through the cache *)

(* What load k sent and had leave for, when its page p was cached. *)
CachedWithLeave ==
    \A url \in Urls :
        cache[url] # NoPage /\ cache[url].via \in Loads =>
            LET k == cache[url].via
            IN  mayWrite[k] /\ cache[url].html \in since[k]..version

AnswerIsPast ==
    \A l \in Loads : stage[l] = "answered" => answer[l].html =< version

SharedInv ==
    /\ CachedWithLeave
    /\ AnswerIsPast
    /\ SharedPagesAreAnswers

(* An entry of the cache stays, goes, or is new: made by the application, or by a
   load that is complete and had leave. *)
LEMMA EntryComesFrom ==
    ASSUME Faithful, Next, NEW url \in Urls,
           cache'[url] # NoPage, cache'[url].via \in Loads
    PROVE  \/ cache'[url] = cache[url]
           \/ /\ cache'[url].via \in Loads
              /\ LET k == cache'[url].via
                 IN  /\ Complete(k) /\ Caches(k) /\ stage[k] = "answered"
                     /\ cache'[url].html = answer[k].html
<1>0. TypeOK /\ AnswerIsFresh
  BY DEF Faithful
<1> DEFINE Stays == cache'[url] = cache[url]
<1>1. ASSUME NEW u \in Urls, NEW p \in Pages, cache' = Set(u, p)
      PROVE  Stays \/ (cache'[url].via = p.via /\ cache'[url].html = p.html)
  <2>1. CASE url = Resolve[u]
    <3>1. cache'[url] = [p EXCEPT !.url = url]
      BY <1>0, <1>1, <2>1, SetEntry
    <3> QED
      BY <3>1 DEF Pages
  <2>2. CASE url # Resolve[u]
    BY <1>0, <1>1, <2>2, SetEntry
  <2> QED
    BY <2>1, <2>2
<1>2. CASE \E u \in Urls : CacheSet(u) \/ CacheUpdate(u)
  <2>1. PICK u \in Urls : CacheSet(u) \/ CacheUpdate(u)
    BY <1>2
  <2> DEFINE p(html) == [url |-> u, html |-> html, via |-> Application]
  <2>2. cache' = Set(u, p(version)) \/ cache' = Set(u, p(NoHtml))
    BY <2>1 DEF CacheSet, CacheUpdate
  <2>3. \A html \in 0..NoHtml : p(html) \in Pages /\ p(html).via = Application
    BY DEF Pages
  <2>4. version \in 0..NoHtml /\ NoHtml \in 0..NoHtml
    BY <1>0, MaxVersionAssumption DEF TypeOK, NoHtml
  <2> HIDE DEF p, Stays
  <2>5. Stays \/ cache'[url].via = Application
    BY <1>1, <2>2, <2>3, <2>4
  <2> QED
    BY <2>5, ApplicationAssumption DEF Stays
<1>3. CASE \E urls \in SUBSET Urls : CacheRemove(urls)
  BY <1>3 DEF CacheRemove
<1>4. ASSUME NEW k \in Loads, Complete(k), ~Stays
      PROVE  /\ cache'[url].via = k /\ Caches(k) /\ stage[k] = "answered"
             /\ cache'[url].html = answer[k].html
  <2>1. stage[k] = "answered" /\ Caches(k)
        /\ cache' = Set(answer[k].url, Received(k))
    BY <1>4 DEF Complete
  <2>2. /\ answer[k].url \in Urls /\ Received(k) \in Pages
        /\ Received(k).via = k /\ Received(k).html = answer[k].html
    BY <1>0, <2>1, MaxVersionAssumption
       DEF AnswerIsFresh, Answers, Received, Pages, NoHtml
  <2> HIDE DEF Stays
  <2> QED
    BY <1>1, <1>4, <2>1, <2>2
<1>5. CASE UNCHANGED cache
  BY <1>5
<1> QED
  BY <1>2, <1>3, <1>4, <1>5
     DEF Next, ServerAnswers, Load, ForbidWrite, Answer, NetworkFails,
         TimerFires, ServerChanges

(* Nothing becomes of a load that is fulfilled, and nobody reads its cache for
   it a second time. *)
LEMMA FulfilledStays ==
    ASSUME TypeOK, Next, NEW k \in Loads, stage[k] = "fulfilled"
    PROVE  /\ stage'[k] = "fulfilled"
           /\ page'[k] = page[k]
           /\ request'[k] = request[k]
           /\ mayWrite'[k] = mayWrite[k]
           /\ answer'[k] = answer[k]
           /\ since'[k] = since[k]
<1>1. ASSUME NEW l \in Loads, l # k,
             \/ \E r \in Asked, write \in BOOLEAN : Load(l, r, write)
             \/ ForbidWrite(l) \/ ServerAnswers(l)
      PROVE  /\ stage'[k] = stage[k] /\ page'[k] = page[k]
             /\ request'[k] = request[k] /\ mayWrite'[k] = mayWrite[k]
             /\ answer'[k] = answer[k] /\ since'[k] = since[k]
  BY <1>1 DEF TypeOK, Load, ForbidWrite, ServerAnswers, Answer, Complete,
              NetworkFails
<1>2. \/ \E r \in Asked, write \in BOOLEAN : Load(k, r, write)
      \/ ForbidWrite(k) \/ ServerAnswers(k)
      => FALSE
  BY DEF Load, ForbidWrite, ServerAnswers, Answer, Complete, NetworkFails
<1>3. ASSUME NEW l \in Loads, TimerFires(l)
      PROVE  /\ stage'[k] = stage[k]
             /\ UNCHANGED <<page, request, mayWrite, answer, since>>
  BY <1>3 DEF TypeOK, TimerFires
<1>4. CASE \/ \E url \in Urls : CacheSet(url) \/ CacheUpdate(url)
           \/ \E urls \in SUBSET Urls : CacheRemove(urls)
           \/ ServerChanges
  BY <1>4 DEF CacheSet, CacheUpdate, CacheRemove, ServerChanges
<1> QED
  BY <1>1, <1>2, <1>3, <1>4 DEF Next

(* A load that is fulfilled by a step has its own answer, or has read the
   cache. *)
LEMMA NewlyFulfilled ==
    ASSUME TypeOK, Faithful, Next, NEW l \in Loads,
           stage[l] # "fulfilled", stage'[l] = "fulfilled",
           page'[l].via # l
    PROVE  /\ request'[l].read
           /\ request'[l].url \in Urls
           /\ page'[l] = cache[Resolve[request'[l].url]]
           /\ page'[l] # NoPage
           /\ since'[l] = version
           /\ \A k \in Loads \ {l} :
                 /\ request'[k] = request[k] /\ mayWrite'[k] = mayWrite[k]
                 /\ answer'[k] = answer[k] /\ since'[k] = since[k]
<1>1. ASSUME NEW m \in Loads, NEW r \in Asked, NEW write \in BOOLEAN,
             Load(m, r, write), stage'[l] = "fulfilled"
      PROVE  /\ m = l /\ request'[l] = r /\ since'[l] = version
             /\ LookUp(r) # NoPage /\ page'[l] = LookUp(r)
             /\ \A k \in Loads \ {l} :
                   /\ request'[k] = request[k] /\ mayWrite'[k] = mayWrite[k]
                   /\ answer'[k] = answer[k] /\ since'[k] = since[k]
  BY <1>1 DEF TypeOK, Load
<1>2. ASSUME NEW r \in Asked, LookUp(r) # NoPage
      PROVE  r.read /\ r.url \in Urls /\ LookUp(r) = cache[Resolve[r.url]]
  BY <1>2, AskedAssumption DEF LookUp, Requests
<1>3. ASSUME NEW m \in Loads, ServerAnswers(m) PROVE FALSE
  <2>1. CASE Complete(m)
    <3>1. m = l /\ page'[l] = Received(l)
      BY <2>1 DEF TypeOK, Complete
    <3> QED
      BY <3>1 DEF Received
  <2>2. CASE ~Complete(m)
    BY <1>3, <2>2 DEF TypeOK, ServerAnswers, Answer, NetworkFails
  <2> QED
    BY <2>1, <2>2
<1>4. ASSUME NEW m \in Loads, ForbidWrite(m) \/ TimerFires(m) PROVE FALSE
  BY <1>4 DEF TypeOK, ForbidWrite, TimerFires
<1>5. CASE \/ \E url \in Urls : CacheSet(url) \/ CacheUpdate(url)
           \/ \E urls \in SUBSET Urls : CacheRemove(urls)
           \/ ServerChanges
  BY <1>5 DEF CacheSet, CacheUpdate, CacheRemove, ServerChanges
<1> QED
  BY <1>1, <1>2, <1>3, <1>4, <1>5 DEF Next

(* Every step keeps what is known of the pages that loads share. *)
LEMMA StepShared == Faithful /\ SharedInv /\ [Next]_vars => SharedInv'
<1> SUFFICES ASSUME Faithful, SharedInv, [Next]_vars PROVE SharedInv'
  OBVIOUS
<1>0. TypeOK /\ SinceBound /\ AnswerIsFresh /\ CacheIsFaithful
  BY DEF Faithful
<1>1. CASE UNCHANGED vars
  BY <1>1 DEF vars, SharedInv, CachedWithLeave, AnswerIsPast,
              SharedPagesAreAnswers
<1>2. CASE Next
  <2>1. version \in Nat /\ version' \in Nat /\ version =< version'
    <3>1. version \in Nat
      BY <1>0, MaxVersionAssumption DEF TypeOK
    <3>2. ServerChanges => version' = version + 1
      BY DEF ServerChanges
    <3>3. ~ServerChanges => version' = version
      BY <1>2 DEF Next, ServerAnswers, CacheSet, CacheUpdate, CacheRemove, Load,
                  ForbidWrite, Answer, Complete, NetworkFails, TimerFires
    <3> QED
      BY <3>1, <3>2, <3>3
  <2>2. AnswerIsPast'
    <3> SUFFICES ASSUME NEW l \in Loads, stage'[l] = "answered"
                 PROVE  answer'[l].html =< version'
      BY DEF AnswerIsPast
    <3>1. \/ stage[l] = "answered" /\ answer'[l] = answer[l]
          \/ answer'[l].html = version
      <4>1. ASSUME NEW m \in Loads, NEW r \in Asked, NEW write \in BOOLEAN,
                   Load(m, r, write)
            PROVE  stage[l] = "answered" /\ answer'[l] = answer[l]
        BY <1>0, <4>1 DEF TypeOK, Load
      <4>2. ASSUME NEW m \in Loads, NEW status \in {"ok", "error"},
                   NEW url \in Urls, Answer(m, status, url)
            PROVE  \/ stage[l] = "answered" /\ answer'[l] = answer[l]
                   \/ answer'[l].html = version
        BY <1>0, <4>2 DEF TypeOK, Answer
      <4>3. ASSUME NEW m \in Loads,
                   \/ Complete(m) \/ NetworkFails(m)
                   \/ ForbidWrite(m) \/ TimerFires(m)
            PROVE  stage[l] = "answered" /\ answer'[l] = answer[l]
        BY <1>0, <4>3 DEF TypeOK, Complete, NetworkFails, ForbidWrite, TimerFires
      <4>4. CASE \/ \E url \in Urls : CacheSet(url) \/ CacheUpdate(url)
                 \/ \E urls \in SUBSET Urls : CacheRemove(urls)
                 \/ ServerChanges
        BY <4>4 DEF CacheSet, CacheUpdate, CacheRemove, ServerChanges
      <4> QED
        BY <1>2, <4>1, <4>2, <4>3, <4>4 DEF Next, ServerAnswers
    <3>2. stage[l] = "answered" =>
             answer[l].html \in Nat /\ answer[l].html =< version
      BY <1>0, MaxVersionAssumption
         DEF AnswerIsFresh, Answers, SharedInv, AnswerIsPast
    <3> QED
      BY <2>1, <3>1, <3>2
  <2>3. CachedWithLeave'
    <3> SUFFICES ASSUME NEW url \in Urls, cache'[url] # NoPage,
                        cache'[url].via \in Loads
                 PROVE  LET k == cache'[url].via
                        IN  /\ mayWrite'[k]
                            /\ cache'[url].html \in since'[k]..version'
      BY DEF CachedWithLeave
    <3> DEFINE k == cache'[url].via
    <3>1. CASE cache'[url] = cache[url]
      <4>1. stage[k] = "fulfilled" /\ mayWrite[k]
            /\ cache[url].html \in since[k]..version
        BY <1>0, <3>1 DEF CacheIsFaithful, SharedInv, CachedWithLeave
      <4>2. since'[k] = since[k] /\ mayWrite'[k] = mayWrite[k]
        BY <1>0, <1>2, <4>1, FulfilledStays
      <4>3. since[k] \in Nat
        BY <1>0, MaxVersionAssumption DEF TypeOK
      <4> QED
        BY <2>1, <3>1, <4>1, <4>2, <4>3
    <3>2. CASE cache'[url] # cache[url]
      <4>1. /\ Complete(k) /\ Caches(k) /\ stage[k] = "answered"
            /\ cache'[url].html = answer[k].html
        BY <1>2, <3>2, EntryComesFrom
      <4>2. mayWrite'[k] /\ since'[k] = since[k] /\ version' = version
        BY <4>1 DEF Complete, Caches
      <4>3. /\ answer[k].html \in Nat /\ since[k] \in Nat
            /\ answer[k].html >= since[k] /\ answer[k].html =< version
        BY <1>0, <4>1, MaxVersionAssumption
           DEF AnswerIsFresh, Answers, SharedInv, AnswerIsPast, TypeOK
      <4> QED
        BY <2>1, <4>1, <4>2, <4>3
    <3> QED
      BY <3>1, <3>2
  <2>4. SharedPagesAreAnswers'
    <3> SUFFICES ASSUME NEW l \in Loads, stage'[l] = "fulfilled",
                        page'[l].via \in Loads \ {l}
                 PROVE  LET k == page'[l].via
                        IN  /\ request'[l].read
                            /\ page'[l].url = Resolve[request'[l].url]
                            /\ Resolve[request'[k].url]
                                  = Resolve[request'[l].url]
                            /\ stage'[k] = "fulfilled"
                            /\ ~request'[k].post
                            /\ mayWrite'[k]
                            /\ answer'[k].status = "ok"
                            /\ answer'[k].url = request'[k].url
                            /\ page'[l].html = answer'[k].html
                            /\ page'[l].html \in since'[k]..since'[l]
      BY DEF SharedPagesAreAnswers
    <3> DEFINE k == page'[l].via
    <3>1. CASE stage[l] = "fulfilled"
      <4>1. page'[l] = page[l] /\ request'[l] = request[l] /\ since'[l] = since[l]
        BY <1>0, <1>2, <3>1, FulfilledStays
      <4>2. stage[k] = "fulfilled" /\ k \in Loads
        BY <3>1, <4>1 DEF SharedInv, SharedPagesAreAnswers
      <4>3. /\ stage'[k] = "fulfilled"
            /\ request'[k] = request[k] /\ mayWrite'[k] = mayWrite[k]
            /\ answer'[k] = answer[k] /\ since'[k] = since[k]
        BY <1>0, <1>2, <4>2, FulfilledStays
      <4> QED
        BY <3>1, <4>1, <4>3 DEF SharedInv, SharedPagesAreAnswers
    <3>2. CASE stage[l] # "fulfilled"
      <4> DEFINE u == Resolve[request'[l].url]
      <4>1. /\ request'[l].read /\ request'[l].url \in Urls
            /\ page'[l] = cache[u] /\ page'[l] # NoPage
            /\ since'[l] = version
            /\ request'[k] = request[k] /\ mayWrite'[k] = mayWrite[k]
            /\ answer'[k] = answer[k] /\ since'[k] = since[k]
        BY <1>0, <1>2, <3>2, NewlyFulfilled
      <4>2. u \in Urls
        BY <4>1, ResolveAssumption
      <4> HIDE DEF u
      <4>3. cache[u].url = u
        BY <1>0, <4>1, <4>2 DEF TypeOK
      <4>4. /\ stage[k] = "fulfilled"
            /\ ~request[k].post
            /\ Resolve[request[k].url] = u
            /\ answer[k].url = request[k].url
            /\ answer[k].status = "ok"
            /\ cache[u].html = answer[k].html
        BY <1>0, <4>1, <4>2 DEF CacheIsFaithful
      <4>5. mayWrite[k] /\ cache[u].html \in since[k]..version
        BY <4>1, <4>2 DEF SharedInv, CachedWithLeave
      <4>6. stage'[k] = "fulfilled"
        BY <1>0, <1>2, <4>4, FulfilledStays
      <4> QED
        BY <4>1, <4>3, <4>4, <4>5, <4>6 DEF u
    <3> QED
      BY <3>1, <3>2
  <2> QED
    BY <2>2, <2>3, <2>4 DEF SharedInv
<1> QED
  BY <1>1, <1>2

(* Whatever loads, plugins and the server do meanwhile, what a visit has through
   the cache is the answer to an equivalent request that had leave. *)
THEOREM SharedPages == Spec => []SharedPagesAreAnswers
<1>1. Init => SharedInv
  BY DEF Init, SharedInv, CachedWithLeave, AnswerIsPast, SharedPagesAreAnswers
<1>2. Faithful /\ SharedInv /\ [Next]_vars => SharedInv'
  BY StepShared
<1>3. SharedInv => SharedPagesAreAnswers
  BY DEF SharedInv
<1> QED
  BY <1>1, <1>2, <1>3, LoadsAreFaithful, PTL DEF Spec
=============================================================================
