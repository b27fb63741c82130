------------------------------- MODULE Legacy -------------------------------
(***************************************************************************)
(* The legacy Swup class of src/src/index.js: the event-array version     *)
(* with hover preloading.  Its handlers are enable(), destroy(),           *)
(* linkClickHandler, linkMouseoverHandler with the callback of its preload *)
(* fetch, and popStateHandler.                                             *)
(*                                                                         *)
(* loadPage (modules/loadPage, not under src/) is modelled from the spec   *)
(* and from what index.js shows of it: the call pushes the history entry   *)
(* of a link visit, then looks the page up in the cache, else reuses       *)
(* this.preloadPromise when its route (line 350) is the page, else         *)
(* fetches; the visit later renders (cache, scroll target reset,           *)
(* preloadPromise = null) or, when its fetch or the reused promise failed, *)
(* ends without rendering (spec 4.3).                                      *)
(*                                                                         *)
(* Every hover fetch creates a promise; preloads lists them in creation    *)
(* order with their state, and preloadPromise is the index of the one      *)
(* this.preloadPromise holds (0 for null).  window keeps one popstate      *)
(* listener per addEventListener() of a distinct function; popListeners    *)
(* counts them.  History entries are the ones swup made, all marked with   *)
(* source 'swup'; entries of other scripts are not modelled.               *)
(***************************************************************************)
EXTENDS Naturals, Sequences, FiniteSets

CONSTANTS
    Urls,           \* page paths (pathname + search) of the site
    InitialUrl,     \* the path the document was opened at
    Anchors,        \* hashes that links may carry
    NoAnchor,       \* no hash
    CacheEnabled,   \* options.cache
    Preload,        \* options.preload
    MaxLoads,       \* bound on loadPage calls
    MaxEnables,     \* bound on popstate listeners added by enable()
    MaxPreloads     \* bound on hover preload fetches

ASSUME LegacyAssumptions ==
    /\ InitialUrl \in Urls
    /\ NoAnchor \notin Anchors
    /\ CacheEnabled \in BOOLEAN
    /\ Preload \in BOOLEAN
    /\ MaxLoads \in Nat
    /\ MaxEnables \in Nat \ {0}
    /\ MaxPreloads \in Nat

VARIABLES
    history,        \* the session history: entries with path and hash
    hIndex,         \* the current entry
    enabled,        \* delegated click/mouseover listeners attached, swup-enabled class
    popListeners,   \* popstate listeners on window
    cache,          \* the paths this.cache holds a page for
    preloads,       \* the hover preload promises: page and state
    preloadPromise, \* 0 (null), or the index in preloads of this.preloadPromise
    visits,         \* loadPage calls that have not rendered or failed yet
    scrollToElement,\* this.scrollToElement
    loads           \* loadPage calls so far

vars == <<history, hIndex, enabled, popListeners, cache, preloads, preloadPromise,
          visits, scrollToElement, loads>>

Entry == [url : Urls, anchor : Anchors \cup {NoAnchor}]

PreloadRec == [url : Urls, state : {"pending", "resolved", "rejected"}]

(* A loadPage call: its page, whether popstate called it, and what it      *)
(* waits for: a cached page, its own fetch, or the preload promise of      *)
(* index promise.                                                          *)
VisitRec == [id : 1..MaxLoads, url : Urls, pop : BOOLEAN,
             wait : {"cache", "fetch", "preload"}, promise : 0..MaxPreloads]

(* getCurrentUrl(): the path of the current entry, without its hash.       *)
Location == history[hIndex].url

(* The types, and this.preloadPromise is null or a promise that has not    *)
(* resolved: the callback that resolves it sets the field to null.         *)
LegacyTypeOK ==
    /\ history \in Seq(Entry)
    /\ hIndex \in 1..Len(history)
    /\ enabled \in BOOLEAN
    /\ popListeners \in 0..MaxEnables
    /\ cache \subseteq Urls
    /\ preloads \in Seq(PreloadRec) /\ Len(preloads) <= MaxPreloads
    /\ preloadPromise \in 0..Len(preloads)
    /\ preloadPromise # 0 => preloads[preloadPromise].state # "resolved"
    /\ visits \subseteq VisitRec
    /\ scrollToElement \in Anchors \cup {NoAnchor}
    /\ loads \in 0..MaxLoads

(* The constructor: scrollToElement and preloadPromise null, then          *)
(* enable(): the listeners are attached, the current page is cached and    *)
(* replaceState marks the initial history record.                          *)
Init ==
    /\ history = <<[url |-> InitialUrl, anchor |-> NoAnchor]>>
    /\ hIndex = 1
    /\ enabled = TRUE
    /\ popListeners = 1
    /\ cache = IF CacheEnabled THEN {InitialUrl} ELSE {}
    /\ preloads = << >>
    /\ preloadPromise = 0
    /\ visits = {}
    /\ scrollToElement = NoAnchor
    /\ loads = 0

(* enable() on a destroyed instance: delegate() attaches new click and    *)
(* mouseover listeners, addEventListener adds this.popStateHandler.bind(  *)
(* this), a new function, and the current page is cached.                  *)
Enable ==
    /\ ~enabled
    /\ popListeners < MaxEnables
    /\ enabled' = TRUE
    /\ popListeners' = popListeners + 1
    /\ cache' = IF CacheEnabled THEN cache \cup {Location} ELSE cache
    /\ UNCHANGED <<history, hIndex, preloads, preloadPromise, visits,
                   scrollToElement, loads>>

(* destroy(): the delegated listeners are destroyed and the cache is      *)
(* emptied; removeEventListener is given this.popStateHandler.bind(this),  *)
(* a function never added, so no popstate listener is removed.            *)
Destroy ==
    /\ enabled
    /\ enabled' = FALSE
    /\ cache' = {}
    /\ UNCHANGED <<history, hIndex, popListeners, preloads, preloadPromise,
                   visits, scrollToElement, loads>>

(* The loadPage call number id for page u: it waits for the cached page,  *)
(* else for this.preloadPromise when its route is u, else for a fetch of   *)
(* its own.                                                                *)
NewVisit(id, u, pop) ==
    IF u \in cache THEN [id |-> id, url |-> u, pop |-> pop, wait |-> "cache", promise |-> 0]
    ELSE IF preloadPromise # 0 /\ preloads[preloadPromise].url = u
         THEN [id |-> id, url |-> u, pop |-> pop, wait |-> "preload", promise |-> preloadPromise]
         ELSE [id |-> id, url |-> u, pop |-> pop, wait |-> "fetch", promise |-> 0]

(* loadPage({url: u}, false) from a link: createHistoryRecord pushes the   *)
(* entry of u after the current one, and the visit starts waiting.         *)
LoadPage(u) ==
    /\ loads < MaxLoads
    /\ loads' = loads + 1
    /\ history' = Append(SubSeq(history, 1, hIndex), [url |-> u, anchor |-> NoAnchor])
    /\ hIndex' = hIndex + 1
    /\ visits' = visits \cup {NewVisit(loads + 1, u, FALSE)}

(* Visit v's page arrived (from the cache, its fetch, or the resolved      *)
(* preload promise) and renders: the page is cached (the cache is emptied  *)
(* when caching is off), the scroll target is consumed and                 *)
(* this.preloadPromise is set to null.                                     *)
LoadRendered(v) ==
    /\ v \in visits
    /\ v.wait \in {"cache", "fetch"} \/ (v.wait = "preload" /\ preloads[v.promise].state = "resolved")
    /\ visits' = visits \ {v}
    /\ cache' = IF CacheEnabled THEN cache \cup {v.url} ELSE {}
    /\ scrollToElement' = NoAnchor
    /\ preloadPromise' = 0
    /\ UNCHANGED <<history, hIndex, enabled, popListeners, preloads, loads>>

(* Visit v's fetch answered with an error, or the preload promise it       *)
(* reused was rejected: the visit ends and the page stays as it was.       *)
LoadFailed(v) ==
    /\ v \in visits
    /\ v.wait = "fetch" \/ (v.wait = "preload" /\ preloads[v.promise].state = "rejected")
    /\ visits' = visits \ {v}
    /\ UNCHANGED <<history, hIndex, enabled, popListeners, cache, preloads,
                   preloadPromise, scrollToElement, loads>>

(* linkClickHandler for a left click without modifier keys on a link to   *)
(* path u with hash a.  To the current path with a hash whose element      *)
(* exists: replaceState with the hash; to the current path otherwise       *)
(* only events fire.  To another path: remember the hash, then loadPage.   *)
LinkClick(u, a) ==
    /\ enabled
    /\ IF u = Location
         THEN /\ a # NoAnchor
              /\ history' = [history EXCEPT ![hIndex] = [url |-> u, anchor |-> a]]
              /\ UNCHANGED <<hIndex, visits, scrollToElement, loads>>
         ELSE /\ scrollToElement' = IF a # NoAnchor THEN a ELSE scrollToElement
              /\ LoadPage(u)
    /\ UNCHANGED <<enabled, popListeners, cache, preloads, preloadPromise>>

(* linkMouseoverHandler: with preloading on, a link to another path that  *)
(* is not cached, while this.preloadPromise is null, starts a fetch and    *)
(* stores its new promise, with route u.                                   *)
LinkMouseover(u) ==
    /\ enabled
    /\ Preload
    /\ u # Location
    /\ u \notin cache
    /\ preloadPromise = 0
    /\ Len(preloads) < MaxPreloads
    /\ preloads' = Append(preloads, [url |-> u, state |-> "pending"])
    /\ preloadPromise' = Len(preloads) + 1
    /\ UNCHANGED <<history, hIndex, enabled, popListeners, cache, visits,
                   scrollToElement, loads>>

(* The preload fetch i calls back with status 500, or with a document      *)
(* getDataFromHTML cannot read: reject and return, this.preloadPromise is  *)
(* left as it is.                                                          *)
PreloadFailed(i) ==
    /\ preloads[i].state = "pending"
    /\ preloads' = [preloads EXCEPT ![i].state = "rejected"]
    /\ UNCHANGED <<history, hIndex, enabled, popListeners, cache, preloadPromise,
                   visits, scrollToElement, loads>>

(* Mutant of PreloadDone: this.preloadPromise = null is dropped.           *)
PreloadDoneNoReset(i) ==
    /\ preloads[i].state = "pending"
    /\ preloads' = [preloads EXCEPT ![i].state = "resolved"]
    /\ cache' = cache \cup {preloads[i].url}
    /\ UNCHANGED <<history, hIndex, enabled, popListeners, preloadPromise, visits,
                   scrollToElement, loads>>

(* The preload fetch i calls back with a page: it is cached (even with     *)
(* caching off), the promise resolves, and this.preloadPromise is set to   *)
(* null, whichever promise it holds by then.                               *)
PreloadDone(i) ==
    /\ preloads[i].state = "pending"
    /\ preloads' = [preloads EXCEPT ![i].state = "resolved"]
    /\ cache' = cache \cup {preloads[i].url}
    /\ preloadPromise' = 0
    /\ UNCHANGED <<history, hIndex, enabled, popListeners, visits,
                   scrollToElement, loads>>

(* The browser moves to entry i and calls every popstate listener; each    *)
(* runs popStateHandler: the entry's hash becomes scrollToElement and      *)
(* loadPage is called, once per listener.                                  *)
PopState(i) ==
    LET e == history[i] IN
    /\ i \in DOMAIN history \ {hIndex}
    /\ loads + popListeners <= MaxLoads
    /\ hIndex' = i
    /\ loads' = loads + popListeners
    /\ visits' = visits \cup {NewVisit(loads + k, e.url, TRUE) : k \in 1..popListeners}
    /\ scrollToElement' = IF e.anchor # NoAnchor THEN e.anchor ELSE scrollToElement
    /\ UNCHANGED <<history, enabled, popListeners, cache, preloads, preloadPromise>>

Next ==
    \/ Enable
    \/ Destroy
    \/ \E u \in Urls, a \in Anchors \cup {NoAnchor} : LinkClick(u, a)
    \/ \E u \in Urls : LinkMouseover(u)
    \/ \E i \in DOMAIN preloads : PreloadFailed(i)
    \/ \E i \in DOMAIN preloads : PreloadDone(i)
    \/ \E v \in visits : LoadRendered(v)
    \/ \E v \in visits : LoadFailed(v)
    \/ \E i \in DOMAIN history : PopState(i)

Spec == Init /\ [][Next]_vars

-----------------------------------------------------------------------------
(* The fetches of page u still outstanding: hover preloads and loadPage    *)
(* calls that fetch for themselves.                                        *)
PendingPreloads(u) == {i \in DOMAIN preloads : preloads[i] = [url |-> u, state |-> "pending"]}

OwnFetches(u) == {v \in visits : v.wait = "fetch" /\ v.url = u}

(* The comment on this.preloadPromise (index.js:97): it is there "so no   *)
(* new loading of the same page starts while page is loading".  While a   *)
(* hover preload of a page is outstanding, no other fetch of that page,    *)
(* by a hover or by loadPage, is.                                          *)
NoSecondLoadWhilePreloading ==
    \A u \in Urls :
        PendingPreloads(u) # {} =>
            Cardinality(PendingPreloads(u)) + Cardinality(OwnFetches(u)) = 1

(* destroy() disables swup: once destroyed and until enabled again, no     *)
(* click, hover or history navigation starts a loadPage.                    *)
NoNavigationWhileDisabled == [][~enabled => loads' = loads]_vars

=============================================================================
