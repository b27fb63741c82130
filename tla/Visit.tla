------------------------------- MODULE Visit -------------------------------
(***************************************************************************)
(* The visit lifecycle of the page-transition engine: navigation intents   *)
(* from link clicks and popstate events start visits, and each visit runs  *)
(* leavePage -> loadPage (cache or fetch) -> renderPage -> enterPage.      *)
(* Visits are not serialised: a newer visit may start while older ones are *)
(* still awaiting animations, the network or hook handlers, so every await *)
(* of the pipeline is a separate step and steps of different visits        *)
(* interleave.  The only protection against stale visits is the URL        *)
(* comparison at the top of renderPage.                                    *)
(*                                                                         *)
(* A page record is abstracted to the document it holds, named by its      *)
(* responseURL; page.url of a visit's record is always the visit's URL.    *)
(***************************************************************************)
EXTENDS Naturals, Sequences

CONSTANTS
    Urls,                   \* resolved page URLs (resolvePath is the identity)
    InitialUrl,             \* the URL of the document swup was enabled on
    Redirect,               \* Redirect[u]: the responseURL a fetch of u ends at
    Anchors,                \* hashes a link or history entry may carry
    NoAnchor,               \* scrollToElement = null
    NoPage,                 \* a cache miss
    MaxVisits,              \* bound on the number of visits started
    CacheEnabled,           \* options.cache
    AnimateHistoryBrowsing  \* options.animateHistoryBrowsing

ASSUME VisitAssumptions ==
    /\ InitialUrl \in Urls
    /\ Redirect \in [Urls -> Urls]
    /\ \A u \in Urls : Redirect[Redirect[u]] = Redirect[u]
    /\ NoAnchor \notin Anchors
    /\ NoPage \notin Urls
    /\ MaxVisits \in Nat
    /\ CacheEnabled \in BOOLEAN
    /\ AnimateHistoryBrowsing \in BOOLEAN

VARIABLES
    history,         \* the session history entries (url and hash)
    hIndex,          \* index of the current entry; getCurrentUrl() is its url
    currentPageUrl,  \* this.currentPageUrl, compared by popStateHandler
    content,         \* the document shown in the swup containers
    htmlClasses,     \* transition classes on document.documentElement
    cache,           \* cache[u]: responseURL of the record cached under u
    scrollToElement, \* this.scrollToElement
    visit,           \* visit[v]: the state of the v-th visit
    nVisits          \* number of visits started so far

vars == <<history, hIndex, currentPageUrl, content, htmlClasses, cache,
          scrollToElement, visit, nVisits>>

Visits == 1..MaxVisits

TransitionClasses ==
    {"is-changing", "is-leaving", "is-animating", "is-popstate", "is-rendering"}

(* Program counter of a visit: the await it is suspended at.               *)
(*   leave   - loadPage called, leavePage not yet run                      *)
(*   animOut - awaiting the out-animation promises                         *)
(*   load    - awaiting the cache lookup or the fetch                      *)
(*   render  - renderPage called                                           *)
(*   replace - awaiting willReplaceContent handlers before replaceContent  *)
(*   finish  - awaiting contentReplaced / pageView handlers                *)
(*   enter   - enterPage started, not yet run                              *)
(*   animIn  - awaiting the in-animation promises                          *)
Pcs == {"idle", "leave", "animOut", "load", "render", "replace", "finish",
        "enter", "animIn", "done", "aborted"}

VisitRecord ==
    [pc : Pcs, url : Urls, pop : BOOLEAN, skip : BOOLEAN, page : Urls \cup {NoPage}]

IdleVisit ==
    [pc |-> "idle", url |-> InitialUrl, pop |-> FALSE, skip |-> FALSE, page |-> NoPage]

(* A history entry written by swup: createHistoryRecord(url + hash) or    *)
(* updateHistoryRecord(url).                                               *)
Entry == [url : Urls, anchor : Anchors \cup {NoAnchor}]

(* getCurrentUrl() *)
Location == history[hIndex].url

TypeOK ==
    /\ history \in Seq(Entry)
    /\ hIndex \in 1..Len(history)
    /\ currentPageUrl \in Urls
    /\ content \in Urls
    /\ htmlClasses \subseteq TransitionClasses
    /\ cache \in [Urls -> Urls \cup {NoPage}]
    /\ scrollToElement \in Anchors \cup {NoAnchor}
    /\ visit \in [Visits -> VisitRecord]
    /\ nVisits \in 0..MaxVisits

(* The initial entry is marked as swup's by updateHistoryRecord() in       *)
(* enable().                                                               *)
Init ==
    /\ history = <<[url |-> InitialUrl, anchor |-> NoAnchor]>>
    /\ hIndex = 1
    /\ currentPageUrl = InitialUrl
    /\ content = InitialUrl
    /\ htmlClasses = {}
    /\ cache = [u \in Urls |-> NoPage]
    /\ scrollToElement = NoAnchor
    /\ visit = [v \in Visits |-> IdleVisit]
    /\ nVisits = 0

-----------------------------------------------------------------------------
(* cleanupAnimationClasses(): clears the changing/leaving/rendering/       *)
(* popstate classes; is-animating is removed by enterPage itself.          *)
CleanupAnimationClasses(cls) ==
    cls \ {"is-changing", "is-leaving", "is-rendering", "is-popstate"}

(* loadPage(data, popstate), up to its first await: a fresh visit record, *)
(* and currentPageUrl set to the URL being loaded.  A history visit skips  *)
(* the animations unless animateHistoryBrowsing is set.                    *)
StartVisit(u, pop) ==
    LET v == nVisits + 1 IN
    /\ nVisits < MaxVisits
    /\ nVisits' = v
    /\ visit' = [visit EXCEPT ![v] =
                    [pc |-> "leave", url |-> u, pop |-> pop,
                     skip |-> pop /\ ~AnimateHistoryBrowsing, page |-> NoPage]]
    /\ currentPageUrl' = u

(* linkClickHandler: a left click on a swup link to another resolved path  *)
(* stores the hash to scroll to and calls loadPage, which pushes a history *)
(* entry for url + hash (dropping the entries after the current one).      *)
(* Clicks on links that open a new window, ignored links, modified clicks, *)
(* other buttons and same-page links return early and change no state      *)
(* modelled here.                                                          *)
LinkClick(u, a) ==
    /\ u # Location
    /\ scrollToElement' = a
    /\ history' = Append(SubSeq(history, 1, hIndex), [url |-> u, anchor |-> a])
    /\ hIndex' = hIndex + 1
    /\ StartVisit(u, FALSE)
    /\ UNCHANGED <<content, htmlClasses, cache>>

(* linkClickHandler -> handleLinkToSamePage: a link to the current URL    *)
(* with a hash whose element exists rewrites the current history entry to  *)
(* url + hash (updateHistoryRecord); no visit starts.                      *)
LinkToSamePage(a) ==
    /\ history' = [history EXCEPT ![hIndex] = [url |-> Location, anchor |-> a]]
    /\ UNCHANGED <<hIndex, currentPageUrl, content, htmlClasses, cache,
                   scrollToElement, visit, nVisits>>

(* The entries a back/forward navigation can move to.                     *)
OtherEntries == (1..Len(history)) \ {hIndex}

(* popStateHandler, early return: the browser has already moved to entry i *)
(* and its path equals currentPageUrl.                                     *)
PopStateIgnored(i) ==
    /\ history[i].url = currentPageUrl
    /\ hIndex' = i
    /\ UNCHANGED <<history, currentPageUrl, content, htmlClasses, cache,
                   scrollToElement, visit, nVisits>>

(* popStateHandler for an entry with another path: keep the entry's hash   *)
(* (an entry without one leaves scrollToElement as it was), strip the      *)
(* animation classes unless history browsing is animated, and loadPage.    *)
PopStateVisit(i) ==
    /\ history[i].url # currentPageUrl
    /\ hIndex' = i
    /\ scrollToElement' = IF history[i].anchor # NoAnchor THEN history[i].anchor
                          ELSE scrollToElement
    /\ htmlClasses' = IF AnimateHistoryBrowsing THEN htmlClasses
                      ELSE CleanupAnimationClasses(htmlClasses \ {"is-animating"})
    /\ StartVisit(history[i].url, TRUE)
    /\ UNCHANGED <<history, content, cache>>

-----------------------------------------------------------------------------
(* The steps of visit v.  SetPc(v, p) moves it to the next await.          *)
SetPc(v, p) == visit' = [visit EXCEPT ![v].pc = p]

(* leavePage with skipTransition: only animationSkipped is triggered.      *)
LeaveSkip(v) ==
    /\ visit[v].pc = "leave"
    /\ visit[v].skip
    /\ SetPc(v, "load")
    /\ UNCHANGED <<history, hIndex, currentPageUrl, content, htmlClasses, cache,
                   scrollToElement, nVisits>>

(* leavePage: animationOutStart's default handler adds the leave classes   *)
(* (and is-popstate for a history visit); then the out-animation promises  *)
(* are awaited.                                                            *)
LeaveStart(v) ==
    /\ visit[v].pc = "leave"
    /\ ~visit[v].skip
    /\ htmlClasses' = htmlClasses \cup {"is-changing", "is-leaving", "is-animating"}
                                  \cup (IF visit[v].pop THEN {"is-popstate"} ELSE {})
    /\ SetPc(v, "animOut")
    /\ UNCHANGED <<history, hIndex, currentPageUrl, content, cache, scrollToElement, nVisits>>

(* Promise.all(animationPromises) resolves: every animated element fired   *)
(* transitionend (or had no transition); animationOutDone is triggered.    *)
AnimOutDone(v) ==
    /\ visit[v].pc = "animOut"
    /\ SetPc(v, "load")
    /\ UNCHANGED <<history, hIndex, currentPageUrl, content, htmlClasses, cache,
                   scrollToElement, nVisits>>

(* Mutant of LoadPage: the cache lookup result is used without checking   *)
(* for a miss.                                                             *)
LoadPageNoHitCheck(v) ==
    LET u == visit[v].url IN
    /\ visit[v].pc = "load"
    /\ visit' = [visit EXCEPT ![v].pc = "render", ![v].page = cache[u]]
    /\ UNCHANGED <<history, hIndex, currentPageUrl, content, htmlClasses, cache,
                   scrollToElement, nVisits>>

(* loadPage: the page comes from the cache, or it is fetched (following    *)
(* redirects to Redirect[u]) and cached under the requested URL when       *)
(* caching is enabled.                                                     *)
LoadPage(v) ==
    LET u == visit[v].url IN
    /\ visit[v].pc = "load"
    /\ \/ /\ cache[u] # NoPage
          /\ visit' = [visit EXCEPT ![v].pc = "render", ![v].page = cache[u]]
          /\ UNCHANGED cache
       \/ /\ cache[u] = NoPage
          /\ visit' = [visit EXCEPT ![v].pc = "render", ![v].page = Redirect[u]]
          /\ cache' = IF CacheEnabled THEN [cache EXCEPT ![u] = Redirect[u]] ELSE cache
    /\ UNCHANGED <<history, hIndex, currentPageUrl, content, htmlClasses, scrollToElement, nVisits>>

(* Mutant of RenderStale: is-leaving is removed only after the currency    *)
(* check, so a stale visit returns with the class still set.               *)
RenderStaleKeepsLeaving(v) ==
    /\ visit[v].pc = "render"
    /\ Location # visit[v].url
    /\ SetPc(v, "aborted")
    /\ UNCHANGED <<history, hIndex, currentPageUrl, content, htmlClasses, cache,
                   scrollToElement, nVisits>>

(* renderPage, first statements: is-leaving is removed, then the visit     *)
(* returns if another page was requested in the meantime.                  *)
RenderStale(v) ==
    /\ visit[v].pc = "render"
    /\ Location # visit[v].url
    /\ htmlClasses' = htmlClasses \ {"is-leaving"}
    /\ SetPc(v, "aborted")
    /\ UNCHANGED <<history, hIndex, currentPageUrl, content, cache, scrollToElement, nVisits>>

(* Mutant of RenderStart: the visit goes on without the currency check.   *)
RenderStartNoCheck(v) ==
    LET url == visit[v].page IN
    /\ visit[v].pc = "render"
    /\ htmlClasses' = (htmlClasses \ {"is-leaving"})
                        \cup (IF visit[v].skip THEN {} ELSE {"is-rendering"})
    /\ IF Location # url
         THEN /\ cache' = [cache EXCEPT ![url] = url]
              /\ currentPageUrl' = Location
              /\ history' = [history EXCEPT ![hIndex] = [url |-> url, anchor |-> NoAnchor]]
         ELSE UNCHANGED <<cache, currentPageUrl, history>>
    /\ SetPc(v, "replace")
    /\ UNCHANGED <<hIndex, content, scrollToElement, nVisits>>

(* renderPage, up to the await of willReplaceContent: when the response    *)
(* was redirected, the page is cached under the redirected URL,            *)
(* currentPageUrl is set to the (requested) current URL and the history    *)
(* record is replaced by the redirected URL; is-rendering is added for a   *)
(* visit with transitions.                                                 *)
RenderStart(v) ==
    LET url == visit[v].page IN
    /\ visit[v].pc = "render"
    /\ Location = visit[v].url
    /\ htmlClasses' = (htmlClasses \ {"is-leaving"})
                        \cup (IF visit[v].skip THEN {} ELSE {"is-rendering"})
    /\ IF Location # url
         THEN /\ cache' = [cache EXCEPT ![url] = url]
              /\ currentPageUrl' = Location
              /\ history' = [history EXCEPT ![hIndex] = [url |-> url, anchor |-> NoAnchor]]
         ELSE UNCHANGED <<cache, currentPageUrl, history>>
    /\ SetPc(v, "replace")
    /\ UNCHANGED <<hIndex, content, scrollToElement, nVisits>>

(* renderPage: await this.replaceContent(page).                            *)
ReplaceContent(v) ==
    /\ visit[v].pc = "replace"
    /\ content' = visit[v].page
    /\ SetPc(v, "finish")
    /\ UNCHANGED <<history, hIndex, currentPageUrl, htmlClasses, cache, scrollToElement, nVisits>>

(* renderPage, after contentReplaced and pageView: empty the cache if it   *)
(* is disabled, start enterPage without awaiting it, reset the scroll      *)
(* target.                                                                 *)
RenderFinish(v) ==
    /\ visit[v].pc = "finish"
    /\ cache' = IF CacheEnabled THEN cache ELSE [u \in Urls |-> NoPage]
    /\ scrollToElement' = NoAnchor
    /\ SetPc(v, "enter")
    /\ UNCHANGED <<history, hIndex, currentPageUrl, content, htmlClasses, nVisits>>

(* enterPage with skipTransition: clean up the animation classes.          *)
EnterSkip(v) ==
    /\ visit[v].pc = "enter"
    /\ visit[v].skip
    /\ htmlClasses' = CleanupAnimationClasses(htmlClasses)
    /\ SetPc(v, "done")
    /\ UNCHANGED <<history, hIndex, currentPageUrl, content, cache, scrollToElement, nVisits>>

(* enterPage: animationInStart's default handler removes is-animating,     *)
(* then the in-animation promises are awaited.                             *)
EnterStart(v) ==
    /\ visit[v].pc = "enter"
    /\ ~visit[v].skip
    /\ htmlClasses' = htmlClasses \ {"is-animating"}
    /\ SetPc(v, "animIn")
    /\ UNCHANGED <<history, hIndex, currentPageUrl, content, cache, scrollToElement, nVisits>>

(* enterPage: the in-animations ended; the animation classes are cleared.  *)
AnimInDone(v) ==
    /\ visit[v].pc = "animIn"
    /\ htmlClasses' = CleanupAnimationClasses(htmlClasses)
    /\ SetPc(v, "done")
    /\ UNCHANGED <<history, hIndex, currentPageUrl, content, cache, scrollToElement, nVisits>>

VisitStep(v) ==
    \/ LeaveSkip(v) \/ LeaveStart(v) \/ AnimOutDone(v) \/ LoadPage(v)
    \/ RenderStale(v) \/ RenderStart(v) \/ ReplaceContent(v) \/ RenderFinish(v)
    \/ EnterSkip(v) \/ EnterStart(v) \/ AnimInDone(v)

Next ==
    \/ \E u \in Urls, a \in Anchors \cup {NoAnchor} : LinkClick(u, a)
    \/ \E a \in Anchors : LinkToSamePage(a)
    \/ \E i \in OtherEntries : PopStateIgnored(i)
    \/ \E i \in OtherEntries : PopStateVisit(i)
    \/ \E v \in Visits : VisitStep(v)

Spec == Init /\ [][Next]_vars

-----------------------------------------------------------------------------
(* A visit is in flight from loadPage until enterPage finished or the      *)
(* render stage found it stale.                                            *)
InFlight(v) == visit[v].pc \notin {"idle", "done", "aborted"}

Idle == \A v \in Visits : ~InFlight(v)

(* The stages during which a visit's leave animation may be showing.       *)
LeavingPcs == {"animOut", "load", "render"}

(* Visits whose render stage passed the currency check.                    *)
Rendered == {v \in Visits : visit[v].pc \in {"finish", "enter", "animIn", "done"}}

(* is-leaving (the class that hides the old content) is on the document    *)
(* only while some visit is still between leavePage and the top of         *)
(* renderPage.  renderPage removes it before its currency check, so a      *)
(* visit that turns out to be stale does not leave it behind for a newer   *)
(* visit that skips transitions or has already rendered.                   *)
LeavingClassOnlyWhileLeaving ==
    "is-leaving" \in htmlClasses => \E v \in Visits : visit[v].pc \in LeavingPcs

(* Spec 4.3/8: once a visit to another URL has started, an older visit's   *)
(* render stage detects that it is stale and performs no history or DOM    *)
(* mutation.  renderPage checks this by comparing URLs only.               *)
StaleVisitNeverRenders ==
    [][\A v \in Visits :
         (visit[v].pc = "render" /\ visit'[v].pc = "replace")
           => \A w \in Visits : (w > v /\ visit[w].pc # "idle")
                                  => visit[w].url = visit[v].url]_vars

(* When no visit is in flight, the document shows the page of the most     *)
(* recent visit that passed renderPage's currency check: an older visit    *)
(* never overwrites the content of a newer one.                            *)
LastRenderWins ==
    (Idle /\ Rendered # {})
      => content = visit[CHOOSE v \in Rendered : \A w \in Rendered : w <= v].page

(* When no visit is in flight, no transition class is left on the          *)
(* document (spec 4.3: enterPage always clears the leaving/changing        *)
(* classes).                                                               *)
IdleLeavesNoClasses ==
    Idle => htmlClasses = {}

-----------------------------------------------------------------------------
(* The refinement mapping onto the lifecycle of VisitLifecycle: a visit's  *)
(* awaits are grouped into the stages of spec 5, the location is           *)
(* getCurrentUrl() and the page shown is the content of the containers.    *)
Phase(pc) ==
    CASE pc \in {"leave", "animOut"}          -> "leaving"
      [] pc = "load"                          -> "loading"
      [] pc = "render"                        -> "rendering"
      [] pc = "replace"                       -> "replacing"
      [] pc \in {"finish", "enter", "animIn"} -> "entering"
      [] OTHER                                -> pc

Lifecycle == INSTANCE VisitLifecycle WITH
    Visits   <- Visits,
    phase    <- [v \in Visits |-> Phase(visit[v].pc)],
    vurl     <- [v \in Visits |-> visit[v].url],
    vpop     <- [v \in Visits |-> visit[v].pop],
    vpage    <- [v \in Visits |-> visit[v].page],
    location <- Location,
    shown    <- content

(* The pipeline of loadPage, leavePage, renderPage and enterPage, with its *)
(* awaits interleaved with other visits and with link clicks and popstate  *)
(* events, implements the lifecycle: popStateHandler's comparison with     *)
(* currentPageUrl starts a visit exactly for entries of another page than  *)
(* the latest visit's, the cache always serves the page the server answers *)
(* for the URL, and renderPage commits only visits that are current.       *)
LifecycleSpec == Lifecycle!Spec

=============================================================================
