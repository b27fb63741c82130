--------------------------- MODULE LifecycleProofs ---------------------------
(***************************************************************************)
(* The visit pipeline of module Visit implements the abstract lifecycle of *)
(* VisitLifecycle under the mapping Lifecycle, for every value of the      *)
(* constants that satisfies VisitAssumptions.                              *)
(*                                                                         *)
(* The mapping is a refinement only in the states the pipeline reaches:    *)
(* RInv adds to IInv what the abstract guards read.  Visits are started in *)
(* slot order, so the latest visit is slot nVisits and currentPageUrl is   *)
(* its URL (the abstract Target); the cache only ever holds, for a URL,    *)
(* the page the server answers for it, and a loaded visit holds exactly    *)
(* that page; and a location that would still redirect is the URL of the  *)
(* latest visit, because redirects only ever write final URLs.             *)
(***************************************************************************)
EXTENDS VisitProofs

(* Slots up to nVisits have been started.                                  *)
StartedPrefix == \A v \in Visits : v <= nVisits => visit[v].pc # "idle"

(* popStateHandler's currentPageUrl is the URL of the latest visit.        *)
CurrentIsLatest ==
    currentPageUrl = IF nVisits = 0 THEN InitialUrl ELSE visit[nVisits].url

(* The cache maps a URL to nothing or to the page the server answers.      *)
CacheServes == \A u \in Urls : cache[u] \in {NoPage, Redirect[u]}

(* A loaded visit holds the server's answer for its URL, an unloaded one   *)
(* holds no page.                                                          *)
PageIsAnswer ==
    \A v \in Visits :
        IF visit[v].pc \in LoadedPcs THEN visit[v].page = Redirect[visit[v].url]
        ELSE visit[v].page = NoPage

(* Only the latest visit's URL can be a location that is not final.       *)
RedirectedIsCurrent == Redirect[Location] # Location => Location = currentPageUrl

RInv == IInv /\ StartedPrefix /\ CurrentIsLatest /\ CacheServes /\ PageIsAnswer
             /\ RedirectedIsCurrent

(* The conjuncts RInv adds to IInv.                                        *)
RExtra == StartedPrefix /\ CurrentIsLatest /\ CacheServes /\ PageIsAnswer
          /\ RedirectedIsCurrent

-----------------------------------------------------------------------------
(* A redirect target is final: fetching it again does not redirect.        *)
LEMMA FinalUrl ==
    ASSUME NEW u \in Urls
    PROVE  /\ Redirect[u] \in Urls
           /\ Redirect[Redirect[u]] = Redirect[u]
BY VisitAssumptions

(* A step of visit v that only moves its program counter leaves every     *)
(* visit's URL and page, and every other visit's stage, as they were.      *)
LEMMA PcStep ==
    ASSUME NEW vis \in [Visits -> VisitRecord], NEW v \in Visits, NEW p \in Pcs,
           NEW vis2, vis2 = [vis EXCEPT ![v].pc = p]
    PROVE  /\ vis2 \in [Visits -> VisitRecord]
           /\ \A w \in Visits : /\ vis2[w].url = vis[w].url
                                /\ vis2[w].page = vis[w].page
                                /\ vis2[w].pop = vis[w].pop
                                /\ vis2[w].pc = IF w = v THEN p ELSE vis[w].pc
BY DEF VisitRecord

LEMMA InitRExtra == Init => RExtra
BY DEF Init, RExtra, StartedPrefix, CurrentIsLatest, CacheServes, PageIsAnswer,
       RedirectedIsCurrent, IdleVisit, LoadedPcs, Location, Visits


(* A pipeline step that moves visit v between two stages on the same side *)
(* of loading, and leaves the history, the cache, currentPageUrl and       *)
(* nVisits alone, keeps RExtra.                                            *)
LEMMA PcOnlyRExtra ==
    ASSUME IInv, RExtra, NEW v \in Visits, NEW p \in Pcs \ {"idle"},
           visit' = [visit EXCEPT ![v].pc = p],
           visit[v].pc \in LoadedPcs <=> p \in LoadedPcs,
           UNCHANGED <<history, hIndex, currentPageUrl, cache, nVisits>>
    PROVE  RExtra'
<1>1. \A w \in Visits : /\ visit'[w].url = visit[w].url
                        /\ visit'[w].page = visit[w].page
                        /\ visit'[w].pc = IF w = v THEN p ELSE visit[w].pc
  BY PcStep DEF IInv, TypeOK
<1>2. StartedPrefix'
  BY <1>1 DEF StartedPrefix, RExtra
<1>3. CurrentIsLatest'
  BY <1>1 DEF CurrentIsLatest, RExtra, IInv, TypeOK, Visits
<1>4. PageIsAnswer'
  BY <1>1 DEF PageIsAnswer, RExtra
<1> QED
  BY <1>2, <1>3, <1>4 DEF RExtra, CacheServes, RedirectedIsCurrent, Location

(* loadPage takes the page from the cache or the fetch: either way the    *)
(* server's answer for the visit's URL.                                    *)
LEMMA LoadPageRExtra ==
    ASSUME IInv, RExtra, NEW v \in Visits, LoadPage(v)
    PROVE  RExtra'
<1> DEFINE u == visit[v].url
<1>1. u \in Urls /\ visit[v].pc = "load"
  BY DEF LoadPage, IInv, TypeOK, VisitRecord
<1>2. cache[u] # NoPage => cache[u] = Redirect[u]
  BY <1>1 DEF RExtra, CacheServes
<1>3. visit' = [visit EXCEPT ![v].pc = "render", ![v].page = Redirect[u]]
  BY <1>2 DEF LoadPage
<1>4. \A w \in Visits : /\ visit'[w].url = visit[w].url
                        /\ visit'[w].pc = IF w = v THEN "render" ELSE visit[w].pc
                        /\ visit'[w].page = IF w = v THEN Redirect[u] ELSE visit[w].page
  BY <1>3 DEF IInv, TypeOK, VisitRecord
<1>5. CacheServes'
  <2>1. CASE cache[u] # NoPage
    BY <2>1 DEF LoadPage, RExtra, CacheServes
  <2>2. CASE cache[u] = NoPage
    BY <1>1, <2>2, FinalUrl DEF LoadPage, RExtra, CacheServes, IInv, TypeOK
  <2> QED BY <2>1, <2>2
<1>6. PageIsAnswer'
  BY <1>4 DEF PageIsAnswer, RExtra, LoadedPcs
<1>7. StartedPrefix' /\ CurrentIsLatest'
  BY <1>4 DEF LoadPage, StartedPrefix, CurrentIsLatest, RExtra, IInv, TypeOK, Visits
<1> QED
  BY <1>5, <1>6, <1>7 DEF LoadPage, RExtra, RedirectedIsCurrent, Location

(* renderPage past the currency check: a redirected page rewrites the     *)
(* entry to its final URL and caches it there; currentPageUrl is set to a  *)
(* location that is then, by RedirectedIsCurrent, currentPageUrl already.  *)
LEMMA RenderStartRExtra ==
    ASSUME IInv, RExtra, NEW v \in Visits, RenderStart(v)
    PROVE  RExtra'
<1> DEFINE url == visit[v].page
<1>1. /\ visit[v].pc = "render"
      /\ Location = visit[v].url
      /\ visit[v].url \in Urls
      /\ url = Redirect[visit[v].url]
  BY DEF RenderStart, IInv, TypeOK, VisitRecord, RExtra, PageIsAnswer, LoadedPcs
<1>2. url \in Urls /\ Redirect[url] = url
  BY <1>1, FinalUrl
<1>3. \A w \in Visits : /\ visit'[w].url = visit[w].url
                        /\ visit'[w].page = visit[w].page
                        /\ visit'[w].pc = IF w = v THEN "replace" ELSE visit[w].pc
  BY PcStep DEF RenderStart, SetPc, IInv, TypeOK, Pcs
<1>4. StartedPrefix' /\ PageIsAnswer'
  BY <1>3 DEF StartedPrefix, PageIsAnswer, RExtra, LoadedPcs, RenderStart
<1>5. CASE Location # url
  <2>1. Location = currentPageUrl
    BY <1>1, <1>5 DEF RExtra, RedirectedIsCurrent
  <2>2. currentPageUrl' = currentPageUrl /\ nVisits' = nVisits
    BY <1>5, <2>1 DEF RenderStart
  <2>3. CurrentIsLatest'
    BY <1>3, <2>2 DEF CurrentIsLatest, RExtra, IInv, TypeOK, Visits
  <2>4. CacheServes'
    BY <1>2, <1>5 DEF RenderStart, RExtra, CacheServes, IInv, TypeOK
  <2>5. history'[hIndex'].url = url
    BY <1>5 DEF RenderStart, IInv, TypeOK
  <2>6. RedirectedIsCurrent'
    BY <1>2, <2>5 DEF RedirectedIsCurrent, Location
  <2> QED BY <1>4, <2>3, <2>4, <2>6 DEF RExtra
<1>6. CASE Location = url
  <2>1. UNCHANGED <<cache, currentPageUrl, history, hIndex, nVisits>>
    BY <1>6 DEF RenderStart
  <2> QED
    BY <1>3, <1>4, <2>1 DEF RExtra, CurrentIsLatest, CacheServes, RedirectedIsCurrent,
       Location, IInv, TypeOK, Visits
<1> QED BY <1>5, <1>6


(* renderPage's last statements may empty the cache, which keeps it       *)
(* serving nothing but the server's answers.                               *)
LEMMA RenderFinishRExtra ==
    ASSUME IInv, RExtra, NEW v \in Visits, RenderFinish(v)
    PROVE  RExtra'
<1>1. \A w \in Visits : /\ visit'[w].url = visit[w].url
                        /\ visit'[w].page = visit[w].page
                        /\ visit'[w].pc = IF w = v THEN "enter" ELSE visit[w].pc
  BY PcStep DEF RenderFinish, SetPc, IInv, TypeOK, Pcs
<1>2. visit[v].pc = "finish"
  BY DEF RenderFinish
<1>3. CacheServes'
  BY DEF RenderFinish, RExtra, CacheServes
<1> QED
  BY <1>1, <1>2, <1>3 DEF RenderFinish, RExtra, StartedPrefix, CurrentIsLatest,
     PageIsAnswer, RedirectedIsCurrent, Location, LoadedPcs, IInv, TypeOK, Visits

(* Every step of the visit pipeline keeps RExtra.                          *)
LEMMA VisitStepRExtra ==
    ASSUME IInv, RExtra, NEW v \in Visits, VisitStep(v)
    PROVE  RExtra'
<1>1. CASE LeaveSkip(v)
  BY <1>1, PcOnlyRExtra DEF LeaveSkip, SetPc, Pcs, LoadedPcs
<1>2. CASE LeaveStart(v)
  BY <1>2, PcOnlyRExtra DEF LeaveStart, SetPc, Pcs, LoadedPcs
<1>3. CASE AnimOutDone(v)
  BY <1>3, PcOnlyRExtra DEF AnimOutDone, SetPc, Pcs, LoadedPcs
<1>4. CASE LoadPage(v)
  BY <1>4, LoadPageRExtra
<1>5. CASE RenderStale(v)
  BY <1>5, PcOnlyRExtra DEF RenderStale, SetPc, Pcs, LoadedPcs
<1>6. CASE RenderStart(v)
  BY <1>6, RenderStartRExtra
<1>7. CASE ReplaceContent(v)
  BY <1>7, PcOnlyRExtra DEF ReplaceContent, SetPc, Pcs, LoadedPcs
<1>8. CASE RenderFinish(v)
  BY <1>8, RenderFinishRExtra
<1>9. CASE EnterSkip(v)
  BY <1>9, PcOnlyRExtra DEF EnterSkip, SetPc, Pcs, LoadedPcs
<1>10. CASE EnterStart(v)
  BY <1>10, PcOnlyRExtra DEF EnterStart, SetPc, Pcs, LoadedPcs
<1>11. CASE AnimInDone(v)
  BY <1>11, PcOnlyRExtra DEF AnimInDone, SetPc, Pcs, LoadedPcs
<1> QED
  BY <1>1, <1>2, <1>3, <1>4, <1>5, <1>6, <1>7, <1>8, <1>9, <1>10, <1>11
     DEF VisitStep


(* loadPage starting visit nVisits + 1 for u, where the step also takes   *)
(* the location to u and leaves the cache alone, keeps RExtra.             *)
LEMMA StartVisitRExtra ==
    ASSUME IInv, RExtra, NEW u \in Urls, NEW pop \in BOOLEAN, StartVisit(u, pop),
           cache' = cache, Location' = u
    PROVE  RExtra'
<1> DEFINE v == nVisits + 1
<1>1. v \in Visits /\ visit[v].pc = "idle"
  BY VisitAssumptions DEF StartVisit, IInv, TypeOK, UnstartedIdle, Visits
<1> DEFINE rec == [pc |-> "leave", url |-> u, pop |-> pop,
                    skip |-> pop /\ ~AnimateHistoryBrowsing, page |-> NoPage]
<1>2. visit' = [visit EXCEPT ![v] = rec]
  BY DEF StartVisit
<1>3. \A w \in Visits : visit'[w] = IF w = v THEN rec ELSE visit[w]
  BY <1>1, <1>2 DEF IInv, TypeOK
<1>4. nVisits' = v /\ currentPageUrl' = u /\ v # 0
  BY DEF StartVisit, IInv, TypeOK
<1>5. StartedPrefix'
  BY <1>1, <1>3, <1>4 DEF StartedPrefix, RExtra, IInv, TypeOK, Visits
<1>6. CurrentIsLatest'
  BY <1>1, <1>3, <1>4 DEF CurrentIsLatest
<1>7. PageIsAnswer'
  BY <1>1, <1>3 DEF PageIsAnswer, RExtra, LoadedPcs
<1>8. RedirectedIsCurrent'
  BY <1>4 DEF RedirectedIsCurrent
<1> QED
  BY <1>5, <1>6, <1>7, <1>8 DEF RExtra, CacheServes

LEMMA LinkClickRExtra ==
    ASSUME IInv, RExtra, NEW u \in Urls, NEW a \in Anchors \cup {NoAnchor}, LinkClick(u, a)
    PROVE  RExtra'
<1>1. history \in Seq(Entry) /\ hIndex \in 1..Len(history)
  BY DEF IInv, TypeOK
<1>2. [url |-> u, anchor |-> a] \in Entry
  BY DEF Entry
<1>3. Len(history') = hIndex + 1
  BY <1>1, <1>2, PushEntry DEF LinkClick
<1>4. history'[hIndex'] = [url |-> u, anchor |-> a]
  BY <1>1, <1>3 DEF LinkClick
<1>5. Location' = u
  BY <1>4 DEF Location
<1> QED
  BY <1>5, StartVisitRExtra DEF LinkClick

LEMMA PopStateVisitRExtra ==
    ASSUME IInv, RExtra, NEW i \in OtherEntries, PopStateVisit(i)
    PROVE  RExtra'
<1>1. i \in 1..Len(history) /\ history \in Seq(Entry)
  BY DEF IInv, TypeOK, OtherEntries
<1>2. history[i].url \in Urls
  <2>1. history[i] \in Entry
    BY <1>1, ElementOfSeq
  <2> QED BY <2>1 DEF Entry
<1>3. Location' = history[i].url
  BY DEF PopStateVisit, Location
<1> QED
  BY <1>2, <1>3, StartVisitRExtra DEF PopStateVisit

LEMMA PopStateIgnoredRExtra ==
    ASSUME IInv, RExtra, NEW i \in OtherEntries, PopStateIgnored(i)
    PROVE  RExtra'
<1>1. Location' = currentPageUrl
  BY DEF PopStateIgnored, Location
<1> QED
  BY <1>1 DEF PopStateIgnored, RExtra, StartedPrefix, CurrentIsLatest, CacheServes,
     PageIsAnswer, RedirectedIsCurrent

LEMMA LinkToSamePageRExtra ==
    ASSUME IInv, RExtra, NEW a \in Anchors, LinkToSamePage(a)
    PROVE  RExtra'
<1>1. Location' = Location
  BY DEF LinkToSamePage, Location, IInv, TypeOK
<1> QED
  BY <1>1 DEF LinkToSamePage, RExtra, StartedPrefix, CurrentIsLatest, CacheServes,
     PageIsAnswer, RedirectedIsCurrent

(* Every step keeps RInv.                                                  *)
LEMMA NextRInv == RInv /\ [Next]_vars => RInv'
<1> SUFFICES ASSUME IInv, RExtra, [Next]_vars PROVE IInv' /\ RExtra'
  BY DEF RInv, RExtra
<1>1. IInv'
  BY NextIInv
<1>2. RExtra'
  <2>1. CASE \E u \in Urls, a \in Anchors \cup {NoAnchor} : LinkClick(u, a)
    BY <2>1, LinkClickRExtra
  <2>2. CASE \E a \in Anchors : LinkToSamePage(a)
    BY <2>2, LinkToSamePageRExtra
  <2>3. CASE \E i \in OtherEntries : PopStateIgnored(i)
    BY <2>3, PopStateIgnoredRExtra
  <2>4. CASE \E i \in OtherEntries : PopStateVisit(i)
    BY <2>4, PopStateVisitRExtra
  <2>5. CASE \E v \in Visits : VisitStep(v)
    BY <2>5, VisitStepRExtra
  <2>6. CASE UNCHANGED vars
    BY <2>6 DEF vars, RExtra, StartedPrefix, CurrentIsLatest, CacheServes,
       PageIsAnswer, RedirectedIsCurrent, Location
  <2> QED
    BY <2>1, <2>2, <2>3, <2>4, <2>5, <2>6 DEF Next
<1> QED
  BY <1>1, <1>2

LEMMA InitRInv == Init => RInv
BY InitIInv, InitRExtra DEF RInv, RExtra

-----------------------------------------------------------------------------
(* The abstract variables, as functions of a table of visits.              *)
APhase(vis) == [w \in Visits |-> Phase(vis[w].pc)]
AUrl(vis) == [w \in Visits |-> vis[w].url]
APop(vis) == [w \in Visits |-> vis[w].pop]
APage(vis) == [w \in Visits |-> vis[w].page]

(* The phase of each stage of the pipeline.                                *)
LEMMA PhaseValues ==
    /\ Phase("idle") = "idle"
    /\ Phase("leave") = "leaving" /\ Phase("animOut") = "leaving"
    /\ Phase("load") = "loading"
    /\ Phase("render") = "rendering"
    /\ Phase("replace") = "replacing"
    /\ Phase("finish") = "entering" /\ Phase("enter") = "entering"
    /\ Phase("animIn") = "entering"
    /\ Phase("done") = "done" /\ Phase("aborted") = "aborted"
BY DEF Phase

(* Only the idle stage has the idle phase.                                 *)
LEMMA PhaseIdle ==
    ASSUME NEW p \in Pcs
    PROVE  Phase(p) = "idle" <=> p = "idle"
BY DEF Phase, Pcs

(* The initial state of the pipeline is an initial state of the lifecycle. *)
LEMMA InitRefines == Init => Lifecycle!Init
<1> SUFFICES ASSUME Init PROVE Lifecycle!Init
  OBVIOUS
<1>1. visit = [w \in Visits |-> IdleVisit]
  BY DEF Init
<1>2. APhase(visit) = [w \in Visits |-> "idle"]
  BY <1>1, PhaseValues DEF APhase, IdleVisit
<1>3. AUrl(visit) \in [Visits -> Urls] /\ APop(visit) \in [Visits -> BOOLEAN]
  <2>1. \A w \in Visits : visit[w].url = InitialUrl /\ visit[w].pop = FALSE
    BY <1>1 DEF IdleVisit
  <2> QED
    BY <2>1, VisitAssumptions DEF AUrl, APop
<1>4. APage(visit) = [w \in Visits |-> NoPage]
  BY <1>1 DEF APage, IdleVisit
<1>5. Location = InitialUrl /\ content = InitialUrl
  BY DEF Init, Location
<1> QED
  BY <1>2, <1>3, <1>4, <1>5 DEF Lifecycle!Init, APhase, AUrl, APop, APage

(* The lifecycle's target, the URL of the latest visit started, is         *)
(* popStateHandler's currentPageUrl.                                       *)
LEMMA TargetIsCurrent ==
    ASSUME RInv
    PROVE  Lifecycle!Target = currentPageUrl
<1>1. nVisits \in 0..MaxVisits /\ visit \in [Visits -> VisitRecord]
  BY DEF RInv, IInv, TypeOK
<1>2. \A w \in Visits : Phase(visit[w].pc) # "idle" <=> w <= nVisits
  <2> TAKE w \in Visits
  <2>1. visit[w].pc \in Pcs
    BY <1>1 DEF VisitRecord
  <2>2. visit[w].pc # "idle" <=> w <= nVisits
    BY <1>1 DEF RInv, StartedPrefix, IInv, UnstartedIdle, Visits
  <2> QED
    BY <2>1, <2>2, PhaseIdle
<1>3. Lifecycle!Started = 1..nVisits
  BY <1>1, <1>2, VisitAssumptions DEF Lifecycle!Started, Visits
<1>4. CASE nVisits = 0
  BY <1>3, <1>4 DEF Lifecycle!Target, RInv, CurrentIsLatest
<1>5. CASE nVisits # 0
  <2> DEFINE S == 1..nVisits
  <2>1. \E x \in S : \A w \in S : w <= x
    BY <1>1, <1>5
  <2>2. \A x \in S : (\A w \in S : w <= x) => x = nVisits
    BY <1>1, <1>5
  <2>3. (CHOOSE x \in S : \A w \in S : w <= x) = nVisits
    BY <2>1, <2>2
  <2>4. nVisits \in Visits
    BY <1>1, <1>5 DEF Visits
  <2>5. Lifecycle!Started # {}
    BY <1>1, <1>3, <1>5
  <2>7. (CHOOSE x \in Lifecycle!Started : \A w \in Lifecycle!Started : w <= x) = nVisits
    BY <1>3, <2>3, Zenon
  <2>6. Lifecycle!Target = visit[nVisits].url
    BY <2>4, <2>5, <2>7 DEF Lifecycle!Target
  <2> QED
    BY <1>5, <2>6 DEF RInv, CurrentIsLatest
<1> QED
  BY <1>4, <1>5

(* loadPage starting visit nVisits + 1 for u is the lifecycle's Begin of   *)
(* that slot, but for the guard on the URL.                                *)
LEMMA StartRefines ==
    ASSUME RInv, NEW u \in Urls, NEW pop \in BOOLEAN, StartVisit(u, pop),
           content' = content
    PROVE  LET v == nVisits + 1 IN
           /\ v \in Visits
           /\ APhase(visit)[v] = "idle"
           /\ \A w \in Visits : w < v => APhase(visit)[w] # "idle"
           /\ APhase(visit') = [APhase(visit) EXCEPT ![v] = "leaving"]
           /\ AUrl(visit') = [AUrl(visit) EXCEPT ![v] = u]
           /\ APop(visit') = [APop(visit) EXCEPT ![v] = pop]
           /\ APage(visit') = APage(visit)
<1> DEFINE v == nVisits + 1
<1> DEFINE rec == [pc |-> "leave", url |-> u, pop |-> pop,
                   skip |-> pop /\ ~AnimateHistoryBrowsing, page |-> NoPage]
<1>1. v \in Visits /\ visit[v].pc = "idle" /\ visit \in [Visits -> VisitRecord]
  BY VisitAssumptions DEF RInv, StartVisit, IInv, TypeOK, UnstartedIdle, Visits
<1>2. \A w \in Visits : visit'[w] = IF w = v THEN rec ELSE visit[w]
  BY <1>1 DEF StartVisit
<1>3. visit[v].page = NoPage
  BY <1>1 DEF RInv, PageIsAnswer, LoadedPcs
<1>4. \A w \in Visits : w < v => APhase(visit)[w] # "idle"
  <2> TAKE w \in Visits
  <2>1. visit[w].pc \in Pcs
    BY <1>1 DEF VisitRecord
  <2>2. w < v => visit[w].pc # "idle"
    BY <1>1 DEF RInv, StartedPrefix, IInv, TypeOK, Visits
  <2> QED
    BY <2>1, <2>2, PhaseIdle DEF APhase
<1>5. APhase(visit)[v] = "idle"
  BY <1>1, PhaseValues DEF APhase
<1>6. APhase(visit') = [APhase(visit) EXCEPT ![v] = "leaving"]
  <2>1. \A w \in Visits : visit'[w].pc = IF w = v THEN "leave" ELSE visit[w].pc
    BY <1>2
  <2>2. \A w \in Visits : Phase(visit'[w].pc) = IF w = v THEN "leaving" ELSE Phase(visit[w].pc)
    BY <2>1, PhaseValues
  <2> QED
    BY <1>1, <2>2 DEF APhase
<1>7. AUrl(visit') = [AUrl(visit) EXCEPT ![v] = u]
  <2>1. \A w \in Visits : visit'[w].url = IF w = v THEN u ELSE visit[w].url
    BY <1>2
  <2> QED
    BY <1>1, <2>1 DEF AUrl
<1>8. APop(visit') = [APop(visit) EXCEPT ![v] = pop]
  <2>1. \A w \in Visits : visit'[w].pop = IF w = v THEN pop ELSE visit[w].pop
    BY <1>2
  <2> QED
    BY <1>1, <2>1 DEF APop
<1>9. APage(visit') = APage(visit)
  <2>1. \A w \in Visits : visit'[w].page = visit[w].page
    BY <1>2, <1>3
  <2> QED
    BY <2>1 DEF APage
<1> QED
  BY <1>1, <1>4, <1>5, <1>6, <1>7, <1>8, <1>9

(* A step of visit v that only moves its stage to p, and leaves the        *)
(* history and the content alone.                                          *)
LEMMA PcRefines ==
    ASSUME IInv, NEW v \in Visits, NEW p \in Pcs, visit' = [visit EXCEPT ![v].pc = p],
           UNCHANGED <<history, hIndex, content>>
    PROVE  /\ APhase(visit') = [APhase(visit) EXCEPT ![v] = Phase(p)]
           /\ APhase(visit)[v] = Phase(visit[v].pc)
           /\ AUrl(visit') = AUrl(visit)
           /\ APop(visit') = APop(visit)
           /\ APage(visit') = APage(visit)
           /\ Location' = Location
<1>1. visit \in [Visits -> VisitRecord]
  BY DEF IInv, TypeOK
<1>2. APhase(visit)[v] = Phase(visit[v].pc)
  BY DEF APhase
<1>3. \A w \in Visits : /\ visit'[w].url = visit[w].url
                        /\ visit'[w].page = visit[w].page
                        /\ visit'[w].pop = visit[w].pop
                        /\ visit'[w].pc = IF w = v THEN p ELSE visit[w].pc
  BY <1>1, PcStep
<1>5. APhase(visit') = [APhase(visit) EXCEPT ![v] = Phase(p)]
  <2>1. \A w \in Visits : Phase(visit'[w].pc) = IF w = v THEN Phase(p) ELSE Phase(visit[w].pc)
    BY <1>3
  <2> QED
    BY <2>1 DEF APhase
<1>6. AUrl(visit') = AUrl(visit) /\ APop(visit') = APop(visit) /\ APage(visit') = APage(visit)
  BY <1>3 DEF AUrl, APop, APage
<1>4. Location' = Location
  BY DEF Location
<1> QED
  BY <1>2, <1>4, <1>5, <1>6

(* A step that leaves the lifecycle's variables as they are.               *)
LEMMA SamePhaseStutters ==
    ASSUME IInv, NEW v \in Visits, NEW p \in Pcs, visit' = [visit EXCEPT ![v].pc = p],
           Phase(p) = Phase(visit[v].pc), UNCHANGED <<history, hIndex, content>>
    PROVE  UNCHANGED Lifecycle!absVars
<1>1. /\ APhase(visit') = [APhase(visit) EXCEPT ![v] = Phase(p)]
      /\ APhase(visit)[v] = Phase(visit[v].pc)
      /\ AUrl(visit') = AUrl(visit)
      /\ APop(visit') = APop(visit)
      /\ APage(visit') = APage(visit)
      /\ Location' = Location
  BY PcRefines
<1>2. APhase(visit') = APhase(visit)
  BY <1>1 DEF APhase
<1> QED
  BY <1>1, <1>2 DEF Lifecycle!absVars, APhase, AUrl, APop, APage

(* The history entry a click pushes is the current one: its path is u.    *)
LEMMA LinkClickLocation ==
    ASSUME IInv, NEW u \in Urls, NEW a \in Anchors \cup {NoAnchor}, LinkClick(u, a)
    PROVE  Location' = u
<1>1. history \in Seq(Entry) /\ hIndex \in 1..Len(history)
  BY DEF IInv, TypeOK
<1>2. [url |-> u, anchor |-> a] \in Entry
  BY DEF Entry
<1>3. Len(history') = hIndex + 1
  BY <1>1, <1>2, PushEntry DEF LinkClick
<1>4. history'[hIndex'] = [url |-> u, anchor |-> a]
  BY <1>1, <1>3 DEF LinkClick
<1> QED
  BY <1>4 DEF Location

(* A click on a link to another page begins the next visit.               *)
LEMMA LinkClickRefines ==
    ASSUME RInv, NEW u \in Urls, NEW a \in Anchors \cup {NoAnchor}, LinkClick(u, a)
    PROVE  Lifecycle!Begin(nVisits + 1, u, FALSE)
<1>1. Location' = u
  BY LinkClickLocation DEF RInv
<1>2. LET v == nVisits + 1 IN
      /\ v \in Visits
      /\ APhase(visit)[v] = "idle"
      /\ \A w \in Visits : w < v => APhase(visit)[w] # "idle"
      /\ APhase(visit') = [APhase(visit) EXCEPT ![v] = "leaving"]
      /\ AUrl(visit') = [AUrl(visit) EXCEPT ![v] = u]
      /\ APop(visit') = [APop(visit) EXCEPT ![v] = FALSE]
      /\ APage(visit') = APage(visit)
  BY StartRefines DEF LinkClick
<1> QED
  BY <1>1, <1>2 DEF LinkClick, Lifecycle!Begin, Lifecycle!Advance,
     APhase, AUrl, APop, APage

(* A history move to an entry of another page than currentPageUrl begins  *)
(* the next visit: that page is not the lifecycle's target.                *)
LEMMA PopStateVisitRefines ==
    ASSUME RInv, NEW i \in OtherEntries, PopStateVisit(i)
    PROVE  Lifecycle!Begin(nVisits + 1, history[i].url, TRUE)
<1> DEFINE u == history[i].url
<1>1. u \in Urls
  <2>1. i \in 1..Len(history) /\ history \in Seq(Entry)
    BY DEF RInv, IInv, TypeOK, OtherEntries
  <2>2. history[i] \in Entry
    BY <2>1, ElementOfSeq
  <2> QED
    BY <2>2 DEF Entry
<1>2. Location' = u /\ u # Lifecycle!Target
  BY TargetIsCurrent DEF PopStateVisit, Location
<1>3. LET v == nVisits + 1 IN
      /\ v \in Visits
      /\ APhase(visit)[v] = "idle"
      /\ \A w \in Visits : w < v => APhase(visit)[w] # "idle"
      /\ APhase(visit') = [APhase(visit) EXCEPT ![v] = "leaving"]
      /\ AUrl(visit') = [AUrl(visit) EXCEPT ![v] = u]
      /\ APop(visit') = [APop(visit) EXCEPT ![v] = TRUE]
      /\ APage(visit') = APage(visit)
  BY <1>1, StartRefines DEF PopStateVisit
<1> QED
  BY <1>2, <1>3 DEF PopStateVisit, Lifecycle!Begin, Lifecycle!Advance,
     APhase, AUrl, APop, APage

(* A history move to an entry of currentPageUrl is the lifecycle's Return. *)
LEMMA PopStateIgnoredRefines ==
    ASSUME RInv, NEW i \in OtherEntries, PopStateIgnored(i)
    PROVE  Lifecycle!Return
<1>1. Location' = Lifecycle!Target
  BY TargetIsCurrent DEF PopStateIgnored, Location
<1> QED
  BY <1>1 DEF PopStateIgnored, Lifecycle!Return

(* Replacing the current entry with one of the same path and a hash       *)
(* changes nothing the lifecycle sees.                                     *)
LEMMA LinkToSamePageRefines ==
    ASSUME RInv, NEW a \in Anchors, LinkToSamePage(a)
    PROVE  UNCHANGED Lifecycle!absVars
<1>1. Location' = Location
  BY DEF LinkToSamePage, Location, RInv, IInv, TypeOK
<1> QED
  BY <1>1 DEF LinkToSamePage, Lifecycle!absVars

(* loadPage takes visit v to rendering with the server's answer for its   *)
(* URL, whether from the cache or from the fetch.                          *)
LEMMA LoadPageRefines ==
    ASSUME RInv, NEW v \in Visits, LoadPage(v)
    PROVE  Lifecycle!Load(v)
<1> DEFINE u == visit[v].url
<1>1. u \in Urls /\ visit \in [Visits -> VisitRecord]
  BY DEF LoadPage, RInv, IInv, TypeOK, VisitRecord
<1>2. visit' = [visit EXCEPT ![v].pc = "render", ![v].page = Redirect[u]]
  <2>1. cache[u] # NoPage => cache[u] = Redirect[u]
    BY <1>1 DEF RInv, CacheServes
  <2> QED
    BY <2>1 DEF LoadPage
<1>3. \A w \in Visits : /\ visit'[w].url = visit[w].url
                        /\ visit'[w].pop = visit[w].pop
                        /\ visit'[w].page = IF w = v THEN Redirect[u] ELSE visit[w].page
                        /\ visit'[w].pc = IF w = v THEN "render" ELSE visit[w].pc
  BY <1>1, <1>2 DEF VisitRecord
<1>4. APhase(visit') = [APhase(visit) EXCEPT ![v] = "rendering"]
  <2>1. \A w \in Visits : Phase(visit'[w].pc) = IF w = v THEN "rendering" ELSE Phase(visit[w].pc)
    BY <1>3, PhaseValues
  <2> QED
    BY <2>1 DEF APhase
<1>5. APage(visit') = [APage(visit) EXCEPT ![v] = Redirect[AUrl(visit)[v]]]
  BY <1>3 DEF APage, AUrl
<1>6. AUrl(visit') = AUrl(visit) /\ APop(visit') = APop(visit)
  BY <1>3 DEF AUrl, APop
<1>7. APhase(visit)[v] = "loading"
  BY PhaseValues DEF LoadPage, APhase
<1> QED
  BY <1>4, <1>5, <1>6, <1>7 DEF LoadPage, Lifecycle!Load, Lifecycle!Advance, Location,
     APhase, AUrl, APop, APage

(* renderPage on a current visit commits it: the location becomes the     *)
(* page's final URL, by replaceState when the fetch was redirected.        *)
LEMMA RenderStartRefines ==
    ASSUME RInv, NEW v \in Visits, RenderStart(v)
    PROVE  Lifecycle!Commit(v)
<1>1. /\ APhase(visit') = [APhase(visit) EXCEPT ![v] = Phase("replace")]
      /\ AUrl(visit') = AUrl(visit)
      /\ APop(visit') = APop(visit)
      /\ APage(visit') = APage(visit)
  <2>1. visit' = [visit EXCEPT ![v].pc = "replace"]
    BY DEF RenderStart, SetPc
  <2>2. \A w \in Visits : /\ visit'[w].url = visit[w].url
                          /\ visit'[w].page = visit[w].page
                          /\ visit'[w].pop = visit[w].pop
                          /\ visit'[w].pc = IF w = v THEN "replace" ELSE visit[w].pc
    BY <2>1, PcStep DEF RInv, IInv, TypeOK, Pcs
  <2>3. APhase(visit') = [APhase(visit) EXCEPT ![v] = Phase("replace")]
    <3>1. \A w \in Visits : Phase(visit'[w].pc) =
                              IF w = v THEN Phase("replace") ELSE Phase(visit[w].pc)
      BY <2>2
    <3> QED
      BY <3>1 DEF APhase
  <2> QED
    BY <2>2, <2>3 DEF AUrl, APop, APage
<1>2. Location' = visit[v].page
  <2>1. history \in Seq(Entry) /\ hIndex \in 1..Len(history)
    BY DEF RInv, IInv, TypeOK
  <2>2. CASE Location # visit[v].page
    BY <2>1, <2>2 DEF RenderStart, Location
  <2>3. CASE Location = visit[v].page
    BY <2>3 DEF RenderStart, Location
  <2> QED
    BY <2>2, <2>3
<1> QED
  BY <1>1, <1>2, PhaseValues DEF RenderStart, Lifecycle!Commit, Lifecycle!Advance,
     APhase, AUrl, APop, APage

(* Every step of the pipeline is a step of the lifecycle or leaves it     *)
(* where it is.                                                            *)
LEMMA VisitStepRefines ==
    ASSUME RInv, NEW v \in Visits, VisitStep(v)
    PROVE  [Lifecycle!Next]_Lifecycle!absVars
<1> DEFINE Moved(p) ==
      /\ APhase(visit') = [APhase(visit) EXCEPT ![v] = Phase(p)]
      /\ APhase(visit)[v] = Phase(visit[v].pc)
      /\ AUrl(visit') = AUrl(visit)
      /\ APop(visit') = APop(visit)
      /\ APage(visit') = APage(visit)
      /\ Location' = Location
<1>0. IInv
  BY DEF RInv
<1>1. CASE LeaveSkip(v)
  <2>1. Moved("load")
    BY <1>0, <1>1, PcRefines DEF LeaveSkip, SetPc, Pcs
  <2>2. Lifecycle!Leave(v)
    BY <1>1, <2>1, PhaseValues DEF LeaveSkip, Lifecycle!Leave, Lifecycle!Advance,
       APhase, AUrl, APop, APage
  <2> QED
    BY <2>2 DEF Lifecycle!Next
<1>2. CASE LeaveStart(v)
  BY <1>0, <1>2, SamePhaseStutters, PhaseValues DEF LeaveStart, SetPc, Pcs
<1>3. CASE AnimOutDone(v)
  <2>1. Moved("load")
    BY <1>0, <1>3, PcRefines DEF AnimOutDone, SetPc, Pcs
  <2>2. Lifecycle!Leave(v)
    BY <1>3, <2>1, PhaseValues DEF AnimOutDone, Lifecycle!Leave, Lifecycle!Advance,
       APhase, AUrl, APop, APage
  <2> QED
    BY <2>2 DEF Lifecycle!Next
<1>4. CASE LoadPage(v)
  BY <1>4, LoadPageRefines DEF Lifecycle!Next
<1>5. CASE RenderStale(v)
  <2>1. Moved("aborted")
    BY <1>0, <1>5, PcRefines DEF RenderStale, SetPc, Pcs
  <2>2. Lifecycle!Abandon(v)
    BY <1>5, <2>1, PhaseValues DEF RenderStale, Lifecycle!Abandon, Lifecycle!Advance,
       APhase, AUrl, APop, APage
  <2> QED
    BY <2>2 DEF Lifecycle!Next
<1>6. CASE RenderStart(v)
  BY <1>6, RenderStartRefines DEF Lifecycle!Next
<1>7. CASE ReplaceContent(v)
  <2>1. /\ APhase(visit') = [APhase(visit) EXCEPT ![v] = Phase("finish")]
        /\ AUrl(visit') = AUrl(visit)
        /\ APop(visit') = APop(visit)
        /\ APage(visit') = APage(visit)
        /\ Location' = Location
    <3>1. visit' = [visit EXCEPT ![v].pc = "finish"] /\ UNCHANGED <<history, hIndex>>
      BY <1>7 DEF ReplaceContent, SetPc
    <3>2. \A w \in Visits : /\ visit'[w].url = visit[w].url
                            /\ visit'[w].page = visit[w].page
                            /\ visit'[w].pop = visit[w].pop
                            /\ visit'[w].pc = IF w = v THEN "finish" ELSE visit[w].pc
      BY <1>0, <3>1, PcStep DEF IInv, TypeOK, Pcs
    <3>3. \A w \in Visits : Phase(visit'[w].pc) =
                              IF w = v THEN Phase("finish") ELSE Phase(visit[w].pc)
      BY <3>2
    <3> QED
      BY <3>1, <3>2, <3>3 DEF APhase, AUrl, APop, APage, Location
  <2>2. Lifecycle!Show(v)
    BY <1>7, <2>1, PhaseValues DEF ReplaceContent, Lifecycle!Show, Lifecycle!Advance,
       APhase, AUrl, APop, APage
  <2> QED
    BY <2>2 DEF Lifecycle!Next
<1>8. CASE RenderFinish(v)
  BY <1>0, <1>8, SamePhaseStutters, PhaseValues DEF RenderFinish, SetPc, Pcs
<1>9. CASE EnterSkip(v)
  <2>1. Moved("done")
    BY <1>0, <1>9, PcRefines DEF EnterSkip, SetPc, Pcs
  <2>2. Lifecycle!Finish(v)
    BY <1>9, <2>1, PhaseValues DEF EnterSkip, Lifecycle!Finish, Lifecycle!Advance,
       APhase, AUrl, APop, APage
  <2> QED
    BY <2>2 DEF Lifecycle!Next
<1>10. CASE EnterStart(v)
  BY <1>0, <1>10, SamePhaseStutters, PhaseValues DEF EnterStart, SetPc, Pcs
<1>11. CASE AnimInDone(v)
  <2>1. Moved("done")
    BY <1>0, <1>11, PcRefines DEF AnimInDone, SetPc, Pcs
  <2>2. Lifecycle!Finish(v)
    BY <1>11, <2>1, PhaseValues DEF AnimInDone, Lifecycle!Finish, Lifecycle!Advance,
       APhase, AUrl, APop, APage
  <2> QED
    BY <2>2 DEF Lifecycle!Next
<1> QED
  BY <1>1, <1>2, <1>3, <1>4, <1>5, <1>6, <1>7, <1>8, <1>9, <1>10, <1>11
     DEF VisitStep

(* Under RInv every step of the pipeline maps to a step of the lifecycle   *)
(* or to a stutter.                                                        *)
LEMMA NextRefines == RInv /\ [Next]_vars => [Lifecycle!Next]_Lifecycle!absVars
<1> SUFFICES ASSUME RInv, [Next]_vars PROVE [Lifecycle!Next]_Lifecycle!absVars
  OBVIOUS
<1>1. CASE \E u \in Urls, a \in Anchors \cup {NoAnchor} : LinkClick(u, a)
  <2>1. PICK u \in Urls, a \in Anchors \cup {NoAnchor} : LinkClick(u, a)
    BY <1>1
  <2>2. Lifecycle!Begin(nVisits + 1, u, FALSE) /\ nVisits + 1 \in Visits
    <3>1. Lifecycle!Begin(nVisits + 1, u, FALSE)
      BY <2>1, LinkClickRefines
    <3>2. nVisits + 1 \in Visits
      BY <2>1, VisitAssumptions DEF LinkClick, StartVisit, RInv, IInv, TypeOK, Visits
    <3> QED
      BY <3>1, <3>2
  <2>3. \E vv \in Visits, uu \in Urls, pop \in BOOLEAN : Lifecycle!Begin(vv, uu, pop)
    BY <2>1, <2>2, Zenon
  <2> QED
    BY <2>3, Zenon DEF Lifecycle!Next
<1>2. CASE \E a \in Anchors : LinkToSamePage(a)
  BY <1>2, LinkToSamePageRefines
<1>3. CASE \E i \in OtherEntries : PopStateIgnored(i)
  BY <1>3, PopStateIgnoredRefines DEF Lifecycle!Next
<1>4. CASE \E i \in OtherEntries : PopStateVisit(i)
  <2>1. PICK i \in OtherEntries : PopStateVisit(i)
    BY <1>4
  <2>2. history[i].url \in Urls
    <3>1. i \in 1..Len(history) /\ history \in Seq(Entry)
      BY DEF RInv, IInv, TypeOK, OtherEntries
    <3>2. history[i] \in Entry
      BY <3>1, ElementOfSeq
    <3> QED
      BY <3>2 DEF Entry
  <2>3. Lifecycle!Begin(nVisits + 1, history[i].url, TRUE) /\ nVisits + 1 \in Visits
    <3>1. Lifecycle!Begin(nVisits + 1, history[i].url, TRUE)
      BY <2>1, PopStateVisitRefines
    <3>2. nVisits + 1 \in Visits
      BY <2>1, VisitAssumptions DEF PopStateVisit, StartVisit, RInv, IInv, TypeOK, Visits
    <3> QED
      BY <3>1, <3>2
  <2>4. \E vv \in Visits, uu \in Urls, pop \in BOOLEAN : Lifecycle!Begin(vv, uu, pop)
    BY <2>2, <2>3, Zenon
  <2> QED
    BY <2>4, Zenon DEF Lifecycle!Next
<1>5. CASE \E v \in Visits : VisitStep(v)
  BY <1>5, VisitStepRefines
<1>6. CASE UNCHANGED vars
  BY <1>6 DEF vars, Lifecycle!absVars, Location
<1> QED
  BY <1>1, <1>2, <1>3, <1>4, <1>5, <1>6 DEF Next

(* The pipeline of loadPage, leavePage, renderPage and enterPage, run by   *)
(* link clicks and popstate events with every await interleaved, behaves   *)
(* as the lifecycle of spec 3 and 5 for every value of the constants:      *)
(* popStateHandler's currentPageUrl comparison starts a visit exactly for  *)
(* an entry of another page than the latest visit's, the cache only ever   *)
(* serves the server's answer for a URL, and renderPage commits a visit    *)
(* only while its URL is the location.                                     *)
THEOREM Refinement == Spec => LifecycleSpec
<1>1. Init => RInv
  BY InitRInv
<1>2. RInv /\ [Next]_vars => RInv'
  BY NextRInv
<1>3. Init => Lifecycle!Init
  BY InitRefines
<1>4. RInv /\ [Next]_vars => [Lifecycle!Next]_Lifecycle!absVars
  BY NextRefines
<1> QED
  BY <1>1, <1>2, <1>3, <1>4, PTL DEF Spec, LifecycleSpec, Lifecycle!Spec

=============================================================================
