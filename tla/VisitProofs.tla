---------------------------- MODULE VisitProofs ----------------------------
(***************************************************************************)
(* Proofs about the visit lifecycle (module Visit), for every value of the *)
(* constants that satisfies VisitAssumptions.                              *)
(*                                                                         *)
(* TypeOK and LeavingClassOnlyWhileLeaving are not inductive by            *)
(* themselves: a visit slot that loadPage is about to fill must not be one *)
(* of the leaving visits, and renderPage may only use a page that          *)
(* loadPage has set.  IInv adds these two facts.                           *)
(***************************************************************************)
EXTENDS Visit, SequenceTheorems, TLAPS

USE VisitAssumptions

(* Slots after the last visit started are unused.                          *)
UnstartedIdle == \A v \in Visits : v > nVisits => visit[v].pc = "idle"

(* The stages at which loadPage has already produced the visit's page.     *)
LoadedPcs == {"render", "replace", "finish", "enter", "animIn", "done", "aborted"}

(* Once loaded, a visit's page is a real document, not a cache miss.       *)
PageLoaded == \A v \in Visits : visit[v].pc \in LoadedPcs => visit[v].page \in Urls

IInv == TypeOK /\ UnstartedIdle /\ PageLoaded /\ LeavingClassOnlyWhileLeaving

-----------------------------------------------------------------------------
(* Pushing an entry after the current one gives a history whose last,     *)
(* current, entry is the new one: createHistoryRecord in loadPage.         *)
LEMMA PushEntry ==
    ASSUME NEW h \in Seq(Entry), NEW k \in 1..Len(h), NEW e \in Entry
    PROVE  /\ Append(SubSeq(h, 1, k), e) \in Seq(Entry)
           /\ Len(Append(SubSeq(h, 1, k), e)) = k + 1
<1>1. /\ SubSeq(h, 1, k) \in Seq(Entry)
      /\ Len(SubSeq(h, 1, k)) = k
  BY SubSeqProperties, ElementOfSeq
<1> QED
  BY <1>1, AppendProperties

LEMMA InitIInv == Init => IInv
BY DEF Init, IInv, TypeOK, UnstartedIdle, PageLoaded, LeavingClassOnlyWhileLeaving,
       IdleVisit, VisitRecord, Pcs, Entry, TransitionClasses, Visits, LoadedPcs

(* loadPage starting a visit (from a click or a popstate event) keeps the  *)
(* invariant: the slot it fills was idle, and its new stage "leave" is     *)
(* neither a leaving nor a loaded stage.                                   *)
LEMMA StartVisitIInv ==
    ASSUME IInv, NEW u \in Urls, NEW pop \in BOOLEAN, StartVisit(u, pop),
           htmlClasses' \subseteq htmlClasses,
           NEW h \in Seq(Entry), history' = h, hIndex' \in 1..Len(h),
           content' = content, cache' = cache,
           scrollToElement' \in Anchors \cup {NoAnchor}
    PROVE  IInv'
<1> DEFINE v == nVisits + 1
<1>1. v \in Visits /\ visit[v].pc = "idle"
  BY DEF StartVisit, IInv, TypeOK, UnstartedIdle, Visits
<1>2. TypeOK'
  BY DEF StartVisit, IInv, TypeOK, VisitRecord, Pcs, Visits
<1>3. UnstartedIdle'
  BY DEF StartVisit, IInv, TypeOK, UnstartedIdle, Visits
<1>4. PageLoaded'
  BY <1>1 DEF StartVisit, IInv, TypeOK, PageLoaded, LoadedPcs
<1>5. LeavingClassOnlyWhileLeaving'
  <2>1. SUFFICES ASSUME "is-leaving" \in htmlClasses'
                 PROVE  \E w \in Visits : visit'[w].pc \in LeavingPcs
    BY DEF LeavingClassOnlyWhileLeaving
  <2>2. PICK w \in Visits : visit[w].pc \in LeavingPcs
    BY <2>1 DEF IInv, LeavingClassOnlyWhileLeaving
  <2>3. w # v
    BY <1>1, <2>2 DEF LeavingPcs
  <2> QED
    BY <2>2, <2>3 DEF StartVisit, IInv, TypeOK
<1> QED
  BY <1>2, <1>3, <1>4, <1>5 DEF IInv

(* loadPage's step from "load" to "render" with the page it obtained      *)
(* leaves a well-typed table of visits.                                    *)
LEMMA SetPcPage ==
    ASSUME NEW vis \in [Visits -> VisitRecord], NEW v \in Visits,
           NEW p \in Pcs, NEW x \in Urls \cup {NoPage}
    PROVE  [vis EXCEPT ![v].pc = p, ![v].page = x] \in [Visits -> VisitRecord]
BY DEF VisitRecord

(* A step of visit v that adds no class, leaves the other visits where    *)
(* they are and does not take v out of the leaving stages keeps            *)
(* LeavingClassOnlyWhileLeaving.                                           *)
LEMMA LeavingKept ==
    ASSUME LeavingClassOnlyWhileLeaving, NEW v \in Visits,
           htmlClasses' \subseteq htmlClasses,
           \A w \in Visits \ {v} : visit'[w].pc = visit[w].pc,
           visit[v].pc \in LeavingPcs => visit'[v].pc \in LeavingPcs
    PROVE  LeavingClassOnlyWhileLeaving'
<1>1. SUFFICES ASSUME "is-leaving" \in htmlClasses'
               PROVE  \E w \in Visits : visit'[w].pc \in LeavingPcs
  BY DEF LeavingClassOnlyWhileLeaving
<1>2. PICK w \in Visits : visit[w].pc \in LeavingPcs
  BY <1>1 DEF LeavingClassOnlyWhileLeaving
<1>3. CASE w = v
  BY <1>2, <1>3
<1>4. CASE w # v
  BY <1>2, <1>4
<1> QED
  BY <1>3, <1>4

(* The steps of the visit pipeline keep the invariant.                     *)
LEMMA VisitStepIInv ==
    ASSUME IInv, NEW v \in Visits, VisitStep(v)
    PROVE  IInv'
<1> USE DEF IInv, TypeOK, VisitRecord, Pcs, TransitionClasses, SetPc
<1>1. CASE LeaveSkip(v)
  <2>1. TypeOK' /\ UnstartedIdle' /\ PageLoaded'
    BY <1>1 DEF LeaveSkip, UnstartedIdle, PageLoaded, LoadedPcs
  <2>2. LeavingClassOnlyWhileLeaving'
    <3>1. /\ htmlClasses' \subseteq htmlClasses
          /\ \A w \in Visits \ {v} : visit'[w].pc = visit[w].pc
          /\ visit[v].pc \in LeavingPcs => visit'[v].pc \in LeavingPcs
      BY <1>1 DEF LeaveSkip, LeavingPcs
    <3> QED
      BY <3>1, LeavingKept
  <2> QED BY <2>1, <2>2
<1>2. CASE LeaveStart(v)
  <2>1. TypeOK' /\ UnstartedIdle' /\ PageLoaded'
    BY <1>2 DEF LeaveStart, UnstartedIdle, PageLoaded, LoadedPcs
  <2>2. visit'[v].pc \in LeavingPcs
    BY <1>2 DEF LeaveStart, LeavingPcs
  <2>3. LeavingClassOnlyWhileLeaving'
    BY <2>2 DEF LeavingClassOnlyWhileLeaving
  <2> QED BY <2>1, <2>3
<1>3. CASE AnimOutDone(v)
  <2>1. TypeOK' /\ UnstartedIdle' /\ PageLoaded'
    BY <1>3 DEF AnimOutDone, UnstartedIdle, PageLoaded, LoadedPcs
  <2>2. LeavingClassOnlyWhileLeaving'
    <3>1. /\ htmlClasses' \subseteq htmlClasses
          /\ \A w \in Visits \ {v} : visit'[w].pc = visit[w].pc
          /\ visit[v].pc \in LeavingPcs => visit'[v].pc \in LeavingPcs
      BY <1>3 DEF AnimOutDone, LeavingPcs
    <3> QED
      BY <3>1, LeavingKept
  <2> QED BY <2>1, <2>2
<1>4. CASE LoadPage(v)
  <2> DEFINE u == visit[v].url
  <2>0. u \in Urls /\ Redirect[u] \in Urls
    BY VisitAssumptions
  <2>9. UNCHANGED <<history, hIndex, currentPageUrl, content, htmlClasses,
                    scrollToElement, nVisits>>
    BY <1>4 DEF LoadPage
  <2>1. TypeOK' /\ UnstartedIdle' /\ PageLoaded'
    <3>1. CASE cache[u] # NoPage /\ visit' = [visit EXCEPT ![v].pc = "render", ![v].page = cache[u]]
                                 /\ UNCHANGED cache
      <4>1. cache[u] \in Urls
        BY <2>0, <3>1
      <4>2. TypeOK'
        BY <1>4, <3>1, <4>1 DEF LoadPage
      <4>3. UnstartedIdle'
        BY <1>4, <3>1 DEF LoadPage, UnstartedIdle
      <4>4. PageLoaded'
        BY <3>1, <4>1 DEF PageLoaded, LoadedPcs
      <4> QED
        BY <4>2, <4>3, <4>4
    <3>2. CASE cache[u] = NoPage /\ visit' = [visit EXCEPT ![v].pc = "render", ![v].page = Redirect[u]]
                                 /\ cache' = IF CacheEnabled THEN [cache EXCEPT ![u] = Redirect[u]] ELSE cache
      <4>1. TypeOK'
        <5>1. cache' \in [Urls -> Urls \cup {NoPage}]
          BY <2>0, <3>2
        <5>2. visit' \in [Visits -> VisitRecord]
          <6>1. [visit EXCEPT ![v].pc = "render", ![v].page = Redirect[u]]
                  \in [Visits -> VisitRecord]
            BY <2>0, SetPcPage, Zenon
          <6> QED
            BY <3>2, <6>1
        <5> QED
          BY <2>9, <5>1, <5>2
      <4>2. UnstartedIdle'
        BY <1>4, <3>2 DEF LoadPage, UnstartedIdle
      <4>3. PageLoaded'
        BY <2>0, <3>2 DEF PageLoaded, LoadedPcs
      <4> QED
        BY <4>1, <4>2, <4>3
    <3> QED
      BY <1>4, <3>1, <3>2 DEF LoadPage
  <2>2. LeavingClassOnlyWhileLeaving'
    <3>1. SUFFICES ASSUME "is-leaving" \in htmlClasses'
                   PROVE  \E w \in Visits : visit'[w].pc \in LeavingPcs
      BY DEF LeavingClassOnlyWhileLeaving
    <3>2. PICK w \in Visits : visit[w].pc \in LeavingPcs
      BY <1>4, <3>1 DEF LoadPage, LeavingClassOnlyWhileLeaving
    <3> QED
      BY <1>4, <3>2 DEF LoadPage, LeavingPcs
  <2> QED BY <2>1, <2>2
<1>5. CASE RenderStale(v)
  <2>1. TypeOK' /\ UnstartedIdle' /\ PageLoaded'
    BY <1>5 DEF RenderStale, UnstartedIdle, PageLoaded, LoadedPcs
  <2>2. LeavingClassOnlyWhileLeaving'
    BY <1>5 DEF RenderStale, LeavingClassOnlyWhileLeaving
  <2> QED BY <2>1, <2>2
<1>6. CASE RenderStart(v)
  <2> DEFINE url == visit[v].page
  <2>1. url \in Urls
    BY <1>6 DEF RenderStart, PageLoaded, LoadedPcs
  <2>2. [url |-> url, anchor |-> NoAnchor] \in Entry
    BY <2>1 DEF Entry
  <2>3. TypeOK' /\ UnstartedIdle' /\ PageLoaded'
    <3>1. htmlClasses' \subseteq TransitionClasses /\ UnstartedIdle' /\ PageLoaded'
      BY <1>6 DEF RenderStart, UnstartedIdle, PageLoaded, LoadedPcs
    <3>2. CASE Location # url
      <4>1. history' = [history EXCEPT ![hIndex] = [url |-> url, anchor |-> NoAnchor]]
            /\ cache' = [cache EXCEPT ![url] = url] /\ currentPageUrl' = Location
        BY <1>6, <3>2 DEF RenderStart
      <4>2. Location \in Urls
        <5>1. history[hIndex] \in Entry
          BY ElementOfSeq
        <5> QED
          BY <5>1 DEF Location, Entry
      <4>3. history' \in Seq(Entry) /\ Len(history') = Len(history)
        <5>1. history \in Seq(Entry) /\ hIndex \in 1..Len(history)
          OBVIOUS
        <5> QED
          BY <4>1, <2>2, <5>1, ExceptSeq
      <4> QED
        BY <1>6, <2>1, <3>1, <4>1, <4>2, <4>3 DEF RenderStart
    <3>3. CASE Location = url
      BY <1>6, <3>1, <3>3 DEF RenderStart
    <3> QED
      BY <3>2, <3>3
  <2>4. "is-leaving" \notin htmlClasses'
    BY <1>6 DEF RenderStart
  <2>5. LeavingClassOnlyWhileLeaving'
    BY <2>4 DEF LeavingClassOnlyWhileLeaving
  <2> QED BY <2>3, <2>5
<1>7. CASE ReplaceContent(v)
  <2>1. TypeOK' /\ UnstartedIdle' /\ PageLoaded'
    BY <1>7 DEF ReplaceContent, UnstartedIdle, PageLoaded, LoadedPcs
  <2>2. LeavingClassOnlyWhileLeaving'
    <3>1. /\ htmlClasses' \subseteq htmlClasses
          /\ \A w \in Visits \ {v} : visit'[w].pc = visit[w].pc
          /\ visit[v].pc \in LeavingPcs => visit'[v].pc \in LeavingPcs
      BY <1>7 DEF ReplaceContent, LeavingPcs
    <3> QED
      BY <3>1, LeavingKept
  <2> QED BY <2>1, <2>2
<1>8. CASE RenderFinish(v)
  <2>1. TypeOK' /\ UnstartedIdle' /\ PageLoaded'
    BY <1>8 DEF RenderFinish, UnstartedIdle, PageLoaded, LoadedPcs
  <2>2. LeavingClassOnlyWhileLeaving'
    <3>1. /\ htmlClasses' \subseteq htmlClasses
          /\ \A w \in Visits \ {v} : visit'[w].pc = visit[w].pc
          /\ visit[v].pc \in LeavingPcs => visit'[v].pc \in LeavingPcs
      BY <1>8 DEF RenderFinish, LeavingPcs
    <3> QED
      BY <3>1, LeavingKept
  <2> QED BY <2>1, <2>2
<1>9. CASE EnterSkip(v)
  <2>1. TypeOK' /\ UnstartedIdle' /\ PageLoaded'
    BY <1>9 DEF EnterSkip, CleanupAnimationClasses, UnstartedIdle, PageLoaded, LoadedPcs
  <2>2. LeavingClassOnlyWhileLeaving'
    BY <1>9 DEF EnterSkip, CleanupAnimationClasses, LeavingClassOnlyWhileLeaving
  <2> QED BY <2>1, <2>2
<1>10. CASE EnterStart(v)
  <2>1. TypeOK' /\ UnstartedIdle' /\ PageLoaded'
    BY <1>10 DEF EnterStart, UnstartedIdle, PageLoaded, LoadedPcs
  <2>2. "is-leaving" \in htmlClasses' => "is-leaving" \in htmlClasses
    BY <1>10 DEF EnterStart
  <2>3. LeavingClassOnlyWhileLeaving'
    <3>1. SUFFICES ASSUME "is-leaving" \in htmlClasses'
                   PROVE  \E w \in Visits : visit'[w].pc \in LeavingPcs
      BY DEF LeavingClassOnlyWhileLeaving
    <3>2. PICK w \in Visits : visit[w].pc \in LeavingPcs
      BY <2>2, <3>1 DEF LeavingClassOnlyWhileLeaving
    <3> QED
      BY <1>10, <3>2 DEF EnterStart, LeavingPcs
  <2> QED BY <2>1, <2>3
<1>11. CASE AnimInDone(v)
  <2>1. TypeOK' /\ UnstartedIdle' /\ PageLoaded'
    BY <1>11 DEF AnimInDone, CleanupAnimationClasses, UnstartedIdle, PageLoaded, LoadedPcs
  <2>2. LeavingClassOnlyWhileLeaving'
    BY <1>11 DEF AnimInDone, CleanupAnimationClasses, LeavingClassOnlyWhileLeaving
  <2> QED BY <2>1, <2>2
<1> QED
  BY <1>1, <1>2, <1>3, <1>4, <1>5, <1>6, <1>7, <1>8, <1>9, <1>10, <1>11
     DEF VisitStep


-----------------------------------------------------------------------------
(* A click on a swup link pushes an entry and starts a visit.              *)
LEMMA LinkClickIInv ==
    ASSUME IInv, NEW u \in Urls, NEW a \in Anchors \cup {NoAnchor}, LinkClick(u, a)
    PROVE  IInv'
<1>1. history \in Seq(Entry) /\ hIndex \in 1..Len(history)
  BY DEF IInv, TypeOK
<1>2. [url |-> u, anchor |-> a] \in Entry
  BY DEF Entry
<1>3. /\ history' \in Seq(Entry)
      /\ Len(history') = hIndex + 1
  BY <1>1, <1>2, PushEntry DEF LinkClick
<1>4. hIndex' \in 1..Len(history')
  BY <1>1, <1>3 DEF LinkClick
<1> QED
  BY <1>3, <1>4, StartVisitIInv DEF LinkClick

(* A same-page link with a hash only rewrites the current history entry.   *)
LEMMA LinkToSamePageIInv ==
    ASSUME IInv, NEW a \in Anchors, LinkToSamePage(a)
    PROVE  IInv'
<1>1. history \in Seq(Entry) /\ hIndex \in 1..Len(history)
  BY DEF IInv, TypeOK
<1>2. Location \in Urls
  <2>1. history[hIndex] \in Entry
    BY <1>1, ElementOfSeq
  <2> QED
    BY <2>1 DEF Location, Entry
<1>3. [url |-> Location, anchor |-> a] \in Entry
  BY <1>2 DEF Entry
<1>4. history' \in Seq(Entry) /\ Len(history') = Len(history)
  BY <1>1, <1>3, ExceptSeq DEF LinkToSamePage
<1> QED
  BY <1>4 DEF LinkToSamePage, IInv, TypeOK, UnstartedIdle, PageLoaded,
             LeavingClassOnlyWhileLeaving

(* A popstate event back to the page already shown only moves the index.   *)
LEMMA PopStateIgnoredIInv ==
    ASSUME IInv, NEW i \in OtherEntries, PopStateIgnored(i)
    PROVE  IInv'
BY DEF PopStateIgnored, OtherEntries, IInv, TypeOK, UnstartedIdle, PageLoaded,
       LeavingClassOnlyWhileLeaving

(* A popstate event to another page strips classes and starts a visit.     *)
LEMMA PopStateVisitIInv ==
    ASSUME IInv, NEW i \in OtherEntries, PopStateVisit(i)
    PROVE  IInv'
<1>1. history \in Seq(Entry) /\ i \in 1..Len(history)
  BY DEF IInv, TypeOK, OtherEntries
<1>2. history[i] \in Entry
  BY <1>1, ElementOfSeq
<1>3. history[i].url \in Urls /\ history[i].anchor \in Anchors \cup {NoAnchor}
  BY <1>2 DEF Entry
<1>4. htmlClasses' \subseteq htmlClasses
  BY DEF PopStateVisit, CleanupAnimationClasses
<1>5. scrollToElement' \in Anchors \cup {NoAnchor}
  BY <1>3 DEF PopStateVisit, IInv, TypeOK
<1> QED
  BY <1>1, <1>3, <1>4, <1>5, StartVisitIInv DEF PopStateVisit

(* Every step of the specification, stuttering included, keeps IInv.      *)
LEMMA NextIInv == IInv /\ [Next]_vars => IInv'
<1> SUFFICES ASSUME IInv, [Next]_vars PROVE IInv'
  OBVIOUS
<1>1. CASE \E u \in Urls, a \in Anchors \cup {NoAnchor} : LinkClick(u, a)
  BY <1>1, LinkClickIInv
<1>2. CASE \E a \in Anchors : LinkToSamePage(a)
  BY <1>2, LinkToSamePageIInv
<1>3. CASE \E i \in OtherEntries : PopStateIgnored(i)
  BY <1>3, PopStateIgnoredIInv
<1>4. CASE \E i \in OtherEntries : PopStateVisit(i)
  BY <1>4, PopStateVisitIInv
<1>5. CASE \E v \in Visits : VisitStep(v)
  BY <1>5, VisitStepIInv
<1>6. CASE UNCHANGED vars
  BY <1>6 DEF vars, IInv, TypeOK, UnstartedIdle, PageLoaded,
             LeavingClassOnlyWhileLeaving, Location
<1> QED
  BY <1>1, <1>3, <1>4, <1>5, <1>6, <1>2 DEF Next

(* Type correctness: every reachable state of the visit lifecycle has the  *)
(* types TypeOK gives (history entries, the current index within the       *)
(* history, pages of loaded visits), for every instance of the constants.  *)
THEOREM TypeCorrect == Spec => []TypeOK
<1>1. IInv => TypeOK
  BY DEF IInv
<1> QED
  BY InitIInv, NextIInv, <1>1, PTL DEF Spec

(* is-leaving is on the document only while some visit is between         *)
(* leavePage and the currency check of renderPage (renderPage removes the  *)
(* class before that check), for every instance of the constants.          *)
THEOREM LeavingClassInvariant == Spec => []LeavingClassOnlyWhileLeaving
<1>1. IInv => LeavingClassOnlyWhileLeaving
  BY DEF IInv
<1> QED
  BY InitIInv, NextIInv, <1>1, PTL DEF Spec

=============================================================================
