---------------------------- MODULE LegacyProofs ----------------------------
(***************************************************************************)
(* Proofs about the legacy Swup class (module Legacy), for every value of  *)
(* the constants that satisfies LegacyAssumptions.                         *)
(*                                                                         *)
(* LegacyTypeOK is inductive as it stands.  Its one conjunct that is more  *)
(* than a type says that this.preloadPromise never holds a promise that   *)
(* has resolved: the callback that resolves preload i sets the field to   *)
(* null whichever promise it holds, a hover only stores a new pending      *)
(* promise, a render sets it to null, and a rejection leaves it holding a  *)
(* rejected one.                                                           *)
(***************************************************************************)
EXTENDS Legacy, SequenceTheorems, TLAPS

USE LegacyAssumptions

PreloadStates == {"pending", "resolved", "rejected"}

-----------------------------------------------------------------------------
(* createHistoryRecord: pushing an entry after entry k keeps a sequence of *)
(* entries, now of k + 1 entries.                                          *)
LEMMA PushEntry ==
    ASSUME NEW h \in Seq(Entry), NEW k \in 1..Len(h), NEW e \in Entry
    PROVE  /\ Append(SubSeq(h, 1, k), e) \in Seq(Entry)
           /\ Len(Append(SubSeq(h, 1, k), e)) = k + 1
<1>1. SubSeq(h, 1, k) \in Seq(Entry) /\ Len(SubSeq(h, 1, k)) = k
  BY SubSeqProperties
<1> QED
  BY <1>1, AppendProperties

(* The current entry is an entry: its path is a page path.                 *)
LEMMA CurrentEntry ==
    ASSUME LegacyTypeOK
    PROVE  history[hIndex] \in Entry /\ Location \in Urls
<1>1. history[hIndex] \in Entry
  BY ElementOfSeq DEF LegacyTypeOK
<1> QED
  BY <1>1 DEF Location, Entry

(* A loadPage call numbered within the bound is a visit record: the       *)
(* promise it may reuse is one of the preloads started.                    *)
LEMMA NewVisitType ==
    ASSUME LegacyTypeOK, NEW id \in 1..MaxLoads, NEW u \in Urls, NEW pop \in BOOLEAN
    PROVE  NewVisit(id, u, pop) \in VisitRec
<1>1. preloadPromise \in 0..MaxPreloads
  BY DEF LegacyTypeOK
<1> QED
  BY <1>1 DEF NewVisit, VisitRec

(* A preload fetch calling back changes the state of its own promise and  *)
(* of no other.                                                            *)
LEMMA SettlePreload ==
    ASSUME NEW p \in Seq(PreloadRec), NEW i \in DOMAIN p, NEW st \in PreloadStates
    PROVE  /\ [p EXCEPT ![i].state = st] \in Seq(PreloadRec)
           /\ Len([p EXCEPT ![i].state = st]) = Len(p)
           /\ [p EXCEPT ![i].state = st][i].state = st
           /\ \A j \in 1..Len(p) : j # i => [p EXCEPT ![i].state = st][j] = p[j]
<1>1. i \in 1..Len(p) /\ p[i] \in PreloadRec
  BY ElementOfSeq
<1>2. [p[i] EXCEPT !.state = st] \in PreloadRec
  BY <1>1 DEF PreloadRec, PreloadStates
<1> DEFINE r == [p[i] EXCEPT !.state = st]
<1>3. [p EXCEPT ![i].state = st] = [p EXCEPT ![i] = r]
  OBVIOUS
<1>4. /\ [p EXCEPT ![i] = r] \in Seq(PreloadRec)
      /\ Len([p EXCEPT ![i] = r]) = Len(p)
      /\ \A j \in 1..Len(p) : [p EXCEPT ![i] = r][j] = IF j = i THEN r ELSE p[j]
  BY <1>1, <1>2, ExceptSeq
<1>5. r.state = st
  BY <1>1 DEF PreloadRec
<1> QED
  BY <1>1, <1>3, <1>4, <1>5

-----------------------------------------------------------------------------
LEMMA InitTypeOK == Init => LegacyTypeOK
BY DEF Init, LegacyTypeOK, Entry

LEMMA EnableType ==
    ASSUME LegacyTypeOK, Enable
    PROVE  LegacyTypeOK'
<1>1. Location \in Urls
  BY CurrentEntry
<1> QED
  BY <1>1 DEF Enable, LegacyTypeOK

LEMMA DestroyType ==
    ASSUME LegacyTypeOK, Destroy
    PROVE  LegacyTypeOK'
BY DEF Destroy, LegacyTypeOK

LEMMA LinkClickType ==
    ASSUME LegacyTypeOK, NEW u \in Urls, NEW a \in Anchors \cup {NoAnchor}, LinkClick(u, a)
    PROVE  LegacyTypeOK'
<1>1. CASE u = Location
  <2>1. [url |-> u, anchor |-> a] \in Entry
    BY DEF Entry
  <2>2. history' = [history EXCEPT ![hIndex] = [url |-> u, anchor |-> a]]
    BY <1>1 DEF LinkClick
  <2>3. history' \in Seq(Entry) /\ Len(history') = Len(history)
    BY <2>1, <2>2, ExceptSeq DEF LegacyTypeOK
  <2> QED
    BY <1>1, <2>3 DEF LinkClick, LegacyTypeOK
<1>2. CASE u # Location
  <2>1. LoadPage(u) /\ scrollToElement' \in Anchors \cup {NoAnchor}
        /\ UNCHANGED <<enabled, popListeners, cache, preloads, preloadPromise>>
    BY <1>2 DEF LinkClick, LegacyTypeOK
  <2>2. /\ history' \in Seq(Entry) /\ Len(history') = hIndex + 1
        /\ hIndex' = hIndex + 1
    <3>1. [url |-> u, anchor |-> NoAnchor] \in Entry
      BY DEF Entry
    <3> QED
      BY <2>1, <3>1, PushEntry DEF LoadPage, LegacyTypeOK
  <2>3. NewVisit(loads + 1, u, FALSE) \in VisitRec
    <3>1. loads + 1 \in 1..MaxLoads
      BY <2>1 DEF LoadPage, LegacyTypeOK
    <3> QED
      BY <3>1, NewVisitType
  <2>4. visits' \subseteq VisitRec /\ loads' \in 0..MaxLoads
    <3>1. visits' = visits \cup {NewVisit(loads + 1, u, FALSE)} /\ loads' = loads + 1
          /\ loads < MaxLoads
      BY <2>1 DEF LoadPage
    <3>2. visits \subseteq VisitRec /\ loads \in 0..MaxLoads
      BY DEF LegacyTypeOK
    <3>3. visits' \subseteq VisitRec
      BY <2>3, <3>1, <3>2, Zenon
    <3>4. loads' \in 0..MaxLoads
      BY <3>1, <3>2
    <3> QED
      BY <3>3, <3>4
  <2>5. hIndex' \in 1..Len(history')
    BY <2>2 DEF LegacyTypeOK
  <2> QED
    BY <2>1, <2>2, <2>4, <2>5 DEF LegacyTypeOK
<1> QED
  BY <1>1, <1>2

LEMMA LinkMouseoverType ==
    ASSUME LegacyTypeOK, NEW u \in Urls, LinkMouseover(u)
    PROVE  LegacyTypeOK'
<1> DEFINE r == [url |-> u, state |-> "pending"]
<1>1. r \in PreloadRec
  BY DEF PreloadRec
<1>2. /\ preloads' \in Seq(PreloadRec)
      /\ Len(preloads') = Len(preloads) + 1
      /\ preloads'[Len(preloads) + 1] = r
  BY <1>1, AppendProperties DEF LinkMouseover, LegacyTypeOK
<1>3. preloadPromise' = Len(preloads) + 1 /\ Len(preloads) + 1 <= MaxPreloads
  BY DEF LinkMouseover, LegacyTypeOK
<1> QED
  BY <1>2, <1>3 DEF LinkMouseover, LegacyTypeOK

LEMMA PreloadFailedType ==
    ASSUME LegacyTypeOK, NEW i \in DOMAIN preloads, PreloadFailed(i)
    PROVE  LegacyTypeOK'
<1>1. /\ preloads' \in Seq(PreloadRec)
      /\ Len(preloads') = Len(preloads)
      /\ preloads'[i].state = "rejected"
      /\ \A j \in 1..Len(preloads) : j # i => preloads'[j] = preloads[j]
  <2>1. preloads \in Seq(PreloadRec) /\ "rejected" \in PreloadStates
    BY DEF LegacyTypeOK, PreloadStates
  <2>2. preloads' = [preloads EXCEPT ![i].state = "rejected"]
    BY DEF PreloadFailed
  <2> QED
    BY <2>1, <2>2, SettlePreload
<1>2. preloadPromise' = preloadPromise /\ i \in 1..Len(preloads)
  BY DEF PreloadFailed, LegacyTypeOK
<1>3. preloadPromise' # 0 => preloads'[preloadPromise'].state # "resolved"
  BY <1>1, <1>2 DEF LegacyTypeOK
<1> QED
  BY <1>1, <1>2, <1>3 DEF PreloadFailed, LegacyTypeOK

LEMMA PreloadDoneType ==
    ASSUME LegacyTypeOK, NEW i \in DOMAIN preloads, PreloadDone(i)
    PROVE  LegacyTypeOK'
<1>1. /\ preloads' \in Seq(PreloadRec)
      /\ Len(preloads') = Len(preloads)
  <2>1. preloads \in Seq(PreloadRec) /\ "resolved" \in PreloadStates
    BY DEF LegacyTypeOK, PreloadStates
  <2>2. preloads' = [preloads EXCEPT ![i].state = "resolved"]
    BY DEF PreloadDone
  <2> QED
    BY <2>1, <2>2, SettlePreload
<1>2. preloads[i].url \in Urls
  <2>1. preloads \in Seq(PreloadRec)
    BY DEF LegacyTypeOK
  <2>2. preloads[i] \in PreloadRec
    BY <2>1, ElementOfSeq
  <2> QED
    BY <2>2 DEF PreloadRec
<1> QED
  BY <1>1, <1>2 DEF PreloadDone, LegacyTypeOK

LEMMA LoadRenderedType ==
    ASSUME LegacyTypeOK, NEW v \in visits, LoadRendered(v)
    PROVE  LegacyTypeOK'
<1>1. v.url \in Urls
  BY DEF LegacyTypeOK, VisitRec
<1> QED
  BY <1>1 DEF LoadRendered, LegacyTypeOK

LEMMA LoadFailedType ==
    ASSUME LegacyTypeOK, NEW v \in visits, LoadFailed(v)
    PROVE  LegacyTypeOK'
BY DEF LoadFailed, LegacyTypeOK

LEMMA PopStateType ==
    ASSUME LegacyTypeOK, NEW i \in DOMAIN history, PopState(i)
    PROVE  LegacyTypeOK'
<1>1. history[i] \in Entry
  BY ElementOfSeq DEF LegacyTypeOK
<1>2. history[i].url \in Urls /\ history[i].anchor \in Anchors \cup {NoAnchor}
  BY <1>1 DEF Entry
<1>3. \A k \in 1..popListeners : NewVisit(loads + k, history[i].url, TRUE) \in VisitRec
  <2> SUFFICES ASSUME NEW k \in 1..popListeners
               PROVE  NewVisit(loads + k, history[i].url, TRUE) \in VisitRec
    OBVIOUS
  <2>1. loads + k \in 1..MaxLoads
    BY DEF PopState, LegacyTypeOK
  <2> QED
    BY <1>2, <2>1, NewVisitType
<1>4. visits' \subseteq VisitRec
  BY <1>3 DEF PopState, LegacyTypeOK
<1>5. hIndex' \in 1..Len(history) /\ UNCHANGED history
  BY DEF PopState, LegacyTypeOK
<1>6. loads' \in 0..MaxLoads /\ scrollToElement' \in Anchors \cup {NoAnchor}
  BY <1>2 DEF PopState, LegacyTypeOK
<1>7. UNCHANGED <<enabled, popListeners, cache, preloads, preloadPromise>>
  BY DEF PopState
<1> QED
  BY <1>4, <1>5, <1>6, <1>7 DEF LegacyTypeOK

(* Every step, stuttering included, keeps LegacyTypeOK.                    *)
LEMMA NextTypeOK == LegacyTypeOK /\ [Next]_vars => LegacyTypeOK'
<1> SUFFICES ASSUME LegacyTypeOK, [Next]_vars PROVE LegacyTypeOK'
  OBVIOUS
<1>1. CASE Enable
  BY <1>1, EnableType
<1>2. CASE Destroy
  BY <1>2, DestroyType
<1>3. CASE \E u \in Urls, a \in Anchors \cup {NoAnchor} : LinkClick(u, a)
  BY <1>3, LinkClickType
<1>4. CASE \E u \in Urls : LinkMouseover(u)
  BY <1>4, LinkMouseoverType
<1>5. CASE \E i \in DOMAIN preloads : PreloadFailed(i)
  BY <1>5, PreloadFailedType
<1>6. CASE \E i \in DOMAIN preloads : PreloadDone(i)
  BY <1>6, PreloadDoneType
<1>7. CASE \E v \in visits : LoadRendered(v)
  BY <1>7, LoadRenderedType
<1>8. CASE \E v \in visits : LoadFailed(v)
  BY <1>8, LoadFailedType
<1>9. CASE \E i \in DOMAIN history : PopState(i)
  BY <1>9, PopStateType
<1>10. CASE UNCHANGED vars
  BY <1>10 DEF vars, LegacyTypeOK
<1> QED
  BY <1>1, <1>2, <1>3, <1>4, <1>5, <1>6, <1>7, <1>8, <1>9, <1>10 DEF Next

-----------------------------------------------------------------------------
(* Type correctness of the legacy class, with what keeps hover preloading  *)
(* alive: the history stays a sequence of entries with the current index   *)
(* inside it, every pending loadPage waits on a preload that was started,  *)
(* and this.preloadPromise never keeps a promise that has resolved, since  *)
(* the preload callback sets it to null after resolve(), for every         *)
(* instance of the constants.                                              *)
THEOREM LegacyTypeCorrect == Spec => []LegacyTypeOK
BY InitTypeOK, NextTypeOK, PTL DEF Spec

=============================================================================
