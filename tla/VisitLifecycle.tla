--------------------------- MODULE VisitLifecycle ---------------------------
(***************************************************************************)
(* What the visit lifecycle controller promises (spec 3 and 5), one step  *)
(* per stage and without the awaits, the classes and the hooks:            *)
(*   - a navigation intent starts a visit: a link to another page, or a    *)
(*     history move to an entry of another page than the one being shown  *)
(*     or loaded (the target); a history move to an entry of the target    *)
(*     starts none;                                                        *)
(*   - a visit goes leave -> load -> render -> enter, and loading gives     *)
(*     the page the server answers for its URL, from the cache or not;     *)
(*   - at render a visit whose URL is no longer the location is abandoned; *)
(*     otherwise it takes the location to the page's final (redirected)    *)
(*     URL, then shows the page.                                           *)
(***************************************************************************)
EXTENDS Naturals

CONSTANTS Urls, InitialUrl, Redirect, NoPage, Visits

VARIABLES
    phase,      \* phase[v]: the stage visit v is in
    vurl,       \* vurl[v]: the URL visit v was started for
    vpop,       \* vpop[v]: whether v came from a history move
    vpage,      \* vpage[v]: the final URL of the page v loaded
    location,   \* the URL of the current history entry
    shown       \* the page shown

absVars == <<phase, vurl, vpop, vpage, location, shown>>

Phases == {"idle", "leaving", "loading", "rendering", "replacing", "entering",
           "done", "aborted"}

Started == {v \in Visits : phase[v] # "idle"}

(* The page being shown or loaded: the URL of the latest visit started.   *)
Target ==
    IF Started = {} THEN InitialUrl
    ELSE vurl[CHOOSE v \in Started : \A w \in Started : w <= v]

Init ==
    /\ phase = [v \in Visits |-> "idle"]
    /\ vurl \in [Visits -> Urls]
    /\ vpop \in [Visits -> BOOLEAN]
    /\ vpage = [v \in Visits |-> NoPage]
    /\ location = InitialUrl
    /\ shown = InitialUrl

Advance(v, from, to) ==
    /\ phase[v] = from
    /\ phase' = [phase EXCEPT ![v] = to]

(* A navigation intent starts the next visit.                              *)
Begin(v, u, pop) ==
    /\ phase[v] = "idle"
    /\ \A w \in Visits : w < v => phase[w] # "idle"
    /\ IF pop THEN u # Target ELSE u # location
    /\ Advance(v, "idle", "leaving")
    /\ vurl' = [vurl EXCEPT ![v] = u]
    /\ vpop' = [vpop EXCEPT ![v] = pop]
    /\ location' = u
    /\ UNCHANGED <<vpage, shown>>

(* A history move to an entry of the target page starts no visit.         *)
Return ==
    /\ location' = Target
    /\ UNCHANGED <<phase, vurl, vpop, vpage, shown>>

Leave(v) ==
    /\ Advance(v, "leaving", "loading")
    /\ UNCHANGED <<vurl, vpop, vpage, location, shown>>

Load(v) ==
    /\ Advance(v, "loading", "rendering")
    /\ vpage' = [vpage EXCEPT ![v] = Redirect[vurl[v]]]
    /\ UNCHANGED <<vurl, vpop, location, shown>>

Abandon(v) ==
    /\ location # vurl[v]
    /\ Advance(v, "rendering", "aborted")
    /\ UNCHANGED <<vurl, vpop, vpage, location, shown>>

Commit(v) ==
    /\ location = vurl[v]
    /\ Advance(v, "rendering", "replacing")
    /\ location' = vpage[v]
    /\ UNCHANGED <<vurl, vpop, vpage, shown>>

Show(v) ==
    /\ Advance(v, "replacing", "entering")
    /\ shown' = vpage[v]
    /\ UNCHANGED <<vurl, vpop, vpage, location>>

Finish(v) ==
    /\ Advance(v, "entering", "done")
    /\ UNCHANGED <<vurl, vpop, vpage, location, shown>>

Next ==
    \/ \E v \in Visits, u \in Urls, pop \in BOOLEAN : Begin(v, u, pop)
    \/ Return
    \/ \E v \in Visits :
          Leave(v) \/ Load(v) \/ Abandon(v) \/ Commit(v) \/ Show(v) \/ Finish(v)

Spec == Init /\ [][Next]_absVars

=============================================================================
