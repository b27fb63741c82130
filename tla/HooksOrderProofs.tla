------------------------- MODULE HooksOrderProofs -------------------------
(***************************************************************************)
(* The proof that every trigger of a hook runs its handlers in the order   *)
(* getHandlers and run() promise (Hooks!HandlerOrder), for every value of  *)
(* the constants that satisfies HooksAssumptions.                          *)
(*                                                                         *)
(* HandlerOrder speaks only of what a trigger has logged so far, and is    *)
(* not inductive: after an await, run() goes on with the snapshot it took  *)
(* at call(), so the invariant must also say that this snapshot is in      *)
(* order and that everything it can still log comes after what is logged.  *)
(* That snapshot is sorted because sortRegistrations puts the position of  *)
(* rank k before the one of rank k' whenever k < k' (SortedRegsSorted).    *)
(***************************************************************************)
EXTENDS HooksProofs

(* The i-th registration an entry may invoke: its own, then the ones its   *)
(* defaultHandler calls through to.                                        *)
Elem(e, i) == IF i = 1 THEN e.reg ELSE e.chain[i - 1]

Regs(e) == {Elem(e, i) : i \in 1..Len(e.chain) + 1}

(* Whatever prefix of its chain an entry runs, it runs it in order.        *)
EntryOrdered(e) ==
    \A i, j \in 1..Len(e.chain) + 1 : i < j => MayPrecede(Elem(e, i), Elem(e, j))

OrderedSeq(s) == \A i, j \in DOMAIN s : i < j => MayPrecede(s[i], s[j])

(* A list of entries whose registrations may be invoked in list order.     *)
ListOrdered(t) ==
    /\ \A p \in DOMAIN t : EntryOrdered(t[p])
    /\ \A p, q \in DOMAIN t : p < q =>
          \A a \in Regs(t[p]), b \in Regs(t[q]) : MayPrecede(a, b)

(* A trigger's log is in order, is empty before call(), and while run()    *)
(* awaits, its snapshot of what is still to run is in order and comes     *)
(* after everything logged.                                                *)
CallOk(cr, lg) ==
    /\ cr.stage = "idle" => lg = << >>
    /\ OrderedSeq(lg)
    /\ cr.stage = "running" =>
         /\ ListOrdered(cr.todo)
         /\ \A i \in DOMAIN lg, p \in DOMAIN cr.todo :
               \A b \in Regs(cr.todo[p]) : MayPrecede(lg[i], b)

CallOrdered(c) == CallOk(call[c], log[c])

OInv == HookTypeOK /\ \A c \in Calls : CallOrdered(c)

-----------------------------------------------------------------------------
(* The position sortRegistrations puts at place k of the group S.         *)
SRank(S, k) == CHOOSE i \in S : Cardinality({j \in S : SortsBefore(j, i)}) = k - 1

(* SortsBefore is irreflexive, total and transitive on ledger positions.  *)
LEMMA SortsBeforeFacts ==
    ASSUME ledger \in Seq(Registration), NEW P \in SUBSET DOMAIN ledger
    PROVE  /\ \A i \in P : ~SortsBefore(i, i)
           /\ \A i, j \in P : i # j => SortsBefore(i, j) \/ SortsBefore(j, i)
           /\ \A i, j, k \in P : SortsBefore(i, j) /\ SortsBefore(j, k) => SortsBefore(i, k)
<1>1. ASSUME NEW i \in P
      PROVE  ledger[i].priority \in Int /\ ledger[i].id \in Nat /\ i \in Nat
  <2>1. ledger[i] \in Registration
    BY ElementOfSeq
  <2> QED
    BY <2>1 DEF Registration
<1> QED
  BY <1>1 DEF SortsBefore

(* Place k of a sorted group holds the position of rank k - 1.            *)
LEMMA SortedRegsAt ==
    ASSUME ledger \in Seq(Registration), NEW S \in SUBSET DOMAIN ledger,
           NEW k \in 1..Cardinality(S)
    PROVE  /\ SRank(S, k) \in S
           /\ Cardinality({j \in S : SortsBefore(j, SRank(S, k))}) = k - 1
           /\ SortedRegs(S)[k] = ledger[SRank(S, k)]
<1> DEFINE R == {p \in S \X S : SortsBefore(p[1], p[2])}
<1>1. IsFiniteSet(S)
  BY PositionsFinite
<1>2. PICK i \in S : Cardinality(Below(S, R, i)) = k - 1
  BY <1>1, SortsBeforeOrder, RankExists
<1>3. Below(S, R, i) = {j \in S : SortsBefore(j, i)}
  BY DEF Below
<1>4. \E x \in S : Cardinality({j \in S : SortsBefore(j, x)}) = k - 1
  BY <1>2, <1>3
<1>5. SRank(S, k) \in S /\ Cardinality({j \in S : SortsBefore(j, SRank(S, k))}) = k - 1
  BY <1>4, Zenon DEF SRank
<1> QED
  BY <1>5 DEF SortedRegs, SRank

(* sortRegistrations is sorted: a lower place holds a position that sorts *)
(* before the one at a higher place.                                       *)
LEMMA SortedRegsSorted ==
    ASSUME ledger \in Seq(Registration), NEW S \in SUBSET DOMAIN ledger,
           NEW k \in 1..Cardinality(S), NEW m \in 1..Cardinality(S), k < m
    PROVE  SortsBefore(SRank(S, k), SRank(S, m))
<1> DEFINE i == SRank(S, k)
           j == SRank(S, m)
           Bi == {x \in S : SortsBefore(x, i)}
           Bj == {x \in S : SortsBefore(x, j)}
<1>1. i \in S /\ j \in S /\ Cardinality(Bi) = k - 1 /\ Cardinality(Bj) = m - 1
  BY SortedRegsAt
<1>2. i # j
  <2> SUFFICES ASSUME i = j PROVE FALSE
    OBVIOUS
  <2>1. Bi = Bj
    OBVIOUS
  <2>2. k - 1 = m - 1
    BY <1>1, <2>1
  <2> QED
    BY <2>2
<1> SUFFICES ASSUME ~SortsBefore(i, j) PROVE FALSE
  OBVIOUS
<1>3. SortsBefore(j, i)
  BY <1>1, <1>2, SortsBeforeFacts
<1>4. Bj \subseteq Bi
  BY <1>1, <1>3, SortsBeforeFacts
<1>5. j \in Bi /\ j \notin Bj
  BY <1>1, <1>3, SortsBeforeFacts
<1>6. IsFiniteSet(Bi)
  <2>1. IsFiniteSet(S)
    BY PositionsFinite
  <2> QED
    BY <2>1, FS_Subset
<1>7. Cardinality(Bj) <= Cardinality(Bi) /\ Cardinality(Bj) # Cardinality(Bi)
  BY <1>4, <1>5, <1>6, FS_Subset
<1> QED
  BY <1>1, <1>7
-----------------------------------------------------------------------------
(* Two ordered sequences, each element of the first allowed before each of *)
(* the second, make an ordered concatenation.                              *)
LEMMA OrderedConcat ==
    ASSUME NEW S, NEW s \in Seq(S), NEW t \in Seq(S), OrderedSeq(s), OrderedSeq(t),
           \A i \in DOMAIN s, j \in DOMAIN t : MayPrecede(s[i], t[j])
    PROVE  OrderedSeq(s \o t)
<1> SUFFICES ASSUME NEW i \in DOMAIN (s \o t), NEW j \in DOMAIN (s \o t), i < j
             PROVE  MayPrecede((s \o t)[i], (s \o t)[j])
  BY DEF OrderedSeq
<1>1. /\ Len(s \o t) = Len(s) + Len(t)
      /\ \A x \in 1..Len(s) + Len(t) :
            (s \o t)[x] = IF x <= Len(s) THEN s[x] ELSE t[x - Len(s)]
  BY ConcatProperties
<1>2. i \in 1..Len(s) + Len(t) /\ j \in 1..Len(s) + Len(t)
  BY <1>1, ConcatProperties
<1>3. CASE j <= Len(s)
  BY <1>1, <1>2, <1>3 DEF OrderedSeq
<1>4. CASE i <= Len(s) /\ ~(j <= Len(s))
  BY <1>1, <1>2, <1>4
<1>5. CASE ~(i <= Len(s))
  <2>1. i - Len(s) \in DOMAIN t /\ j - Len(s) \in DOMAIN t /\ i - Len(s) < j - Len(s)
    BY <1>2, <1>5
  <2> QED
    BY <1>1, <1>2, <1>5, <2>1 DEF OrderedSeq
<1> QED
  BY <1>3, <1>4, <1>5

(* Running entry e with k calls down its chain logs its first k + 1        *)
(* registrations.                                                          *)
LEMMA InvokedElems ==
    ASSUME NEW e \in RunEntry, NEW k \in 0..Len(e.chain)
    PROVE  /\ Invoked(e, k) \in Seq(LoggedReg)
           /\ DOMAIN Invoked(e, k) = 1..k + 1
           /\ \A i \in 1..k + 1 : Invoked(e, k)[i] = Elem(e, i)
<1>1. e.chain \in Seq(LoggedReg) /\ e.reg \in LoggedReg
  BY DEF RunEntry, LoggedReg
<1>2. /\ SubSeq(e.chain, 1, k) \in Seq(LoggedReg)
      /\ Len(SubSeq(e.chain, 1, k)) = k
      /\ \A i \in 1..k : SubSeq(e.chain, 1, k)[i] = e.chain[i]
  BY <1>1, SubSeqProperties
<1>3. Invoked(e, k) \in Seq(LoggedReg)
  BY InvokedType
<1>4. Len(Invoked(e, k)) = k + 1
  BY <1>1, <1>2, ConcatProperties DEF Invoked
<1>5. \A i \in 1..k + 1 : Invoked(e, k)[i] = Elem(e, i)
  BY <1>1, <1>2, ConcatProperties DEF Invoked, Elem
<1> QED
  BY <1>3, <1>4, <1>5

(* What an ordered entry logs is in order and among its registrations.    *)
LEMMA InvokedOrdered ==
    ASSUME NEW e \in RunEntry, NEW k \in 0..Len(e.chain), EntryOrdered(e)
    PROVE  /\ OrderedSeq(Invoked(e, k))
           /\ \A i \in DOMAIN Invoked(e, k) : Invoked(e, k)[i] \in Regs(e)
<1>1. /\ DOMAIN Invoked(e, k) = 1..k + 1
      /\ \A i \in 1..k + 1 : Invoked(e, k)[i] = Elem(e, i)
  BY InvokedElems
<1>2. 1..k + 1 \subseteq 1..Len(e.chain) + 1
  BY DEF RunEntry
<1> QED
  BY <1>1, <1>2 DEF OrderedSeq, EntryOrdered, Regs

(* run() going on with the rest of an ordered list.                        *)
LEMMA TailOrdered ==
    ASSUME NEW t \in Seq(RunEntry), t # << >>, ListOrdered(t)
    PROVE  /\ Tail(t) \in Seq(RunEntry)
           /\ \A p \in DOMAIN Tail(t) : p + 1 \in DOMAIN t /\ Tail(t)[p] = t[p + 1]
           /\ ListOrdered(Tail(t))
<1>1. /\ Tail(t) \in Seq(RunEntry)
      /\ Len(Tail(t)) = Len(t) - 1
      /\ \A i \in 1..Len(Tail(t)) : Tail(t)[i] = t[i + 1]
  BY HeadTailProperties
<1>2. \A p \in DOMAIN Tail(t) : p + 1 \in DOMAIN t /\ Tail(t)[p] = t[p + 1]
  BY <1>1
<1> QED
  BY <1>1, <1>2 DEF ListOrdered
-----------------------------------------------------------------------------
(* The order sortRegistrations leaves between two registrations: by        *)
(* priority, then by id.                                                   *)
SortKey(a, b) == a.priority < b.priority \/ (a.priority = b.priority /\ a.id <= b.id)

(* A sorted group holds registrations of its positions, in SortKey order.  *)
LEMMA SortedGroup ==
    ASSUME ledger \in Seq(Registration), NEW S \in SUBSET DOMAIN ledger
    PROVE  /\ DOMAIN SortedRegs(S) = 1..Cardinality(S)
           /\ \A k \in 1..Cardinality(S) : \E i \in S : SortedRegs(S)[k] = ledger[i]
           /\ \A k, m \in 1..Cardinality(S) :
                 k < m => SortKey(SortedRegs(S)[k], SortedRegs(S)[m])
<1>1. DOMAIN SortedRegs(S) = 1..Cardinality(S)
  BY DEF SortedRegs
<1>2. \A k \in 1..Cardinality(S) : \E i \in S : SortedRegs(S)[k] = ledger[i]
  BY SortedRegsAt
<1>3. ASSUME NEW k \in 1..Cardinality(S), NEW m \in 1..Cardinality(S), k < m
      PROVE  SortKey(SortedRegs(S)[k], SortedRegs(S)[m])
  <2> DEFINE i == SRank(S, k)
             j == SRank(S, m)
  <2>1. i \in S /\ j \in S /\ SortedRegs(S)[k] = ledger[i] /\ SortedRegs(S)[m] = ledger[j]
    BY SortedRegsAt
  <2>2. SortsBefore(i, j)
    BY <1>3, SortedRegsSorted
  <2>3. ledger[i] \in Registration /\ ledger[j] \in Registration
    BY <2>1, ElementOfSeq
  <2>4. /\ ledger[i].priority \in Int /\ ledger[j].priority \in Int
        /\ ledger[i].id \in Nat /\ ledger[j].id \in Nat
    BY <2>3 DEF Registration
  <2> QED
    BY <2>1, <2>2, <2>4 DEF SortsBefore, SortKey
<1> QED
  BY <1>1, <1>2, <1>3

(* The group of a registration follows from its options; the default      *)
(* handler is in the main group.                                           *)
LEMMA GroupOfReg ==
    /\ \A r \in Registration :
          Group(r) = IF r.replace THEN 1 ELSE IF r.before THEN 0 ELSE 2
    /\ Group(DefaultReg) = 1
BY DEF Group, Registration, Serials, DefaultReg

(* A group of getHandlers: its registrations, all of group g, in SortKey   *)
(* order.                                                                  *)
SortedOfGroup(s, g) ==
    /\ s \in Seq(Registration)
    /\ \A k \in DOMAIN s : Group(s[k]) = g
    /\ \A k, m \in DOMAIN s : k < m => SortKey(s[k], s[m])

LEMMA GroupsSorted ==
    ASSUME ledger \in Seq(Registration)
    PROVE  /\ SortedOfGroup(BeforeRegs, 0)
           /\ SortedOfGroup(ReplaceRegs, 1)
           /\ SortedOfGroup(AfterRegs, 2)
<1>1. \A i \in DOMAIN ledger : ledger[i] \in Registration
  BY ElementOfSeq
<1>2. /\ BeforeRegs \in Seq(Registration)
      /\ ReplaceRegs \in Seq(Registration)
      /\ AfterRegs \in Seq(Registration)
  BY GroupsType
<1>3. SortedOfGroup(BeforeRegs, 0)
  <2> DEFINE S == {i \in DOMAIN ledger : ledger[i].before /\ ~ledger[i].replace}
  <2>1. /\ DOMAIN SortedRegs(S) = 1..Cardinality(S)
        /\ \A k \in 1..Cardinality(S) : \E i \in S : SortedRegs(S)[k] = ledger[i]
        /\ \A k, m \in 1..Cardinality(S) :
              k < m => SortKey(SortedRegs(S)[k], SortedRegs(S)[m])
    BY SortedGroup
  <2> QED
    BY <1>1, <1>2, <2>1, GroupOfReg DEF SortedOfGroup, BeforeRegs
<1>4. SortedOfGroup(ReplaceRegs, 1)
  <2> DEFINE S == {i \in DOMAIN ledger : ledger[i].replace}
  <2>1. /\ DOMAIN SortedRegs(S) = 1..Cardinality(S)
        /\ \A k \in 1..Cardinality(S) : \E i \in S : SortedRegs(S)[k] = ledger[i]
        /\ \A k, m \in 1..Cardinality(S) :
              k < m => SortKey(SortedRegs(S)[k], SortedRegs(S)[m])
    BY SortedGroup
  <2> QED
    BY <1>1, <1>2, <2>1, GroupOfReg DEF SortedOfGroup, ReplaceRegs
<1>5. SortedOfGroup(AfterRegs, 2)
  <2> DEFINE S == {i \in DOMAIN ledger : ~ledger[i].before /\ ~ledger[i].replace}
  <2>1. /\ DOMAIN SortedRegs(S) = 1..Cardinality(S)
        /\ \A k \in 1..Cardinality(S) : \E i \in S : SortedRegs(S)[k] = ledger[i]
        /\ \A k, m \in 1..Cardinality(S) :
              k < m => SortKey(SortedRegs(S)[k], SortedRegs(S)[m])
    BY SortedGroup
  <2> QED
    BY <1>1, <1>2, <2>1, GroupOfReg DEF SortedOfGroup, AfterRegs
<1> QED
  BY <1>3, <1>4, <1>5
-----------------------------------------------------------------------------
(* The groups the registrations of a list of entries belong to.           *)
GroupsIn(t, G) == \A p \in DOMAIN t : \A a \in Regs(t[p]) : Group(a) \in G

(* Two ordered lists, each registration of the first allowed before each   *)
(* of the second, make an ordered concatenation.                           *)
LEMMA ListConcat ==
    ASSUME NEW s \in Seq(RunEntry), NEW t \in Seq(RunEntry), ListOrdered(s), ListOrdered(t),
           \A p \in DOMAIN s, q \in DOMAIN t :
              \A a \in Regs(s[p]), b \in Regs(t[q]) : MayPrecede(a, b)
    PROVE  ListOrdered(s \o t)
<1>1. /\ Len(s \o t) = Len(s) + Len(t)
      /\ DOMAIN (s \o t) = 1..Len(s) + Len(t)
      /\ \A x \in 1..Len(s) + Len(t) :
            (s \o t)[x] = IF x <= Len(s) THEN s[x] ELSE t[x - Len(s)]
  BY ConcatProperties
<1>2. ASSUME NEW p \in DOMAIN (s \o t)
      PROVE  EntryOrdered((s \o t)[p])
  <2>1. CASE p <= Len(s)
    BY <1>1, <2>1 DEF ListOrdered
  <2>2. CASE ~(p <= Len(s))
    <3>1. p - Len(s) \in DOMAIN t
      BY <1>1, <2>2
    <3> QED
      BY <1>1, <2>2, <3>1 DEF ListOrdered
  <2> QED
    BY <2>1, <2>2
<1>3. ASSUME NEW p \in DOMAIN (s \o t), NEW q \in DOMAIN (s \o t), p < q,
             NEW a \in Regs((s \o t)[p]), NEW b \in Regs((s \o t)[q])
      PROVE  MayPrecede(a, b)
  <2>1. CASE q <= Len(s)
    BY <1>1, <1>3, <2>1 DEF ListOrdered
  <2>2. CASE p <= Len(s) /\ ~(q <= Len(s))
    <3>1. p \in DOMAIN s /\ q - Len(s) \in DOMAIN t
      BY <1>1, <1>3, <2>2
    <3>2. a \in Regs(s[p]) /\ b \in Regs(t[q - Len(s)])
      BY <1>1, <1>3, <2>2
    <3> QED
      BY <3>1, <3>2
  <2>3. CASE ~(p <= Len(s))
    <3>1. /\ p - Len(s) \in DOMAIN t /\ q - Len(s) \in DOMAIN t
          /\ p - Len(s) < q - Len(s)
      BY <1>1, <1>3, <2>3
    <3>2. a \in Regs(t[p - Len(s)]) /\ b \in Regs(t[q - Len(s)])
      BY <1>1, <1>3, <2>3
    <3> QED
      BY <3>1, <3>2 DEF ListOrdered
  <2> QED
    BY <2>1, <2>2, <2>3
<1> QED
  BY <1>2, <1>3 DEF ListOrdered

LEMMA GroupsInConcat ==
    ASSUME NEW s \in Seq(RunEntry), NEW t \in Seq(RunEntry), NEW G,
           GroupsIn(s, G), GroupsIn(t, G)
    PROVE  GroupsIn(s \o t, G)
<1>1. /\ DOMAIN (s \o t) = 1..Len(s) + Len(t)
      /\ \A x \in 1..Len(s) + Len(t) :
            (s \o t)[x] = IF x <= Len(s) THEN s[x] ELSE t[x - Len(s)]
  BY ConcatProperties
<1> SUFFICES ASSUME NEW p \in DOMAIN (s \o t) PROVE \A a \in Regs((s \o t)[p]) : Group(a) \in G
  BY DEF GroupsIn
<1>2. CASE p <= Len(s)
  BY <1>1, <1>2 DEF GroupsIn
<1>3. CASE ~(p <= Len(s))
  <2>1. p - Len(s) \in DOMAIN t
    BY <1>1, <1>3
  <2> QED
    BY <1>1, <1>3, <2>1 DEF GroupsIn
<1> QED
  BY <1>2, <1>3

(* Lists of earlier groups run before lists of later groups.               *)
LEMMA GroupsPrecede ==
    ASSUME NEW s, NEW t, NEW G \in SUBSET Int, NEW H \in SUBSET Int,
           GroupsIn(s, G), GroupsIn(t, H), \A g \in G, h \in H : g < h
    PROVE  \A p \in DOMAIN s, q \in DOMAIN t :
              \A a \in Regs(s[p]), b \in Regs(t[q]) : MayPrecede(a, b)
BY DEF GroupsIn, MayPrecede

(* An entry of the before or the after group invokes its registration only. *)
LEMMA AsEntryRegs ==
    ASSUME NEW r
    PROVE  /\ Regs(AsEntry(r)) = {r}
           /\ EntryOrdered(AsEntry(r))
<1>1. Len(AsEntry(r).chain) + 1 = 1 /\ Elem(AsEntry(r), 1) = r
  BY DEF AsEntry, Elem
<1> QED
  BY <1>1 DEF Regs, EntryOrdered

(* The entries run() is given for the before or the after group are in    *)
(* order: one group, ascending priority.                                   *)
LEMMA AsEntriesOrdered ==
    ASSUME NEW s, NEW g \in {0, 2}, SortedOfGroup(s, g)
    PROVE  LET t == [k \in DOMAIN s |-> AsEntry(s[k])]
           IN  /\ t \in Seq(RunEntry)
               /\ ListOrdered(t)
               /\ GroupsIn(t, {g})
<1> DEFINE t == [k \in DOMAIN s |-> AsEntry(s[k])]
<1>1. s \in Seq(Registration)
  BY DEF SortedOfGroup
<1>2. t \in Seq(RunEntry)
  BY <1>1, GroupEntriesType
<1>3. \A k \in DOMAIN s : Regs(t[k]) = {s[k]} /\ EntryOrdered(t[k])
  BY AsEntryRegs
<1>4. ASSUME NEW k \in DOMAIN s, NEW m \in DOMAIN s, k < m
      PROVE  MayPrecede(s[k], s[m])
  <2>1. s[k] \in Registration /\ s[m] \in Registration
    BY <1>1, ElementOfSeq
  <2>2. s[k].priority \in Int /\ s[m].priority \in Int
    BY <2>1 DEF Registration
  <2>3. Group(s[k]) = g /\ Group(s[m]) = g /\ SortKey(s[k], s[m])
    BY <1>4 DEF SortedOfGroup
  <2> QED
    BY <2>2, <2>3 DEF MayPrecede, SortKey
<1>5. ListOrdered(t)
  BY <1>3, <1>4 DEF ListOrdered
<1>6. GroupsIn(t, {g})
  BY <1>3 DEF GroupsIn, SortedOfGroup
<1> QED
  BY <1>2, <1>5, <1>6
(* The main entry: the last replacement, the ones it replaced from the     *)
(* latest down (createDefaultHandler(index - 1)), and the default handler  *)
(* last.  Sorted ascending, the replace group is walked down, so a later   *)
(* element of the chain never sorts after an earlier one.                  *)
LEMMA MainEntryOrdered ==
    ASSUME NEW rp, SortedOfGroup(rp, 1), Len(rp) # 0
    PROVE  LET n == Len(rp)
               e == [reg |-> rp[n], once |-> FALSE,
                     chain |-> [k \in 1..n - 1 |-> rp[n - k]] \o <<DefaultReg>>]
           IN  EntryOrdered(e) /\ \A a \in Regs(e) : Group(a) = 1
<1> DEFINE n == Len(rp)
           ch == [k \in 1..n - 1 |-> rp[n - k]]
           e == [reg |-> rp[n], once |-> FALSE, chain |-> ch \o <<DefaultReg>>]
<1>1. rp \in Seq(Registration) /\ n \in Nat /\ n >= 1
  BY DEF SortedOfGroup
<1>2. ASSUME NEW k \in 1..n
      PROVE  rp[k] \in Registration /\ Group(rp[k]) = 1 /\ rp[k].serial # 0
  <2>1. rp[k] \in Registration
    BY <1>1, ElementOfSeq
  <2>2. Group(rp[k]) = 1
    BY <1>1 DEF SortedOfGroup
  <2>3. rp[k].serial # 0
    BY <2>1 DEF Registration, Serials
  <2> QED
    BY <2>1, <2>2, <2>3
<1>3. ch \in Seq(LoggedReg) /\ Len(ch) = n - 1
  <2>1. ch \in [1..n - 1 -> LoggedReg]
    BY <1>1, <1>2 DEF LoggedReg
  <2>2. \A m \in Nat : [1..m -> LoggedReg] \subseteq Seq(LoggedReg)
    BY SeqDef
  <2>3. ch \in Seq(LoggedReg)
    <3>1. n - 1 \in Nat
      BY <1>1
    <3> QED
      BY <3>1, <2>1, <2>2
  <2> QED
    BY <2>3
<1>4. /\ Len(e.chain) = n
      /\ \A i \in 1..n : e.chain[i] = IF i <= n - 1 THEN rp[n - i] ELSE DefaultReg
  <2>1. <<DefaultReg>> \in Seq(LoggedReg)
    BY DEF LoggedReg
  <2> QED
    BY <1>1, <1>3, <2>1, ConcatProperties
<1>5. \A i \in 1..n + 1 : Elem(e, i) = IF i <= n THEN rp[n - i + 1] ELSE DefaultReg
  BY <1>1, <1>4 DEF Elem
<1>6. ASSUME NEW i \in 1..n + 1, NEW j \in 1..n + 1, i < j
      PROVE  MayPrecede(Elem(e, i), Elem(e, j))
  <2>1. i <= n /\ n - i + 1 \in 1..n
    BY <1>1, <1>6
  <2>2. CASE j <= n
    <3> DEFINE a == rp[n - i + 1]
               b == rp[n - j + 1]
    <3>1. n - j + 1 \in 1..n /\ n - j + 1 < n - i + 1
      BY <1>1, <1>6, <2>2
    <3>2. SortKey(b, a)
      BY <1>1, <2>1, <3>1 DEF SortedOfGroup
    <3>3. Group(a) = 1 /\ Group(b) = 1 /\ a.serial # 0 /\ b.serial # 0
      BY <1>2, <2>1, <3>1
    <3>4. MayPrecede(a, b)
      BY <3>2, <3>3 DEF MayPrecede, SortKey
    <3> QED
      BY <1>5, <2>1, <2>2, <3>4
  <2>3. CASE ~(j <= n)
    <3>1. Elem(e, j) = DefaultReg /\ Elem(e, i) = rp[n - i + 1]
      BY <1>5, <2>1, <2>3
    <3>2. Group(rp[n - i + 1]) = 1 /\ DefaultReg.serial = 0
      BY <1>2, <2>1 DEF DefaultReg
    <3> QED
      BY <3>1, <3>2 DEF MayPrecede
  <2> QED
    BY <2>2, <2>3
<1>7. ASSUME NEW a \in Regs(e) PROVE Group(a) = 1
  <2>1. PICK i \in 1..n + 1 : a = Elem(e, i)
    BY <1>4 DEF Regs
  <2>2. CASE i <= n
    <3>1. n - i + 1 \in 1..n
      BY <1>1, <2>2
    <3> QED
      BY <1>2, <1>5, <2>1, <2>2, <3>1
  <2>3. CASE ~(i <= n)
    BY <1>5, <2>1, <2>3, GroupOfReg
  <2> QED
    BY <2>2, <2>3
<1> QED
  BY <1>4, <1>6, <1>7 DEF EntryOrdered

(* The main list is ordered and of the main group.                         *)
LEMMA MainListOrdered ==
    ASSUME ledger \in Seq(Registration), NEW d \in BOOLEAN
    PROVE  /\ MainEntries(d) \in Seq(RunEntry)
           /\ ListOrdered(MainEntries(d))
           /\ GroupsIn(MainEntries(d), {1})
<1> DEFINE rp == ReplaceRegs
           n == Len(rp)
           M == MainEntries(d)
<1>1. M \in Seq(RunEntry)
  BY MainEntriesType
<1>2. SortedOfGroup(rp, 1)
  BY GroupsSorted
<1>3. CASE ~d
  BY <1>3 DEF MainEntries, ListOrdered, GroupsIn
<1>4. CASE d /\ n = 0
  <2> DEFINE x == [reg |-> DefaultReg, once |-> FALSE, chain |-> << >>]
  <2>1. M = <<x>> /\ DOMAIN M = {1} /\ M[1] = x
    <3>1. M = <<x>>
      BY <1>4, Zenon DEF MainEntries
    <3> QED
      BY <3>1
  <2>2. Regs(x) = {DefaultReg} /\ EntryOrdered(x)
    BY DEF Regs, Elem, EntryOrdered
  <2>3. Group(DefaultReg) = 1
    BY GroupOfReg
  <2>4. \A p \in DOMAIN M : EntryOrdered(M[p])
    BY <2>1, <2>2
  <2>5. \A p, q \in DOMAIN M : ~(p < q)
    BY <2>1
  <2>6. GroupsIn(M, {1})
    BY <2>1, <2>2, <2>3 DEF GroupsIn
  <2> QED
    BY <1>1, <2>4, <2>5, <2>6 DEF ListOrdered
<1>5. CASE d /\ n # 0
  <2> DEFINE e == [reg |-> rp[n], once |-> FALSE,
                   chain |-> [k \in 1..n - 1 |-> rp[n - k]] \o <<DefaultReg>>]
  <2>1. M = <<e>> /\ DOMAIN M = {1} /\ M[1] = e
    <3>1. M = <<e>>
      BY <1>5, Zenon DEF MainEntries
    <3> QED
      BY <3>1
  <2>2. EntryOrdered(e) /\ \A a \in Regs(e) : Group(a) = 1
    BY <1>2, <1>5, MainEntryOrdered
  <2>4. \A p \in DOMAIN M : EntryOrdered(M[p])
    BY <2>1, <2>2
  <2>5. \A p, q \in DOMAIN M : ~(p < q)
    BY <2>1
  <2>6. GroupsIn(M, {1})
    BY <2>1, <2>2 DEF GroupsIn
  <2> QED
    BY <1>1, <2>4, <2>5, <2>6 DEF ListOrdered
<1> QED
  BY <1>1, <1>3, <1>4, <1>5

(* The list call() and callSync() snapshot is in order: the before group,  *)
(* the main entry, the after group.                                        *)
LEMMA RunListOrdered ==
    ASSUME ledger \in Seq(Registration), NEW d \in BOOLEAN
    PROVE  ListOrdered(RunList(d))
<1> DEFINE B == [k \in DOMAIN BeforeRegs |-> AsEntry(BeforeRegs[k])]
           A == [k \in DOMAIN AfterRegs |-> AsEntry(AfterRegs[k])]
           M == MainEntries(d)
<1>1. SortedOfGroup(BeforeRegs, 0) /\ SortedOfGroup(AfterRegs, 2)
  BY GroupsSorted
<1>2. B \in Seq(RunEntry) /\ ListOrdered(B) /\ GroupsIn(B, {0})
  BY <1>1, AsEntriesOrdered
<1>3. A \in Seq(RunEntry) /\ ListOrdered(A) /\ GroupsIn(A, {2})
  BY <1>1, AsEntriesOrdered
<1>4. M \in Seq(RunEntry) /\ ListOrdered(M) /\ GroupsIn(M, {1})
  BY MainListOrdered
<1>5. ListOrdered(B \o M)
  BY <1>2, <1>4, GroupsPrecede, ListConcat
<1>6. B \o M \in Seq(RunEntry) /\ GroupsIn(B \o M, {0, 1})
  <2>1. GroupsIn(B, {0, 1}) /\ GroupsIn(M, {0, 1})
    BY <1>2, <1>4 DEF GroupsIn
  <2> QED
    BY <1>2, <1>4, <2>1, GroupsInConcat, ConcatProperties
<1>7. \A p \in DOMAIN (B \o M), q \in DOMAIN A :
         \A a \in Regs((B \o M)[p]), b \in Regs(A[q]) : MayPrecede(a, b)
  <2> SUFFICES ASSUME NEW p \in DOMAIN (B \o M), NEW q \in DOMAIN A,
                      NEW a \in Regs((B \o M)[p]), NEW b \in Regs(A[q])
               PROVE  MayPrecede(a, b)
    OBVIOUS
  <2>1. Group(a) \in {0, 1}
    BY <1>6 DEF GroupsIn
  <2>2. Group(b) = 2
    BY <1>3 DEF GroupsIn
  <2> QED
    BY <2>1, <2>2 DEF MayPrecede
<1>8. ListOrdered((B \o M) \o A)
  BY <1>3, <1>5, <1>6, <1>7, ListConcat
<1> QED
  BY <1>8 DEF RunList
-----------------------------------------------------------------------------
(* The inductive invariant, step by step.  CallOrdered(c) reads only the   *)
(* trigger's own state, so a step that leaves it alone keeps it.           *)
LEMMA CallOrderedFrame ==
    ASSUME NEW c, call'[c] = call[c], log'[c] = log[c], CallOrdered(c)
    PROVE  CallOrdered(c)'
BY DEF CallOrdered

LEMMA InitOInv == Init => OInv
<1> SUFFICES ASSUME Init PROVE OInv
  OBVIOUS
<1>1. HookTypeOK
  BY InitTypeOK
<1> QED
  BY <1>1 DEF Init, OInv, CallOrdered, CallOk, OrderedSeq

(* run() invoking the head of an ordered list whose registrations all come *)
(* after what the trigger logged: the log stays in order and the rest of  *)
(* the list still comes after it.                                          *)
LEMMA InvokeOrdered ==
    ASSUME HookTypeOK, NEW c \in Calls, NEW t \in Seq(RunEntry), t # << >>, ListOrdered(t),
           OrderedSeq(log[c]),
           \A i \in DOMAIN log[c], p \in DOMAIN t :
              \A b \in Regs(t[p]) : MayPrecede(log[c][i], b),
           Invoke(c, Head(t), Tail(t))
    PROVE  CallOrdered(c)'
<1> DEFINE e == Head(t)
<1>1. PICK k \in 0..Len(e.chain) :
        /\ log' = [log EXCEPT ![c] = @ \o Invoked(e, k)]
        /\ call' = [call EXCEPT ![c] = [stage |-> "running", todo |-> Tail(t), pending |-> e]]
  BY DEF Invoke
<1>2. e = t[1] /\ 1 \in DOMAIN t /\ e \in RunEntry /\ EntryOrdered(e)
  BY HeadTailProperties DEF ListOrdered
<1>3. log[c] \in Seq(LoggedReg)
  BY DEF HookTypeOK, LoggedReg
<1> DEFINE inv == Invoked(e, k)
<1>4. /\ inv \in Seq(LoggedReg)
      /\ OrderedSeq(inv)
      /\ \A j \in DOMAIN inv : inv[j] \in Regs(t[1])
  BY <1>2, InvokedOrdered, InvokedType
<1>5. log'[c] = log[c] \o inv /\ call'[c].stage = "running" /\ call'[c].todo = Tail(t)
  BY <1>1 DEF HookTypeOK
<1>6. OrderedSeq(log[c] \o inv)
  BY <1>2, <1>3, <1>4, OrderedConcat
<1>7. /\ Tail(t) \in Seq(RunEntry)
      /\ \A p \in DOMAIN Tail(t) : p + 1 \in DOMAIN t /\ Tail(t)[p] = t[p + 1]
      /\ ListOrdered(Tail(t))
  BY TailOrdered
<1>8. ASSUME NEW i \in DOMAIN (log[c] \o inv), NEW p \in DOMAIN Tail(t),
             NEW b \in Regs(Tail(t)[p])
      PROVE  MayPrecede((log[c] \o inv)[i], b)
  <2>1. /\ DOMAIN (log[c] \o inv) = 1..Len(log[c]) + Len(inv)
        /\ \A x \in 1..Len(log[c]) + Len(inv) :
              (log[c] \o inv)[x] = IF x <= Len(log[c]) THEN log[c][x] ELSE inv[x - Len(log[c])]
    <3>1. log[c] \o inv \in Seq(LoggedReg) /\ Len(log[c] \o inv) = Len(log[c]) + Len(inv)
      BY <1>3, <1>4, ConcatProperties
    <3>2. DOMAIN (log[c] \o inv) = 1..Len(log[c] \o inv)
      BY <3>1, LenProperties
    <3> QED
      BY <1>3, <1>4, <3>1, <3>2, ConcatProperties
  <2>2. p + 1 \in DOMAIN t /\ b \in Regs(t[p + 1])
    BY <1>7, <1>8
  <2>3. CASE i <= Len(log[c])
    BY <2>1, <2>2, <2>3
  <2>4. CASE ~(i <= Len(log[c]))
    <3>0. Len(log[c]) \in Nat /\ Len(inv) \in Nat /\ DOMAIN inv = 1..Len(inv)
      BY <1>3, <1>4, LenProperties
    <3>1. i - Len(log[c]) \in DOMAIN inv
      <4>1. i \in 1..Len(log[c]) + Len(inv)
        BY <2>1
      <4>2. i - Len(log[c]) \in 1..Len(inv)
        BY <3>0, <4>1, <2>4
      <4> QED
        BY <3>0, <4>2
    <3>2. inv[i - Len(log[c])] \in Regs(t[1])
      BY <1>4, <3>1
    <3>3. 1 < p + 1
      BY <1>7
    <3> QED
      BY <1>2, <2>1, <2>2, <2>4, <3>2, <3>3 DEF ListOrdered
  <2> QED
    BY <2>3, <2>4
<1> QED
  BY <1>5, <1>6, <1>7, <1>8 DEF CallOrdered, CallOk

(* call() of an idle trigger.                                              *)
LEMMA CallOrderedStep ==
    ASSUME OInv, NEW c \in Calls, NEW d \in BOOLEAN, Call(c, d)
    PROVE  \A c2 \in Calls : CallOrdered(c2)'
<1> DEFINE list == RunList(d)
<1>1. HookTypeOK /\ CallOrdered(c) /\ call[c].stage = "idle" /\ log[c] = << >>
  BY DEF OInv, Call, CallOrdered, CallOk
<1>2. ASSUME NEW c2 \in Calls, c2 # c PROVE CallOrdered(c2)'
  <2>1. call'[c2] = call[c2] /\ log'[c2] = log[c2]
    BY <1>2 DEF Call, Invoke, HookTypeOK, OInv
  <2> QED
    BY <2>1, CallOrderedFrame DEF OInv
<1>3. CallOrdered(c)'
  <2>1. CASE list = << >>
    <3>1. call'[c].stage = "done" /\ log'[c] = log[c]
      BY <1>1, <2>1 DEF Call, HookTypeOK
    <3> QED
      BY <1>1, <3>1 DEF CallOrdered, CallOk, OrderedSeq
  <2>2. CASE list # << >>
    <3>1. list \in Seq(RunEntry) /\ ListOrdered(list)
      BY <1>1, RunListType, RunListOrdered DEF HookTypeOK
    <3>2. Invoke(c, Head(list), Tail(list))
      BY <2>2 DEF Call
    <3>3. OrderedSeq(log[c])
      BY <1>1 DEF OrderedSeq
    <3> QED
      BY <1>1, <2>2, <3>1, <3>2, <3>3, InvokeOrdered
  <2> QED
    BY <2>1, <2>2
<1> QED
  BY <1>2, <1>3

(* run() going on after the awaited handler resolved.                      *)
LEMMA ResumeNextOrderedStep ==
    ASSUME OInv, NEW c \in Calls, ResumeNext(c)
    PROVE  \A c2 \in Calls : CallOrdered(c2)'
<1>1. HookTypeOK /\ CallOrdered(c) /\ call[c].stage = "running"
  BY DEF OInv, ResumeNext
<1>2. ASSUME NEW c2 \in Calls, c2 # c PROVE CallOrdered(c2)'
  <2>1. call'[c2] = call[c2] /\ log'[c2] = log[c2]
    BY <1>2 DEF ResumeNext, Invoke, HookTypeOK, OInv
  <2> QED
    BY <2>1, CallOrderedFrame DEF OInv
<1>3. CallOrdered(c)'
  <2> DEFINE t == call[c].todo
  <2>1. t \in Seq(RunEntry) /\ t # << >> /\ Invoke(c, Head(t), Tail(t))
    BY <1>1 DEF ResumeNext, HookTypeOK
  <2>2. /\ ListOrdered(t)
        /\ OrderedSeq(log[c])
        /\ \A i \in DOMAIN log[c], p \in DOMAIN t :
              \A b \in Regs(t[p]) : MayPrecede(log[c][i], b)
    BY <1>1 DEF CallOrdered, CallOk
  <2> QED
    BY <1>1, <2>1, <2>2, InvokeOrdered
<1> QED
  BY <1>2, <1>3

(* run() ending: its last handler resolved, or a handler rejected.         *)
LEMMA EndOrderedStep ==
    ASSUME OInv, NEW c \in Calls, NEW st \in {"done", "failed"},
           call' = [call EXCEPT ![c] = [stage |-> st, todo |-> << >>, pending |-> NoEntry]],
           log' = log
    PROVE  \A c2 \in Calls : CallOrdered(c2)'
<1>1. ASSUME NEW c2 \in Calls, c2 # c PROVE CallOrdered(c2)'
  BY <1>1, CallOrderedFrame DEF OInv, HookTypeOK
<1>2. CallOrdered(c)'
  <2>1. call'[c].stage = st /\ OrderedSeq(log[c])
    BY DEF OInv, HookTypeOK, CallOrdered, CallOk
  <2> QED
    BY <2>1 DEF CallOrdered, CallOk
<1> QED
  BY <1>1, <1>2
(* The groups of the registrations in a sequence.                          *)
SeqGroupsIn(s, G) == \A i \in DOMAIN s : Group(s[i]) \in G

LEMMA SeqGroupsConcat ==
    ASSUME NEW S, NEW s \in Seq(S), NEW t \in Seq(S), NEW G,
           SeqGroupsIn(s, G), SeqGroupsIn(t, G)
    PROVE  SeqGroupsIn(s \o t, G)
<1>1. /\ s \o t \in Seq(S) /\ Len(s \o t) = Len(s) + Len(t)
      /\ \A x \in 1..Len(s) + Len(t) :
            (s \o t)[x] = IF x <= Len(s) THEN s[x] ELSE t[x - Len(s)]
  BY ConcatProperties
<1>2. DOMAIN (s \o t) = 1..Len(s) + Len(t) /\ Len(s) \in Nat /\ Len(t) \in Nat
  BY <1>1, LenProperties
<1> SUFFICES ASSUME NEW i \in DOMAIN (s \o t) PROVE Group((s \o t)[i]) \in G
  BY DEF SeqGroupsIn
<1>3. CASE i <= Len(s)
  BY <1>1, <1>2, <1>3 DEF SeqGroupsIn
<1>4. CASE ~(i <= Len(s))
  <2>1. i - Len(s) \in 1..Len(t)
    BY <1>2, <1>4
  <2> QED
    BY <1>1, <1>2, <1>4, <2>1 DEF SeqGroupsIn
<1> QED
  BY <1>3, <1>4

(* callSync logs the before group as it is sorted.                         *)
LEMMA GroupSeqOrdered ==
    ASSUME NEW s, NEW g \in {0, 2}, SortedOfGroup(s, g)
    PROVE  LET q == [i \in DOMAIN s |-> s[i]]
           IN  q \in Seq(LoggedReg) /\ OrderedSeq(q) /\ SeqGroupsIn(q, {g})
<1> DEFINE q == [i \in DOMAIN s |-> s[i]]
<1>1. s \in Seq(Registration) /\ q = s
  BY DEF SortedOfGroup
<1>2. s \in Seq(LoggedReg)
  BY <1>1, SeqMonotonic DEF LoggedReg
<1>3. ASSUME NEW k \in DOMAIN s, NEW m \in DOMAIN s, k < m
      PROVE  MayPrecede(s[k], s[m])
  <2>1. s[k] \in Registration /\ s[m] \in Registration
    BY <1>1, ElementOfSeq
  <2>2. s[k].priority \in Int /\ s[m].priority \in Int
    BY <2>1 DEF Registration
  <2>3. Group(s[k]) = g /\ Group(s[m]) = g /\ SortKey(s[k], s[m])
    BY <1>3 DEF SortedOfGroup
  <2> QED
    BY <2>2, <2>3 DEF MayPrecede, SortKey
<1> QED
  BY <1>1, <1>2, <1>3 DEF OrderedSeq, SeqGroupsIn, SortedOfGroup

(* callSync() of an idle trigger: the before group, what the main handler  *)
(* and its chain invoke, then the after group.                             *)
LEMMA CallSyncOrderedStep ==
    ASSUME OInv, NEW c \in Calls, NEW d \in BOOLEAN, CallSync(c, d)
    PROVE  \A c2 \in Calls : CallOrdered(c2)'
<1> DEFINE main == MainEntries(d)
           chainLen == IF main = << >> THEN 0 ELSE Len(main[1].chain)
           Bq == [i \in DOMAIN BeforeRegs |-> BeforeRegs[i]]
           Aq == [i \in DOMAIN AfterRegs |-> AfterRegs[i]]
<1>1. HookTypeOK /\ ledger \in Seq(Registration)
  BY DEF OInv, HookTypeOK
<1>2. ASSUME NEW c2 \in Calls, c2 # c PROVE CallOrdered(c2)'
  <2>1. call'[c2] = call[c2] /\ log'[c2] = log[c2]
    BY <1>1, <1>2 DEF CallSync, HookTypeOK
  <2> QED
    BY <2>1, CallOrderedFrame DEF OInv
<1>3. PICK k \in 0..chainLen :
        log' = [log EXCEPT ![c] =
                  Bq \o (IF main = << >> THEN << >> ELSE Invoked(main[1], k)) \o Aq]
  BY DEF CallSync
<1> DEFINE mid == IF main = << >> THEN << >> ELSE Invoked(main[1], k)
<1>4. Bq \in Seq(LoggedReg) /\ OrderedSeq(Bq) /\ SeqGroupsIn(Bq, {0})
  BY <1>1, GroupsSorted, GroupSeqOrdered
<1>5. Aq \in Seq(LoggedReg) /\ OrderedSeq(Aq) /\ SeqGroupsIn(Aq, {2})
  BY <1>1, GroupsSorted, GroupSeqOrdered
<1>6. mid \in Seq(LoggedReg) /\ OrderedSeq(mid) /\ SeqGroupsIn(mid, {1})
  <2>1. CASE main = << >>
    BY <2>1 DEF OrderedSeq, SeqGroupsIn
  <2>2. CASE main # << >>
    <3>1. main \in Seq(RunEntry) /\ ListOrdered(main) /\ GroupsIn(main, {1})
      BY <1>1, MainListOrdered
    <3>2. 1 \in DOMAIN main /\ main[1] \in RunEntry
      BY <1>1, <2>2, <3>1, MainEntriesType, EmptySeq, LenProperties
    <3>3. EntryOrdered(main[1]) /\ \A a \in Regs(main[1]) : Group(a) \in {1}
      BY <3>1, <3>2 DEF ListOrdered, GroupsIn
    <3>4. k \in 0..Len(main[1].chain)
      BY <2>2
    <3>5. /\ Invoked(main[1], k) \in Seq(LoggedReg)
          /\ OrderedSeq(Invoked(main[1], k))
          /\ \A j \in DOMAIN Invoked(main[1], k) : Invoked(main[1], k)[j] \in Regs(main[1])
      BY <3>2, <3>3, <3>4, InvokedOrdered, InvokedType
    <3> QED
      BY <2>2, <3>3, <3>5 DEF SeqGroupsIn
  <2> QED
    BY <2>1, <2>2
<1>7. OrderedSeq(Bq \o mid) /\ SeqGroupsIn(Bq \o mid, {0, 1}) /\ Bq \o mid \in Seq(LoggedReg)
  <2>1. \A i \in DOMAIN Bq, j \in DOMAIN mid : MayPrecede(Bq[i], mid[j])
    BY <1>4, <1>6 DEF SeqGroupsIn, MayPrecede
  <2>2. SeqGroupsIn(Bq, {0, 1}) /\ SeqGroupsIn(mid, {0, 1})
    BY <1>4, <1>6 DEF SeqGroupsIn
  <2> QED
    BY <1>4, <1>6, <2>1, <2>2, OrderedConcat, SeqGroupsConcat, ConcatProperties
<1>8. OrderedSeq((Bq \o mid) \o Aq)
  <2>1. ASSUME NEW i \in DOMAIN (Bq \o mid), NEW j \in DOMAIN Aq
        PROVE  MayPrecede((Bq \o mid)[i], Aq[j])
    <3>1. Group((Bq \o mid)[i]) \in {0, 1} /\ Group(Aq[j]) = 2
      BY <1>5, <1>7 DEF SeqGroupsIn
    <3> QED
      BY <3>1 DEF MayPrecede
  <2> QED
    BY <1>5, <1>7, <2>1, OrderedConcat
<1>9. CallOrdered(c)'
  <2>1. log'[c] = (Bq \o mid) \o Aq
    BY <1>1, <1>3 DEF HookTypeOK
  <2>2. call'[c].stage = "done"
    BY <1>1 DEF CallSync, HookTypeOK
  <2> QED
    BY <1>8, <2>1, <2>2 DEF CallOrdered, CallOk
<1> QED
  BY <1>2, <1>9

(* Every step keeps the inductive invariant.                               *)
LEMMA NextOInv == OInv /\ [Next]_vars => OInv'
<1> SUFFICES ASSUME OInv, [Next]_vars PROVE OInv'
  OBVIOUS
<1>1. HookTypeOK'
  BY NextTypeOK DEF OInv
<1>2. ASSUME UNCHANGED <<call, log>> PROVE \A c2 \in Calls : CallOrdered(c2)'
  BY <1>2, CallOrderedFrame DEF OInv
<1>3. \A c2 \in Calls : CallOrdered(c2)'
  <2>1. CASE \E h \in Fns, o \in Options : On(h, o)
    BY <2>1, <1>2 DEF On
  <2>2. CASE \E h \in Fns : Off(h)
    BY <2>2, <1>2 DEF Off
  <2>3. CASE OffAll
    BY <2>3, <1>2 DEF OffAll
  <2>4. CASE \E c \in Calls, d \in BOOLEAN : Call(c, d)
    BY <2>4, CallOrderedStep
  <2>5. CASE \E c \in Calls : ResumeNext(c)
    BY <2>5, ResumeNextOrderedStep
  <2>6. CASE \E c \in Calls : ResumeDone(c)
    <3>1. PICK c \in Calls : ResumeDone(c)
      BY <2>6
    <3> QED
      BY <3>1, EndOrderedStep DEF ResumeDone
  <2>7. CASE \E c \in Calls : Reject(c)
    <3>1. PICK c \in Calls : Reject(c)
      BY <2>7
    <3> QED
      BY <3>1, EndOrderedStep DEF Reject
  <2>8. CASE \E c \in Calls, d \in BOOLEAN : CallSync(c, d)
    BY <2>8, CallSyncOrderedStep
  <2>9. CASE UNCHANGED vars
    BY <2>9, <1>2 DEF vars
  <2> QED
    BY <2>1, <2>2, <2>3, <2>4, <2>5, <2>6, <2>7, <2>8, <2>9 DEF Next
<1> QED
  BY <1>1, <1>3 DEF OInv

(* The order of the handlers within one trigger: whatever other triggers,  *)
(* on() and off() calls happen at the awaits of run(), and whether the     *)
(* trigger is call() or callSync(), it invokes every before handler before *)
(* the main handler, the main handler before every after handler, lower    *)
(* priority first within the before and the after group, and down the      *)
(* replace chain each replacement before the ones it replaced and the      *)
(* default handler last.                                                   *)
THEOREM HandlersInOrder == Spec => []HandlerOrder
<1>1. OInv => HandlerOrder
  BY DEF OInv, CallOrdered, CallOk, OrderedSeq, HandlerOrder
<1> QED
  BY InitOInv, NextOInv, <1>1, PTL DEF Spec
=============================================================================
