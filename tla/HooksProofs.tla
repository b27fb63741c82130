---------------------------- MODULE HooksProofs ----------------------------
(***************************************************************************)
(* Proofs about the hook registry (module Hooks), for every value of the   *)
(* constants that satisfies HooksAssumptions.                              *)
(*                                                                         *)
(* getHandlers and ledger.delete both build a sequence by rank: the entry  *)
(* at place k is the one position with k - 1 positions before it.  That   *)
(* such a position exists, for every k up to the number of positions, is  *)
(* the fact every step about the ledger needs; RankExists proves it for   *)
(* any strict total order on a finite set, from the pigeonhole facts of    *)
(* FiniteSetTheorems.                                                      *)
(***************************************************************************)
EXTENDS Hooks, FiniteSetTheorems, SequenceTheorems, TLAPS

USE HooksAssumptions

(* R, a set of pairs, orders P strictly and totally.                       *)
StrictTotal(P, R) ==
    /\ \A i \in P : <<i, i>> \notin R
    /\ \A i, j \in P : i # j => <<i, j>> \in R \/ <<j, i>> \in R
    /\ \A i, j, k \in P : <<i, j>> \in R /\ <<j, k>> \in R => <<i, k>> \in R

(* The elements of P before i.                                             *)
Below(P, R, i) == {j \in P : <<j, i>> \in R}

-----------------------------------------------------------------------------
(* Each element of a finite strict total order has fewer than |P|         *)
(* elements before it.                                                      *)
LEMMA RankBound ==
    ASSUME NEW P, IsFiniteSet(P), NEW R, StrictTotal(P, R), NEW i \in P
    PROVE  /\ IsFiniteSet(Below(P, R, i))
           /\ Cardinality(Below(P, R, i)) \in 0..Cardinality(P) - 1
<1> DEFINE n == Cardinality(P)
<1>1. IsFiniteSet(P \ {i}) /\ Cardinality(P \ {i}) = n - 1
  BY FS_RemoveElement
<1>2. Below(P, R, i) \in SUBSET (P \ {i})
  BY DEF StrictTotal, Below
<1>3. IsFiniteSet(Below(P, R, i)) /\ Cardinality(Below(P, R, i)) <= n - 1
  BY <1>1, <1>2, FS_Subset
<1> QED
  BY <1>3, FS_CardinalityType

(* An element before another has fewer elements before it.                 *)
LEMMA RankMonotone ==
    ASSUME NEW P, IsFiniteSet(P), NEW R, StrictTotal(P, R),
           NEW i \in P, NEW i2 \in P, <<i, i2>> \in R
    PROVE  Cardinality(Below(P, R, i)) < Cardinality(Below(P, R, i2))
<1>1. i \notin Below(P, R, i)
  BY DEF StrictTotal, Below
<1>2. Below(P, R, i) \cup {i} \in SUBSET Below(P, R, i2)
  BY DEF StrictTotal, Below
<1>3. IsFiniteSet(Below(P, R, i)) /\ IsFiniteSet(Below(P, R, i2))
  BY RankBound
<1>4. Cardinality(Below(P, R, i) \cup {i}) = Cardinality(Below(P, R, i)) + 1
  BY <1>1, <1>3, FS_AddElement
<1>5. Cardinality(Below(P, R, i) \cup {i}) <= Cardinality(Below(P, R, i2))
  BY <1>2, <1>3, FS_Subset
<1> QED
  BY <1>4, <1>5, <1>3, FS_CardinalityType

(* In a finite set ordered strictly and totally, every rank is taken: for  *)
(* each k in 1..|P| some element has exactly k - 1 elements before it.     *)
LEMMA RankExists ==
    ASSUME NEW P, IsFiniteSet(P), NEW R, StrictTotal(P, R),
           NEW k \in 1..Cardinality(P)
    PROVE  \E i \in P : Cardinality(Below(P, R, i)) = k - 1
<1> DEFINE n == Cardinality(P)
<1> DEFINE f == [i \in P |-> Cardinality(Below(P, R, i))]
<1>1. n \in Nat
  BY FS_CardinalityType
<1>2. ASSUME NEW i \in P
      PROVE  /\ IsFiniteSet(Below(P, R, i))
             /\ Cardinality(Below(P, R, i)) \in 0..n - 1
  BY RankBound
<1>3. ASSUME NEW i \in P, NEW i2 \in P, <<i, i2>> \in R
      PROVE  Cardinality(Below(P, R, i)) < Cardinality(Below(P, R, i2))
  BY <1>3, RankMonotone
<1>4. f \in Injection(P, 0..n - 1)
  <2>1. f \in [P -> 0..n - 1]
    BY <1>2
  <2>2. ASSUME NEW i \in P, NEW i2 \in P, f[i] = f[i2]
        PROVE  i = i2
    <3> SUFFICES ASSUME i # i2 PROVE FALSE
      OBVIOUS
    <3>1. <<i, i2>> \in R \/ <<i2, i>> \in R
      BY DEF StrictTotal
    <3>0. f[i] = Cardinality(Below(P, R, i)) /\ f[i2] = Cardinality(Below(P, R, i2))
      OBVIOUS
    <3>2. CASE <<i, i2>> \in R
      <4>1. Cardinality(Below(P, R, i)) < Cardinality(Below(P, R, i2))
        BY <3>2, <1>3
      <4> QED
        BY <4>1, <3>0, <2>2, <1>2
    <3>3. CASE <<i2, i>> \in R
      <4>1. Cardinality(Below(P, R, i2)) < Cardinality(Below(P, R, i))
        BY <3>3, <1>3
      <4> QED
        BY <4>1, <3>0, <2>2, <1>2
    <3> QED
      BY <3>1, <3>2, <3>3
  <2> QED
    BY <2>1, <2>2 DEF Injection, IsInjective
<1>5. IsFiniteSet(0..n - 1) /\ Cardinality(0..n - 1) = n
  <2>1. 0 \in Int /\ n - 1 \in Int
    BY <1>1
  <2>2. IsFiniteSet(0..n - 1) /\ Cardinality(0..n - 1) = IF 0 > n - 1 THEN 0 ELSE n - 1 - 0 + 1
    BY <2>1, FS_Interval
  <2> QED
    BY <1>1, <2>2
<1>6. f \in Surjection(P, 0..n - 1)
  BY <1>4, <1>5, FS_Injection
<1>7. k - 1 \in 0..n - 1
  BY <1>1
<1>8. \E i \in P : f[i] = k - 1
  BY <1>6, <1>7 DEF Surjection
<1> QED
  BY <1>8

(* The positions of a sequence form a finite set.                          *)
LEMMA PositionsFinite ==
    ASSUME NEW l, NEW n \in Nat, DOMAIN l = 1..n, NEW P \in SUBSET DOMAIN l
    PROVE  IsFiniteSet(P) /\ Cardinality(P) \in Nat
<1>1. IsFiniteSet(1..n)
  BY FS_Interval
<1> QED
  BY <1>1, FS_Subset, FS_CardinalityType

(* ledger.delete, and callSync's removal of the once handlers, keep a      *)
(* sequence of the entries kept, one per kept position.                    *)
LEMMA KeepAtType ==
    ASSUME NEW S, NEW l \in Seq(S), NEW P \in SUBSET DOMAIN l
    PROVE  KeepAt(l, P) \in Seq(S)
<1> DEFINE R == {p \in P \X P : p[1] < p[2]}
<1>1. IsFiniteSet(P) /\ Cardinality(P) \in Nat /\ P \subseteq Nat
  BY PositionsFinite
<1>2. StrictTotal(P, R)
  BY <1>1 DEF StrictTotal
<1>3. ASSUME NEW k \in 1..Cardinality(P)
      PROVE  (CHOOSE i \in P : Cardinality({j \in P : j < i}) = k - 1) \in P
  <2>1. PICK i \in P : Cardinality(Below(P, R, i)) = k - 1
    BY <1>1, <1>2, RankExists
  <2>2. Below(P, R, i) = {j \in P : j < i}
    BY DEF Below
  <2> QED
    BY <2>1, <2>2
<1>4. ASSUME NEW k \in 1..Cardinality(P)
      PROVE  l[CHOOSE i \in P : Cardinality({j \in P : j < i}) = k - 1] \in S
  <2> DEFINE x == CHOOSE i \in P : Cardinality({j \in P : j < i}) = k - 1
  <2>0. x \in P
    BY <1>3, Zenon
  <2>1. x \in 1..Len(l)
    BY <2>0
  <2> QED
    BY <2>1, ElementOfSeq
<1>5. KeepAt(l, P) \in [1..Cardinality(P) -> S]
  BY <1>4 DEF KeepAt
<1> QED
  BY <1>1, <1>5, SeqDef

(* Two elements with as many elements before them are the same.           *)
LEMMA RankUnique ==
    ASSUME NEW P, IsFiniteSet(P), NEW R, StrictTotal(P, R),
           NEW i \in P, NEW i2 \in P,
           Cardinality(Below(P, R, i)) = Cardinality(Below(P, R, i2))
    PROVE  i = i2
<1> SUFFICES ASSUME i # i2 PROVE FALSE
  OBVIOUS
<1>1. <<i, i2>> \in R \/ <<i2, i>> \in R
  BY DEF StrictTotal
<1>2. Cardinality(Below(P, R, i)) \in Nat /\ Cardinality(Below(P, R, i2)) \in Nat
  BY RankBound, FS_CardinalityType
<1>3. CASE <<i, i2>> \in R
  BY <1>2, <1>3, RankMonotone
<1>4. CASE <<i2, i>> \in R
  BY <1>2, <1>4, RankMonotone
<1> QED
  BY <1>1, <1>3, <1>4

(* The position KeepAt puts at place k.                                    *)
KRank(P, k) == CHOOSE i \in P : Cardinality({j \in P : j < i}) = k - 1

(* ledger.delete keeps exactly the entries at the kept positions, each     *)
(* once, in their insertion order.                                         *)
LEMMA KeepAtContent ==
    ASSUME NEW S, NEW l \in Seq(S), NEW P \in SUBSET DOMAIN l
    PROVE  /\ DOMAIN KeepAt(l, P) = 1..Cardinality(P)
           /\ \A k \in 1..Cardinality(P) : KRank(P, k) \in P /\ KeepAt(l, P)[k] = l[KRank(P, k)]
           /\ \A i \in P : \E k \in 1..Cardinality(P) : KRank(P, k) = i
           /\ \A k, m \in 1..Cardinality(P) : k < m => KRank(P, k) < KRank(P, m)
<1> DEFINE R == {p \in P \X P : p[1] < p[2]}
           n == Cardinality(P)
<1>1. IsFiniteSet(P) /\ n \in Nat /\ P \subseteq Nat
  BY PositionsFinite
<1>2. StrictTotal(P, R)
  BY <1>1 DEF StrictTotal
<1>3. \A i \in P : Below(P, R, i) = {j \in P : j < i}
  BY DEF Below
<1>4. ASSUME NEW k \in 1..n
      PROVE  KRank(P, k) \in P /\ Cardinality({j \in P : j < KRank(P, k)}) = k - 1
  <2>1. PICK i \in P : Cardinality(Below(P, R, i)) = k - 1
    BY <1>1, <1>2, RankExists
  <2>2. \E x \in P : Cardinality({j \in P : j < x}) = k - 1
    BY <1>3, <2>1
  <2> QED
    BY <2>2, Zenon DEF KRank
<1>5. ASSUME NEW i \in P PROVE \E k \in 1..n : KRank(P, k) = i
  <2> DEFINE r == Cardinality(Below(P, R, i))
  <2>1. r \in 0..n - 1
    BY <1>1, <1>2, RankBound
  <2>2. r + 1 \in 1..n
    BY <1>1, <2>1
  <2>3. KRank(P, r + 1) \in P /\ Cardinality(Below(P, R, KRank(P, r + 1))) = r
    <3>1. KRank(P, r + 1) \in P /\ Cardinality({j \in P : j < KRank(P, r + 1)}) = r
      <4>1. \A k \in 1..n : KRank(P, k) \in P /\ Cardinality({j \in P : j < KRank(P, k)}) = k - 1
        BY <1>4
      <4>2. KRank(P, r + 1) \in P /\ Cardinality({j \in P : j < KRank(P, r + 1)}) = (r + 1) - 1
        BY <4>1, <2>2, Zenon
      <4>3. (r + 1) - 1 = r
        BY <2>1
      <4> QED
        BY <4>2, <4>3
    <3>2. Below(P, R, KRank(P, r + 1)) = {j \in P : j < KRank(P, r + 1)}
      BY <1>3, <3>1
    <3> QED
      BY <3>1, <3>2
  <2>4. KRank(P, r + 1) = i
    BY <1>1, <1>2, <2>3, RankUnique
  <2> QED
    BY <2>2, <2>4
<1>6. ASSUME NEW k \in 1..n, NEW m \in 1..n, k < m
      PROVE  KRank(P, k) < KRank(P, m)
  <2> DEFINE x == KRank(P, k)
             y == KRank(P, m)
  <2>1. x \in P /\ y \in P /\ Cardinality(Below(P, R, x)) = k - 1
        /\ Cardinality(Below(P, R, y)) = m - 1
    BY <1>3, <1>4
  <2> SUFFICES ASSUME ~(x < y) PROVE FALSE
    OBVIOUS
  <2>2. x # y
    BY <1>1, <2>1, <1>6
  <2>3. <<y, x>> \in R
    BY <1>1, <2>1, <2>2
  <2>4. Cardinality(Below(P, R, y)) < Cardinality(Below(P, R, x))
    BY <1>1, <1>2, <2>1, <2>3, RankMonotone
  <2> QED
    BY <2>1, <2>4, <1>6
<1> QED
  BY <1>4, <1>5, <1>6 DEF KeepAt, KRank

(* A ledger with at most one registration per handler function.          *)
FnsUnique(l) == \A i, j \in DOMAIN l : l[i].fn = l[j].fn => i = j

(* Keeping some positions of a ledger keeps its keys unique: the kept     *)
(* entries come from distinct positions, in increasing order.             *)
LEMMA KeepAtUnique ==
    ASSUME NEW S, NEW l \in Seq(S), NEW P \in SUBSET DOMAIN l, FnsUnique(l)
    PROVE  FnsUnique(KeepAt(l, P))
<1>1. /\ DOMAIN KeepAt(l, P) = 1..Cardinality(P)
      /\ \A k \in 1..Cardinality(P) : KRank(P, k) \in P /\ KeepAt(l, P)[k] = l[KRank(P, k)]
      /\ \A k, m \in 1..Cardinality(P) : k < m => KRank(P, k) < KRank(P, m)
  BY KeepAtContent
<1> SUFFICES ASSUME NEW k \in 1..Cardinality(P), NEW m \in 1..Cardinality(P),
                    KeepAt(l, P)[k].fn = KeepAt(l, P)[m].fn
             PROVE  k = m
  BY <1>1 DEF FnsUnique
<1>2. KRank(P, k) \in DOMAIN l /\ KRank(P, m) \in DOMAIN l
      /\ l[KRank(P, k)].fn = l[KRank(P, m)].fn
  BY <1>1
<1>3. KRank(P, k) = KRank(P, m)
  BY <1>2 DEF FnsUnique
<1>4. ~(k < m) /\ ~(m < k)
  BY <1>1, <1>3
<1> QED
  BY <1>4

(* Of two positions of the ledger, sortRegistrations puts exactly one      *)
(* first: SortsBefore orders the positions strictly and totally.           *)
LEMMA SortsBeforeOrder ==
    ASSUME ledger \in Seq(Registration), NEW P \in SUBSET DOMAIN ledger
    PROVE  StrictTotal(P, {p \in P \X P : SortsBefore(p[1], p[2])})
<1>1. ASSUME NEW i \in P
      PROVE  ledger[i].priority \in Int /\ ledger[i].id \in Nat /\ i \in Nat
  <2>1. ledger[i] \in Registration
    BY ElementOfSeq
  <2> QED
    BY <2>1 DEF Registration
<1> QED
  BY <1>1 DEF StrictTotal, SortsBefore

(* getHandlers' groups are sequences of registrations.                     *)
LEMMA SortedRegsType ==
    ASSUME ledger \in Seq(Registration), NEW S \in SUBSET DOMAIN ledger
    PROVE  SortedRegs(S) \in Seq(Registration)
<1> DEFINE R == {p \in S \X S : SortsBefore(p[1], p[2])}
<1>1. IsFiniteSet(S) /\ Cardinality(S) \in Nat
  BY PositionsFinite
<1>2. StrictTotal(S, R)
  BY SortsBeforeOrder
<1>3. ASSUME NEW k \in 1..Cardinality(S)
      PROVE  (CHOOSE i \in S : Cardinality({j \in S : SortsBefore(j, i)}) = k - 1) \in S
  <2>1. PICK i \in S : Cardinality(Below(S, R, i)) = k - 1
    BY <1>1, <1>2, RankExists
  <2>2. Below(S, R, i) = {j \in S : SortsBefore(j, i)}
    BY DEF Below
  <2> QED
    BY <2>1, <2>2
<1>4. ASSUME NEW k \in 1..Cardinality(S)
      PROVE  ledger[CHOOSE i \in S : Cardinality({j \in S : SortsBefore(j, i)}) = k - 1]
               \in Registration
  <2> DEFINE x == CHOOSE i \in S : Cardinality({j \in S : SortsBefore(j, i)}) = k - 1
  <2>0. x \in S
    BY <1>3, Zenon
  <2>1. x \in 1..Len(ledger)
    BY <2>0
  <2> QED
    BY <2>1, ElementOfSeq
<1>5. SortedRegs(S) \in [1..Cardinality(S) -> Registration]
  BY <1>4 DEF SortedRegs
<1> QED
  BY <1>1, <1>5, SeqDef

(* What a trigger may log: registrations and the default handler.          *)
LoggedReg == Registration \cup {DefaultReg}

(* The three groups of getHandlers are sequences of registrations.         *)
LEMMA GroupsType ==
    ASSUME ledger \in Seq(Registration)
    PROVE  /\ BeforeRegs \in Seq(Registration)
           /\ ReplaceRegs \in Seq(Registration)
           /\ AfterRegs \in Seq(Registration)
BY SortedRegsType DEF BeforeRegs, ReplaceRegs, AfterRegs

(* An entry run() invokes for a registration of the before or after group. *)
LEMMA GroupEntriesType ==
    ASSUME NEW g \in Seq(Registration)
    PROVE  [k \in DOMAIN g |-> AsEntry(g[k])] \in Seq(RunEntry)
<1>1. \A k \in DOMAIN g : g[k] \in Registration
  BY ElementOfSeq
<1>2. \A k \in DOMAIN g : AsEntry(g[k]) \in RunEntry
  BY <1>1 DEF AsEntry, RunEntry, Registration
<1>3. [k \in DOMAIN g |-> AsEntry(g[k])] \in [1..Len(g) -> RunEntry]
  BY <1>2
<1> QED
  BY <1>3, SeqDef

(* The main entry, with the replace chain its defaultHandler calls down.   *)
LEMMA MainEntriesType ==
    ASSUME ledger \in Seq(Registration), NEW d \in BOOLEAN
    PROVE  /\ MainEntries(d) \in Seq(RunEntry)
           /\ MainEntries(d) # <<>> => MainEntries(d)[1] \in RunEntry
<1> DEFINE rp == ReplaceRegs
<1> DEFINE n == Len(rp)
<1>1. rp \in Seq(Registration) /\ n \in Nat
  BY GroupsType
<1>2. DefaultReg \in LoggedReg
  BY DEF LoggedReg
<1>3. CASE n = 0
  <2> DEFINE x == [reg |-> DefaultReg, once |-> FALSE, chain |-> << >>]
  <2>1. x \in RunEntry
    BY <1>2 DEF RunEntry, LoggedReg
  <2>2. <<x>> \in Seq(RunEntry) /\ <<x>>[1] = x
    BY <2>1
  <2>3. MainEntries(d) = IF ~d THEN << >> ELSE <<x>>
    BY <1>3 DEF MainEntries
  <2> QED
    BY <2>1, <2>2, <2>3
<1>4. CASE n # 0
  <2> DEFINE ch == [k \in 1..n - 1 |-> rp[n - k]]
  <2>1. ch \in Seq(LoggedReg)
    <3>1. \A k \in 1..n - 1 : rp[n - k] \in LoggedReg
      BY <1>1, <1>4, ElementOfSeq DEF LoggedReg
    <3>2. ch \in [1..n - 1 -> LoggedReg]
      BY <3>1
    <3>3. n - 1 \in Nat
      BY <1>1, <1>4
    <3>4. \A m \in Nat : [1..m -> LoggedReg] \subseteq Seq(LoggedReg)
      BY SeqDef
    <3> QED
      BY <3>3, <3>2, <3>4
  <2>2. ch \o <<DefaultReg>> \in Seq(LoggedReg)
    BY <2>1, <1>2, ConcatProperties
  <2>3. rp[n] \in LoggedReg
    BY <1>1, <1>4, ElementOfSeq DEF LoggedReg
  <2>4. [reg |-> rp[n], once |-> FALSE, chain |-> ch \o <<DefaultReg>>] \in RunEntry
    BY <2>2, <2>3 DEF RunEntry, LoggedReg
  <2> QED
    BY <1>4, <2>4 DEF MainEntries
<1> QED
  BY <1>3, <1>4 DEF MainEntries

(* The list run() is given is a sequence of entries.                       *)
LEMMA RunListType ==
    ASSUME ledger \in Seq(Registration), NEW d \in BOOLEAN
    PROVE  RunList(d) \in Seq(RunEntry)
<1>1. BeforeRegs \in Seq(Registration) /\ AfterRegs \in Seq(Registration)
  BY GroupsType
<1>2. /\ [k \in DOMAIN BeforeRegs |-> AsEntry(BeforeRegs[k])] \in Seq(RunEntry)
      /\ [k \in DOMAIN AfterRegs |-> AsEntry(AfterRegs[k])] \in Seq(RunEntry)
  BY <1>1, GroupEntriesType
<1>3. MainEntries(d) \in Seq(RunEntry)
  BY MainEntriesType
<1> QED
  BY <1>2, <1>3, ConcatProperties DEF RunList

(* The registrations one handler invokes, along its chain.                 *)
LEMMA InvokedType ==
    ASSUME NEW e \in RunEntry, NEW k \in 0..Len(e.chain)
    PROVE  Invoked(e, k) \in Seq(LoggedReg)
<1>1. e.reg \in LoggedReg /\ e.chain \in Seq(LoggedReg)
  BY DEF RunEntry, LoggedReg
<1>2. SubSeq(e.chain, 1, k) \in Seq(LoggedReg)
  BY <1>1, SubSeqProperties
<1>3. <<e.reg>> \in Seq(LoggedReg)
  BY <1>1
<1> QED
  BY <1>2, <1>3, ConcatProperties DEF Invoked

-----------------------------------------------------------------------------
(* The state of one trigger.                                               *)
CallRec == [stage : CallStages, todo : Seq(RunEntry), pending : RunEntry \cup {NoEntry}]

LEMMA InitTypeOK == Init => HookTypeOK
BY DEF Init, HookTypeOK, CallStages, NoEntry

(* run() invoking entry e with rest still to run keeps the triggers' and   *)
(* the logs' types.                                                        *)
LEMMA InvokeType ==
    ASSUME HookTypeOK, NEW c \in Calls, NEW e \in RunEntry, NEW rest \in Seq(RunEntry),
           Invoke(c, e, rest)
    PROVE  /\ call' \in [Calls -> CallRec]
           /\ log' \in [Calls -> Seq(LoggedReg)]
<1>1. PICK k \in 0..Len(e.chain) :
        /\ log' = [log EXCEPT ![c] = @ \o Invoked(e, k)]
        /\ call' = [call EXCEPT ![c] = [stage |-> "running", todo |-> rest, pending |-> e]]
  BY DEF Invoke
<1>2. Invoked(e, k) \in Seq(LoggedReg) /\ log[c] \in Seq(LoggedReg)
  BY InvokedType DEF HookTypeOK, LoggedReg
<1>3. log[c] \o Invoked(e, k) \in Seq(LoggedReg)
  BY <1>2, ConcatProperties
<1> QED
  BY <1>1, <1>3 DEF HookTypeOK, CallRec, CallStages, LoggedReg

LEMMA OnType ==
    ASSUME HookTypeOK, NEW h \in Fns, NEW o \in Options, On(h, o)
    PROVE  HookTypeOK'
<1> DEFINE reg == [fn |-> h, id |-> Len(ledger) + 1, serial |-> nRegs + 1,
                   once |-> o.once, before |-> o.before, replace |-> o.replace,
                   priority |-> o.priority]
<1>1. reg \in Registration
  BY DEF On, HookTypeOK, Registration, Serials
<1>2. CASE h \in Registered
  <2> DEFINE l2 == [i \in DOMAIN ledger |-> IF ledger[i].fn = h THEN reg ELSE ledger[i]]
  <2>1. l2 \in [1..Len(ledger) -> Registration]
    BY <1>1, ElementOfSeq DEF HookTypeOK
  <2>2. \A m \in Nat : [1..m -> Registration] \subseteq Seq(Registration)
    BY SeqDef
  <2>3. \A i \in DOMAIN l2 : l2[i].fn = ledger[i].fn
    OBVIOUS
  <2>4. \A i, j \in DOMAIN l2 : l2[i].fn = l2[j].fn => i = j
    BY <2>3 DEF HookTypeOK
  <2> QED
    BY <1>2, <2>1, <2>2, <2>4 DEF On, HookTypeOK
<1>3. CASE h \notin Registered
  <2> DEFINE l2 == Append(ledger, reg)
  <2>1. /\ l2 \in Seq(Registration) /\ DOMAIN l2 = 1..Len(ledger) + 1
        /\ \A i \in 1..Len(ledger) : l2[i] = ledger[i]
        /\ l2[Len(ledger) + 1] = reg
    BY <1>1, AppendProperties DEF HookTypeOK
  <2>2. \A i \in 1..Len(ledger) : ledger[i].fn # h
    BY <1>3 DEF Registered, HookTypeOK
  <2>3. \A i, j \in DOMAIN l2 : l2[i].fn = l2[j].fn => i = j
    BY <2>1, <2>2 DEF HookTypeOK
  <2> QED
    BY <1>3, <2>1, <2>3 DEF On, HookTypeOK
<1> QED
  BY <1>2, <1>3

LEMMA OffType ==
    ASSUME HookTypeOK, NEW h \in Fns, Off(h)
    PROVE  HookTypeOK'
<1>1. DeleteFn(ledger, h) \in Seq(Registration)
  BY KeepAtType DEF DeleteFn, HookTypeOK
<1>2. FnsUnique(DeleteFn(ledger, h))
  BY KeepAtUnique DEF DeleteFn, HookTypeOK, FnsUnique
<1> QED
  BY <1>1, <1>2 DEF Off, HookTypeOK, FnsUnique

LEMMA OffAllType ==
    ASSUME HookTypeOK, OffAll
    PROVE  HookTypeOK'
BY DEF OffAll, HookTypeOK

LEMMA CallType ==
    ASSUME HookTypeOK, NEW c \in Calls, NEW d \in BOOLEAN, Call(c, d)
    PROVE  HookTypeOK'
<1> DEFINE list == RunList(d)
<1>1. list \in Seq(RunEntry)
  BY RunListType DEF HookTypeOK
<1>2. CASE list = << >>
  <2>1. call[c] \in CallRec
    BY DEF HookTypeOK, CallRec
  <2>2. [call[c] EXCEPT !.stage = "done"] \in CallRec
    BY <2>1, Zenon DEF CallRec, CallStages
  <2>3. call' = [call EXCEPT ![c] = [call[c] EXCEPT !.stage = "done"]] /\ UNCHANGED log
    BY <1>2 DEF Call
  <2>4. UNCHANGED <<ledger, nRegs>>
    BY DEF Call
  <2> QED
    BY <2>2, <2>3, <2>4 DEF HookTypeOK, CallRec
<1>3. CASE list # << >>
  <2>1. Head(list) \in RunEntry /\ Tail(list) \in Seq(RunEntry)
    BY <1>1, <1>3, HeadTailProperties
  <2>2. Invoke(c, Head(list), Tail(list))
    BY <1>3 DEF Call
  <2>3. call' \in [Calls -> CallRec] /\ log' \in [Calls -> Seq(LoggedReg)]
    BY <2>1, <2>2, InvokeType
  <2> QED
    BY <2>3 DEF Call, HookTypeOK, CallRec, LoggedReg
<1> QED
  BY <1>2, <1>3

(* run() deleting the awaited handler when it was registered with once.    *)
LEMMA ResumeLedgerType ==
    ASSUME HookTypeOK, NEW c \in Calls,
           ledger' = IF call[c].pending.once THEN DeleteFn(ledger, call[c].pending.reg.fn)
                     ELSE ledger
    PROVE  ledger' \in Seq(Registration) /\ FnsUnique(ledger')
<1>1. ledger \in Seq(Registration) /\ FnsUnique(ledger)
  BY DEF HookTypeOK, FnsUnique
<1> QED
  BY <1>1, KeepAtType, KeepAtUnique DEF DeleteFn

LEMMA ResumeNextType ==
    ASSUME HookTypeOK, NEW c \in Calls, ResumeNext(c)
    PROVE  HookTypeOK'
<1>1. ledger' \in Seq(Registration) /\ FnsUnique(ledger')
  BY ResumeLedgerType DEF ResumeNext
<1>2. call[c].todo \in Seq(RunEntry) /\ call[c].todo # << >>
  BY DEF ResumeNext, HookTypeOK
<1>3. Head(call[c].todo) \in RunEntry /\ Tail(call[c].todo) \in Seq(RunEntry)
  BY <1>2, HeadTailProperties
<1>4. call' \in [Calls -> CallRec] /\ log' \in [Calls -> Seq(LoggedReg)]
  BY <1>3, InvokeType DEF ResumeNext
<1> QED
  BY <1>1, <1>4 DEF ResumeNext, HookTypeOK, CallRec, LoggedReg, FnsUnique

LEMMA ResumeDoneType ==
    ASSUME HookTypeOK, NEW c \in Calls, ResumeDone(c)
    PROVE  HookTypeOK'
<1>1. ledger' \in Seq(Registration) /\ FnsUnique(ledger')
  BY ResumeLedgerType DEF ResumeDone
<1> QED
  BY <1>1 DEF ResumeDone, HookTypeOK, CallStages, FnsUnique

LEMMA RejectType ==
    ASSUME HookTypeOK, NEW c \in Calls, Reject(c)
    PROVE  HookTypeOK'
BY DEF Reject, HookTypeOK, CallStages

LEMMA CallSyncType ==
    ASSUME HookTypeOK, NEW c \in Calls, NEW d \in BOOLEAN, CallSync(c, d)
    PROVE  HookTypeOK'
<1> DEFINE main == MainEntries(d)
           chainLen == IF main = << >> THEN 0 ELSE Len(main[1].chain)
           before == [i \in DOMAIN BeforeRegs |-> BeforeRegs[i]]
           after == [i \in DOMAIN AfterRegs |-> AfterRegs[i]]
<1>1. ledger \in Seq(Registration)
  BY DEF HookTypeOK
<1>2. before \in Seq(LoggedReg) /\ after \in Seq(LoggedReg)
  <2>1. BeforeRegs \in Seq(Registration) /\ AfterRegs \in Seq(Registration)
    BY <1>1, GroupsType
  <2>2. BeforeRegs \in Seq(LoggedReg) /\ AfterRegs \in Seq(LoggedReg)
    BY <2>1, SeqMonotonic DEF LoggedReg
  <2> QED
    BY <2>2
<1>3. ASSUME NEW k \in 0..chainLen
      PROVE  (IF main = << >> THEN << >> ELSE Invoked(main[1], k)) \in Seq(LoggedReg)
  <2>1. CASE main = << >>
    BY <2>1
  <2>2. CASE main # << >>
    <3>1. main[1] \in RunEntry
      BY <1>1, <2>2, MainEntriesType
    <3> QED
      BY <2>2, <3>1, InvokedType
  <2> QED
    BY <2>1, <2>2
<1>4. PICK k \in 0..chainLen :
        log' = [log EXCEPT ![c] =
                  before \o (IF main = << >> THEN << >> ELSE Invoked(main[1], k)) \o after]
  BY DEF CallSync
<1>5. log' \in [Calls -> Seq(LoggedReg)]
  BY <1>2, <1>3, <1>4, ConcatProperties DEF HookTypeOK, LoggedReg
<1>6. ledger' \in Seq(Registration)
  BY <1>1, KeepAtType DEF CallSync
<1>7. FnsUnique(ledger')
  <2>1. FnsUnique(ledger)
    BY DEF HookTypeOK, FnsUnique
  <2> QED
    BY <1>1, <2>1, KeepAtUnique DEF CallSync
<1>8. \A i, j \in DOMAIN ledger' : ledger'[i].fn = ledger'[j].fn => i = j
  BY <1>7 DEF FnsUnique
<1>9. /\ call' \in [Calls -> CallRec]
      /\ nRegs' \in 0..MaxRegs
  <2>1. call[c] \in CallRec
    BY DEF HookTypeOK, CallRec
  <2>2. [call[c] EXCEPT !.stage = "done"] \in CallRec
    BY <2>1, Zenon DEF CallRec, CallStages
  <2>3. call' = [call EXCEPT ![c] = [call[c] EXCEPT !.stage = "done"]] /\ nRegs' = nRegs
    BY DEF CallSync
  <2> QED
    BY <2>2, <2>3 DEF HookTypeOK, CallRec
<1> QED
  BY <1>5, <1>6, <1>8, <1>9 DEF HookTypeOK, LoggedReg, CallRec

(* Every step, stuttering included, keeps HookTypeOK.                      *)
LEMMA NextTypeOK == HookTypeOK /\ [Next]_vars => HookTypeOK'
<1> SUFFICES ASSUME HookTypeOK, [Next]_vars PROVE HookTypeOK'
  OBVIOUS
<1>1. CASE \E h \in Fns, o \in Options : On(h, o)
  BY <1>1, OnType
<1>2. CASE \E h \in Fns : Off(h)
  BY <1>2, OffType
<1>3. CASE OffAll
  BY <1>3, OffAllType
<1>4. CASE \E c \in Calls, d \in BOOLEAN : Call(c, d)
  BY <1>4, CallType
<1>5. CASE \E c \in Calls : ResumeNext(c)
  BY <1>5, ResumeNextType
<1>6. CASE \E c \in Calls : ResumeDone(c)
  BY <1>6, ResumeDoneType
<1>7. CASE \E c \in Calls : Reject(c)
  BY <1>7, RejectType
<1>8. CASE \E c \in Calls, d \in BOOLEAN : CallSync(c, d)
  BY <1>8, CallSyncType
<1>9. CASE UNCHANGED vars
  BY <1>9 DEF vars, HookTypeOK
<1> QED
  BY <1>1, <1>2, <1>3, <1>4, <1>5, <1>6, <1>7, <1>8, <1>9 DEF Next

(* Type correctness of the registry: whatever registrations, removals and  *)
(* triggers interleave at the awaits of run(), the ledger stays a sequence *)
(* of registrations, getHandlers always picks real ledger entries, and     *)
(* every trigger's pending and remaining handlers are entries of run().    *)
THEOREM HooksTypeCorrect == Spec => []HookTypeOK
BY InitTypeOK, NextTypeOK, PTL DEF Spec

=============================================================================
