------------------------------- MODULE Hooks -------------------------------
(***************************************************************************)
(* The hook registry of src/src/modules/Hooks.ts (class Hooks), for one    *)
(* hook.  Ledgers of different hooks share nothing, so one ledger shows    *)
(* every interaction; clear() empties it like off(hook).                   *)
(*                                                                         *)
(* The ledger is a Map from handler function to registration, kept here as *)
(* a sequence in the Map's insertion order.  A trigger of the hook is a    *)
(* call slot: call() snapshots the ledger (getHandlers), then runs the     *)
(* before handlers, the main handler and the after handlers one at a time, *)
(* awaiting each; a once handler is unregistered after its await.  Other   *)
(* calls, registrations and unregistrations may run at every await.        *)
(* callSync() runs the same list without awaiting, in one step.            *)
(*                                                                         *)
(* log[c] is a history variable: the registrations call c invoked, in      *)
(* order.  A registration's serial (the how-many-th on() it came from) is  *)
(* a history field too; the code's fields are fn, id, once, before,       *)
(* replace and priority.                                                   *)
(***************************************************************************)
EXTENDS Naturals, Integers, Sequences, FiniteSets

CONSTANTS
    Fns,            \* handler functions that user code registers
    DefaultFn,      \* the built-in default handler passed to call()
    Options,        \* the HookOptions objects passed to on()
    MaxRegs,        \* bound on the number of on() calls
    Calls,          \* the triggers of the hook (call slots)
    HandlersMayReject \* whether a handler's promise may reject

ASSUME HooksAssumptions ==
    /\ DefaultFn \notin Fns
    /\ Options \subseteq [once : BOOLEAN, before : BOOLEAN, replace : BOOLEAN,
                          priority : Int]
    /\ MaxRegs \in Nat
    /\ HandlersMayReject \in BOOLEAN

VARIABLES
    ledger,   \* the hook's ledger, in insertion order
    nRegs,    \* on() calls so far
    call,     \* per trigger: its stage, the handlers still to run, the one awaited
    log       \* per trigger: the registrations it invoked, in order

vars == <<ledger, nRegs, call, log>>

Serials == 1..MaxRegs

Registration ==
    [fn : Fns, id : Nat, serial : Serials, once : BOOLEAN, before : BOOLEAN,
     replace : BOOLEAN, priority : Int]

(* { id: 0, hook, handler: defaultHandler } built by getHandlers.           *)
DefaultReg ==
    [fn |-> DefaultFn, id |-> 0, serial |-> 0, once |-> FALSE, before |-> FALSE,
     replace |-> FALSE, priority |-> 0]

(* One entry of the lists passed to run(): the registration invoked, its   *)
(* once flag as run() sees it, and for the main handler the registrations  *)
(* its defaultHandler argument calls through to, outermost first.          *)
RunEntry ==
    [reg : Registration \cup {DefaultReg}, once : BOOLEAN,
     chain : Seq(Registration \cup {DefaultReg})]

NoEntry == [reg |-> DefaultReg, once |-> FALSE, chain |-> <<>>, none |-> TRUE]

CallStages == {"idle", "running", "done", "failed"}

(* The ledger is a Map keyed by handler: one registration per function.   *)
HookTypeOK ==
    /\ ledger \in Seq(Registration)
    /\ \A i, j \in DOMAIN ledger : ledger[i].fn = ledger[j].fn => i = j
    /\ nRegs \in 0..MaxRegs
    /\ call \in [Calls -> [stage : CallStages, todo : Seq(RunEntry),
                           pending : RunEntry \cup {NoEntry}]]
    /\ log \in [Calls -> Seq(Registration \cup {DefaultReg})]

Init ==
    /\ ledger = <<>>
    /\ nRegs = 0
    /\ call = [c \in Calls |-> [stage |-> "idle", todo |-> <<>>, pending |-> NoEntry]]
    /\ log = [c \in Calls |-> <<>>]

-----------------------------------------------------------------------------
(* Map helpers: the handlers in the ledger, and ledger.delete(handler),   *)
(* which keeps the other entries in their insertion order: the entry at   *)
(* rank k of the positions kept is the one with k - 1 kept positions       *)
(* before it.                                                              *)
Registered == {ledger[i].fn : i \in DOMAIN ledger}

KeepAt(l, P) ==
    [k \in 1..Cardinality(P) |->
        l[CHOOSE i \in P : Cardinality({j \in P : j < i}) = k - 1]]

DeleteFn(l, h) == KeepAt(l, {i \in DOMAIN l : l[i].fn # h})

(* Mutant of On: the ledger treated as an array, registration pushed     *)
(* even when the handler is already registered.                           *)
OnAppend(h, o) ==
    LET reg == [fn |-> h, id |-> Len(ledger) + 1, serial |-> nRegs + 1,
                once |-> o.once, before |-> o.before, replace |-> o.replace,
                priority |-> o.priority]
    IN
    /\ nRegs < MaxRegs
    /\ nRegs' = nRegs + 1
    /\ ledger' = Append(ledger, reg)
    /\ UNCHANGED <<call, log>>

(* on(hook, handler, options), and before/replace/once, which call on()    *)
(* with the option set: id = ledger.size + 1, then ledger.set(handler,     *)
(* registration); a handler already in the Map keeps its place and gets    *)
(* the new registration.                                                   *)
On(h, o) ==
    LET reg == [fn |-> h, id |-> Len(ledger) + 1, serial |-> nRegs + 1,
                once |-> o.once, before |-> o.before, replace |-> o.replace,
                priority |-> o.priority]
    IN
    /\ nRegs < MaxRegs
    /\ nRegs' = nRegs + 1
    /\ ledger' = IF h \in Registered
                   THEN [i \in DOMAIN ledger |-> IF ledger[i].fn = h THEN reg ELSE ledger[i]]
                   ELSE Append(ledger, reg)
    /\ UNCHANGED <<call, log>>

(* off(hook, handler) for a registered handler (an unknown one only logs a *)
(* warning).                                                               *)
Off(h) ==
    /\ h \in Registered
    /\ ledger' = DeleteFn(ledger, h)
    /\ UNCHANGED <<nRegs, call, log>>

(* off(hook) without a handler, and clear(): ledger.clear().               *)
OffAll ==
    /\ ledger # <<>>
    /\ ledger' = <<>>
    /\ UNCHANGED <<nRegs, call, log>>

-----------------------------------------------------------------------------
(* Mutant of SortsBefore: the priority is not compared.                   *)
SortsBeforeIdOnly(i, j) ==
    \/ ledger[i].id < ledger[j].id
    \/ ledger[i].id = ledger[j].id /\ i < j

(* sortRegistrations: by priority, then id; Array.prototype.sort is        *)
(* stable, so equal keys keep the ledger's insertion order.                *)
SortsBefore(i, j) ==
    \/ ledger[i].priority < ledger[j].priority
    \/ /\ ledger[i].priority = ledger[j].priority
       /\ \/ ledger[i].id < ledger[j].id
          \/ ledger[i].id = ledger[j].id /\ i < j

(* The registrations at ledger positions S, sorted by sortRegistrations.  *)
SortedRegs(S) ==
    [k \in 1..Cardinality(S) |->
        ledger[CHOOSE i \in S : Cardinality({j \in S : SortsBefore(j, i)}) = k - 1]]

(* getHandlers: the before, replace and after groups of the snapshot.      *)
BeforeRegs == SortedRegs({i \in DOMAIN ledger : ledger[i].before /\ ~ledger[i].replace})
ReplaceRegs == SortedRegs({i \in DOMAIN ledger : ledger[i].replace})
AfterRegs == SortedRegs({i \in DOMAIN ledger : ~ledger[i].before /\ ~ledger[i].replace})

AsEntry(r) == [reg |-> r, once |-> r.once, chain |-> <<>>]

(* The main handler: nothing without a default handler; the default       *)
(* handler; or the last replacement, whose defaultHandler calls the one    *)
(* before it (createDefaultHandler(index - 1)), down to the default.  The  *)
(* entry is built without the registration's once flag.                    *)
MainEntries(withDefault) ==
    LET rp == ReplaceRegs
        n  == Len(rp)
    IN  IF ~withDefault THEN <<>>
        ELSE IF n = 0 THEN <<[reg |-> DefaultReg, once |-> FALSE, chain |-> <<>>]>>
        ELSE <<[reg |-> rp[n], once |-> FALSE,
                chain |-> [k \in 1..n - 1 |-> rp[n - k]] \o <<DefaultReg>>]>>

(* The handlers run() goes through: before, main, after.                  *)
RunList(withDefault) ==
    [k \in DOMAIN BeforeRegs |-> AsEntry(BeforeRegs[k])]
      \o MainEntries(withDefault)
      \o [k \in DOMAIN AfterRegs |-> AsEntry(AfterRegs[k])]

(* The registrations invoked by running entry e whose handler (and each    *)
(* handler it calls through to) calls its defaultHandler k times.          *)
Invoked(e, k) == <<e.reg>> \o SubSeq(e.chain, 1, k)

(* Call c invokes the handler of entry e (runAsPromise), which runs up to  *)
(* its first await; rest is what run() still has to do.                   *)
Invoke(c, e, rest) ==
    \E k \in 0..Len(e.chain) :
        /\ log' = [log EXCEPT ![c] = @ \o Invoked(e, k)]
        /\ call' = [call EXCEPT ![c] = [stage |-> "running", todo |-> rest, pending |-> e]]

(* call(hook, args, defaultHandler?): snapshot the handlers and invoke the *)
(* first; with nothing to run, dispatch the DOM event and return.          *)
Call(c, withDefault) ==
    LET list == RunList(withDefault) IN
    /\ call[c].stage = "idle"
    /\ IF list = <<>>
         THEN /\ call' = [call EXCEPT ![c].stage = "done"]
              /\ UNCHANGED log
         ELSE Invoke(c, Head(list), Tail(list))
    /\ UNCHANGED <<ledger, nRegs>>

(* run(): the awaited handler resolved; a once registration is removed by  *)
(* off(hook, handler), then the next handler is invoked.                   *)
ResumeNext(c) ==
    /\ call[c].stage = "running"
    /\ call[c].todo # <<>>
    /\ ledger' = IF call[c].pending.once THEN DeleteFn(ledger, call[c].pending.reg.fn)
                 ELSE ledger
    /\ Invoke(c, Head(call[c].todo), Tail(call[c].todo))
    /\ UNCHANGED nRegs

(* The last handler resolved: off() if once, dispatchDomEvent, return.     *)
ResumeDone(c) ==
    /\ call[c].stage = "running"
    /\ call[c].todo = <<>>
    /\ ledger' = IF call[c].pending.once THEN DeleteFn(ledger, call[c].pending.reg.fn)
                 ELSE ledger
    /\ call' = [call EXCEPT ![c] = [stage |-> "done", todo |-> <<>>, pending |-> NoEntry]]
    /\ UNCHANGED <<nRegs, log>>

(* The awaited handler rejected: run() and call() reject at once, the      *)
(* remaining handlers do not run and off() is not reached.                 *)
Reject(c) ==
    /\ HandlersMayReject
    /\ call[c].stage = "running"
    /\ call' = [call EXCEPT ![c] = [stage |-> "failed", todo |-> <<>>, pending |-> NoEntry]]
    /\ UNCHANGED <<ledger, nRegs, log>>

(* callSync(hook, args, defaultHandler?): every handler of the snapshot    *)
(* runs to its return, each once registration is removed right after its  *)
(* handler, and the DOM event is dispatched.                               *)
CallSync(c, withDefault) ==
    LET list  == RunList(withDefault)
        onceFns == {list[k].reg.fn : k \in {k \in DOMAIN list : list[k].once}}
        main  == MainEntries(withDefault)
        chainLen == IF main = <<>> THEN 0 ELSE Len(main[1].chain)
    IN
    /\ call[c].stage = "idle"
    /\ \E k \in 0..chainLen :
         log' = [log EXCEPT ![c] =
                   [i \in DOMAIN BeforeRegs |-> BeforeRegs[i]]
                   \o (IF main = <<>> THEN <<>> ELSE Invoked(main[1], k))
                   \o [i \in DOMAIN AfterRegs |-> AfterRegs[i]]]
    /\ ledger' = KeepAt(ledger, {i \in DOMAIN ledger : ledger[i].fn \notin onceFns})
    /\ call' = [call EXCEPT ![c].stage = "done"]
    /\ UNCHANGED nRegs

Next ==
    \/ \E h \in Fns, o \in Options : On(h, o)
    \/ \E h \in Fns : Off(h)
    \/ OffAll
    \/ \E c \in Calls, d \in BOOLEAN : Call(c, d)
    \/ \E c \in Calls : ResumeNext(c)
    \/ \E c \in Calls : ResumeDone(c)
    \/ \E c \in Calls : Reject(c)
    \/ \E c \in Calls, d \in BOOLEAN : CallSync(c, d)

Spec == Init /\ [][Next]_vars


-----------------------------------------------------------------------------
(* The group a registration runs in: before, main (replacements and the    *)
(* default handler) or after.                                              *)
Group(r) ==
    IF r.serial = 0 \/ r.replace THEN 1 ELSE IF r.before THEN 0 ELSE 2

(* a may be invoked before b within one trigger.                           *)
MayPrecede(a, b) ==
    \/ Group(a) < Group(b)
    \/ /\ Group(a) = Group(b)
       /\ Group(a) # 1
       /\ a.priority <= b.priority
    \/ /\ Group(a) = 1 /\ Group(b) = 1
       /\ b.serial # 0
       /\ a.serial # 0
       /\ \/ b.priority < a.priority
          \/ b.priority = a.priority /\ b.id <= a.id
    \/ Group(a) = 1 /\ b.serial = 0

(* Within every trigger, by call() or callSync(), and whatever other       *)
(* triggers, registrations and unregistrations happen at its awaits, the   *)
(* handlers run in the order getHandlers and run() promise: every before   *)
(* handler before the main handler, the main handler before every after    *)
(* handler, lower priority first within the before and the after group,    *)
(* and along the replace chain each replacement before the ones it         *)
(* replaced and the default handler last.                                  *)
HandlerOrder ==
    \A c \in Calls : \A i, j \in DOMAIN log[c] :
        i < j => MayPrecede(log[c][i], log[c][j])

(* Spec 4.1/9: a handler registered with once fires at most once, across   *)
(* any number of triggers (run() unregisters it after its await).          *)
OnceFiresAtMostOnce ==
    \A c, d \in Calls : \A i \in DOMAIN log[c], j \in DOMAIN log[d] :
        (/\ log[c][i].once
         /\ log[d][j].serial = log[c][i].serial)
          => c = d /\ i = j

(* Spec 3/4.1: a once registration is removed automatically after it      *)
(* fires: when a trigger has ended, by returning or by rejecting, no once  *)
(* registration it invoked is still in the ledger.                         *)
OnceUnregisteredAfterCall ==
    \A c \in Calls : call[c].stage \in {"done", "failed"} =>
        \A i \in DOMAIN log[c], k \in DOMAIN ledger :
            log[c][i].once => ledger[k].serial # log[c][i].serial

(* Spec 3/4.1: ties of priority are broken by registration order (the     *)
(* registration id is monotonic per hook): of two registrations of equal   *)
(* priority in the ledger, sortRegistrations puts the earlier one first.   *)
TieBreakFollowsRegistration ==
    \A i, j \in DOMAIN ledger :
        (/\ ledger[i].priority = ledger[j].priority
         /\ ledger[i].serial < ledger[j].serial)
          => SortsBefore(i, j)

(* Spec 3: a registration is removed on off(), on unregister, or after it  *)
(* fires if it is once.  So a trigger's own steps (a handler resolving and *)
(* run() going on, or callSync()) never remove a registration made without *)
(* once, even one made while a handler of that trigger was awaited.        *)
TriggersKeepPlainRegistrations ==
    [][call' # call =>
        \A i \in DOMAIN ledger :
            ~ledger[i].once =>
                \E j \in DOMAIN ledger' : ledger'[j].serial = ledger[i].serial]_vars

=============================================================================
