# Formal model of the swup visit lifecycle and hook registry

This directory holds TLA+ models of the page-transition engine in `src/`:
- the modules;
- the TLC configurations;
- TLAPS proofs;
- `PROJECT.json`, which lists the components, runs, mutants, the map from definitions to source lines, the findings, the hazards and the theorems.

## The system

swup has three parts that the models cover:

- **Hook registry** (`src/src/modules/Hooks.ts`, class `Hooks`). Each hook has a ledger: a `Map` from handler function to registration. A registration holds `id`, `once`, `before`, `replace` and `priority`.
  - `call()` snapshots the ledger (`getHandlers`). It splits the handlers into before, replace and after groups, each sorted by `(priority, id)`. The newest replacement becomes the main handler, with a chain of `defaultHandler`s leading to the built-in default.
  - `run()` then invokes and awaits the handlers one at a time. A `once` handler is unregistered after its await.
  - `callSync()` does the same without awaiting.
- **Visit controller** (the `Swup` class in the second half of `Hooks.ts`, plus `leavePage.ts`, `renderPage` in `unnamed/part_000` and `getAnimationPromises.js`).
  - A link click (`linkClickHandler`) or a back/forward event (`popStateHandler`) calls `loadPage`.
  - `loadPage` runs leave (classes, out-animations), then the cache or a fetch, then `renderPage` (currency check, redirect handling, content replacement), then `enterPage`.
  - Visits are not serialised. A newer visit may start at any await of an older one. `renderPage` compares the current URL with the page's URL and abandons a visit that is stale.

- **Legacy Swup class** (`src/src/index.js`). This is the older, event-array implementation. It adds hover preloading through a single `preloadPromise`.

## Modules

| Module | Models | State |
|---|---|---|
| `Visit` | navigation intents, leavePage, loadPage, renderPage, enterPage, cache | `history`/`hIndex` (the browser history and the current entry), `currentPageUrl`, `content`, `htmlClasses`, `cache`, `scrollToElement`, `visit` (the stage of each visit, one per await), `nVisits` |
| `VisitProofs` | the inductive invariant and the theorems about `Visit` | — |
| `MCVisit` | the instance of `Visit` for TLC: URLs `uP`, `uX`, `uR`, where `uX` redirects to `uR` | — |
| `Hooks` | one hook's ledger; `on`/`off`/`clear`; `call` with per-handler await steps, rejection and once-removal; `callSync` | `ledger`, `nRegs`, `call` (the stage of each trigger, its remaining run list, the awaited entry), `log` (history: the registrations each trigger invoked) |
| `HooksProofs` | lemmas about ranks, `KeepAt` and the groups of `getHandlers`; type correctness of `Hooks`, with one registration per handler | — |
| `HooksOrderProofs` | the proof of `HandlerOrder` | — |
| `MCHooks` | the instance of `Hooks` for TLC: handler functions and triggers are model values | — |
| `VisitLifecycle` | what the visit controller promises (spec sections 3 and 5), with no awaits, classes or hooks | `phase`, `vurl`, `vpop`, `vpage` per visit; `location`; `shown` |
| `LifecycleProofs` | the proof that `Visit` implements `VisitLifecycle` | — |
| `Legacy` | the legacy `Swup` class of `src/src/index.js`: `enable`, `destroy`, the click, hover (preload) and popstate handlers | `history`/`hIndex`, `enabled`, `popListeners`, `cache`, `preloads` (every preload request and its outcome), `preloadPromise` (an index into `preloads`, 0 for null), `visits` (the `loadPage` calls in flight and what each waits for), `scrollToElement`, `loads` |
| `LegacyProofs` | type correctness of `Legacy` | — |
| `MCLegacy` | the instance of `Legacy` for TLC: three paths, one anchor, symmetry on the two non-initial paths | — |

### How the Visit actions match the code

- Every `await` in `leavePage`, `renderPage` and `enterPage` ends an action, because any hook handler may suspend there.
- `LeaveSkip` and `LeaveStart` model the two branches of `leavePage`. `AnimOutDone` is the resolution of `Promise.all` over the transition promises.
- `LoadPage` is a cache hit, or a fetch that follows the redirect. It caches the page when `cache` is on.
- `RenderStale` covers lines 15-20 of `renderPage`: it removes `is-leaving`, then returns.
- `RenderStart` covers lines 22-36: redirect re-keying, `currentPageUrl`, `updateHistoryRecord`, and `is-rendering`.
- `ReplaceContent` is line 37. `RenderFinish` covers lines 38-50: the cache is emptied when `cache` is off, `enterPage` is not awaited, and the scroll target is reset.
- The enter steps come from the spec, because `enterPage` is not under `src/`: `EnterSkip`, `EnterStart` and `AnimInDone`. So do `StartVisit` and `LoadPage`, since `loadPage` is not under `src/` either. `PROJECT.json` marks these definitions `spec_modelled`.
- Clicks that return early change nothing and are not steps. So are popstate events that `skipPopStateHandling` rejects.
- `LinkToSamePage` is a same-page link with a hash. It rewrites the current entry.

### The abstract lifecycle and the refinement

`VisitLifecycle` states what a visit does, in one step per stage:
- `Begin` starts the next visit for a link to another page than the location, or for a history entry of another page than the *target* (the URL of the latest visit started).
- `Return` is a history move to an entry of the target, which starts no visit.
- The stages are `Leave`, then `Load` (the page is the server's answer `Redirect[url]`), then either `Abandon` (the location is no longer the visit's URL) or `Commit` (the location becomes the page's final URL), then `Show` and `Finish`.

`Visit` defines `Lifecycle == INSTANCE VisitLifecycle WITH ...`, which maps:
- each visit's stage to a phase (`Phase`);
- the location to the current history entry's path;
- the shown page to `content`.

Link clicks map to `Begin`, ignored popstates to `Return`, and `RenderStale`/`RenderStart`/`ReplaceContent` to `Abandon`/`Commit`/`Show`. The steps that only move between the awaits of one phase (`LeaveStart`, `RenderFinish`, `EnterStart`) and `LinkToSamePage` are stutters.

### How the Legacy actions match the code

- `Init` is the constructor followed by `enable()`. `Enable` is a later `enable()` after `destroy()`: it binds a new popstate listener each time.
- `Destroy` is `destroy()`. Its `removeEventListener` gets a freshly bound function, so `popListeners` does not drop.
- `LinkClick` is `linkClickHandler`: a same-path link with a hash rewrites the entry; another path stores the hash and calls `loadPage`.
- `LinkMouseover` is the hover handler. It starts a preload only when `preloadPromise` is null. `PreloadFailed` and `PreloadDone` are the callback of that fetch.
- `PopState(i)` is the browser moving to entry `i`. Every registered listener runs `popStateHandler`.
- `loadPage` is in `modules/`, not under `src/`, so its steps come from spec section 3 (`spec_modelled`):
  - `LoadPage(u)` pushes the history entry at once. That is why a hover over the link of the page being loaded is refused (`getCurrentUrl()` already is that page). The call then waits for the cached page, for `preloadPromise` when its route is `u`, or for a fetch of its own (`NewVisit`).
  - `LoadRendered(v)` renders the page: it caches it (or empties the cache when caching is off), consumes `scrollToElement` and sets `preloadPromise` to null.
  - `LoadFailed(v)` is a failed fetch, or a reused preload promise that was rejected.
- A popstate with `k` listeners starts `k` `loadPage` calls.

### How the Hooks actions match the code

- `On(h, o)` covers `on` and its shortcuts. `id = ledger.size + 1`. A handler that is already registered keeps its place in the Map.
- `Off` and `OffAll` are `off` and `clear`.
- `ledger.delete` is `DeleteFn`, built on `KeepAt(l, P)`. `KeepAt` puts at place `k` the entry whose position has `k - 1` kept positions before it. This is the Map's insertion order without the deleted key. `callSync`'s removal of its `once` handlers uses `KeepAt` directly. `SortedRegs` builds `sortRegistrations`' order the same way. This form replaces a recursive `SelectSeq`, which the provers cannot unfold. All TLC runs give the same results with it.
- `Call` takes the snapshot and invokes the first handler.
- `ResumeNext` and `ResumeDone` are the continuation after an `await`: `off()` if once, then the next handler or the return.
- `Reject` is a rejecting handler, which aborts `run()`.
- `CallSync` is `callSync`, as one atomic step: its handlers run synchronously, so nothing interleaves with them. Handlers that throw are left out.
- The main handler calls through its chain a chosen number of levels (`Invoked`). The levels are logged when the replacement is invoked, which assumes that a replacement calls its `defaultHandler` before it resolves.
- `On` is bounded by `MaxRegs` so that TLC terminates. The code has no such bound.

## Runs

| Run | Expect | What it shows |
|---|---|---|
| `visit_safety` (`MCVisit.cfg`) | pass | With two overlapping visits, redirects, same-page anchors and back/forward: `is-leaving` is set only while a visit is leaving, and the pipeline implements `VisitLifecycle` (`LifecycleSpec`). |
| `visit_stale_render` | violation | A newer visit's redirect rewrites the location to the older visit's URL. The URL-only currency check then lets the stale visit render. |
| `visit_last_render` | violation | The currency check is not repeated after the `willReplaceContent` await. An older visit overwrites the content of a newer one. |
| `visit_idle_classes` | violation | A skip-transition history visit leaves `is-animating` behind when an older visit's leave runs after it. |
| `hooks_order` (`MCHooks.cfg`) | pass | Registrations and removals happen at every await. Each trigger still runs before handlers, then main (replacements newest-first, default last), then after handlers, by priority. `HandlerOrder` compares priorities and groups only; the tie-break by `id` is the subject of `hooks_id_reuse`. `HookTypeOK` also says that the ledger holds one registration per handler, as a `Map` does. |
| `hooks_once_replace` | violation | A `replace` + `once` handler is never unregistered. Handlers may also reject here, and a rejected `once` handler stays registered too. |
| `hooks_once_race` | violation | Two concurrent triggers both fire a `once` handler. |
| `hooks_id_reuse` | violation | `id = size + 1` breaks the registration-order tie-break. |
| `hooks_once_off_stale` | violation | `TriggersKeepPlainRegistrations`: a trigger's `off()` of a `once` handler also deletes a plain `on()` of the same function made while the handler was awaited. |
| `legacy_safety` (`MCLegacy.cfg`) | pass | `LegacyTypeOK`, which includes this: `preloadPromise`, when set, is a preload that has not delivered its page. The callback that caches a preloaded page resets the promise, so a successful preload always reopens hover preloading. |
| `legacy_second_load` | violation | `NoSecondLoadWhilePreloading`: click `pB` (its own fetch), click `pA` (cached), hover `pB`. A preload of `pB` starts while the first click's fetch of `pB` is outstanding. The hover guard looks only at the cache and `preloadPromise`, which `loadPage` does not set, although the comment at `index.js:97` says the promise exists so that a page is not loaded twice. |
| `legacy_destroy_popstate` | violation | `NoNavigationWhileDisabled`: after `destroy()` the popstate listener is still registered and a back/forward move still calls `loadPage`. |

Every property of a passing run has a mutant in `PROJECT.json`: a plausible bug in the mapped code that TLC must catch under the run's configuration.

### Bounds

Visit:
- `MaxVisits = 2`: enough for every pairwise overlap of two visits.
- Three URLs, one of which redirects: enough for the redirect cases.
- One anchor.
- About 11k states.

Hooks:
- Two handler functions (with `MaxRegs = 3` `on()` calls, so one handler is re-registered).
- Priorities 0 and 1.
- Every option combination, and one trigger slot for `hooks_order`.
- The order property is per trigger. Other triggers only change the ledger, which `On`, `Off` and `OffAll` already do at every await.
- The once violations use two triggers. The id-reuse violation needs four `on()` calls.

Legacy:
- Three paths, one anchor, `MaxLoads = 3`, `MaxEnables = 2`, `MaxPreloads = 2`: enough to destroy and re-enable once, to go back across two visits, and for a second preload after the first one settles.
- A `loadPage` can be served by the cache, by a pending preload or by its own fetch, and preloads resolve or fail in any order relative to renders.
- About 1.5M distinct states, symmetric in the two non-initial paths.

### Fairness and deadlock

No run assumes fairness, and no liveness property is checked. The code sets no timeout on any await. A `transitionend` that never fires blocks a visit forever (spec section 9), so that no visit is guaranteed to end. `AnimOutDone` and `AnimInDone` may therefore be delayed for ever.

`CHECK_DEADLOCK FALSE`: an engine with no navigation in progress really does stop.

## Proofs (TLAPS)

`VisitProofs` proves two theorems for all constants that satisfy `VisitAssumptions`, with no bound on the number of visits or URLs:
- `TypeCorrect`: `Spec => []TypeOK`.
- `LeavingClassInvariant`: `Spec => []LeavingClassOnlyWhileLeaving`.

Neither invariant is inductive on its own. The inductive invariant `IInv` adds two facts:
- `UnstartedIdle`: the slot a new visit takes is idle, so it cannot be a leaving visit.
- `PageLoaded`: a visit past `loadPage` holds a real page, which `RenderStart` writes into the history and the cache.

TLC also checked `IInv` as an invariant of the `MCVisit` instance. The proof has these parts:
- `InitIInv`.
- One lemma per navigation intent, built on `StartVisitIInv`, and `PushEntry` for the history push.
- `VisitStepIInv`, with one case per pipeline step. It uses `LeavingKept` for the steps that add no class.
- `NextIInv`.
- The temporal step, by PTL.

`LifecycleProofs` proves `Refinement`: `Spec => LifecycleSpec`, for every value of the constants. The mapping is a refinement only in reachable states, so the proof strengthens `IInv` to `RInv` with five facts:
- `StartedPrefix`: visits start in slot order. With `UnstartedIdle`, this makes the abstract target the URL of slot `nVisits` (`TargetIsCurrent`).
- `CurrentIsLatest`: `currentPageUrl` is the URL of that latest visit. Hence `popStateHandler`'s comparison is the abstract guard `u # Target`.
- `CacheServes`: the cache holds for a URL nothing or the server's answer for it.
- `PageIsAnswer`: a loaded visit holds exactly that answer.
- `RedirectedIsCurrent`: a location that would still redirect is `currentPageUrl`. This is why the redirect branch of `RenderStart` never changes `currentPageUrl`.

TLC checked `RInv` as an invariant of `MCVisit`, in both cache and animation settings, before it was proved. The proof has these parts:
- `NextRInv`, with one lemma per action for the added facts.
- One refinement lemma per action kind: `LinkClickRefines`, `PopStateVisitRefines`, `PopStateIgnoredRefines`, `LinkToSamePageRefines`, and `VisitStepRefines`, which has one case per pipeline step.
- PTL, for the temporal step.

`LegacyProofs` proves `LegacyTypeCorrect`: `Spec => []LegacyTypeOK`, for every set of paths, every bound and both cache settings. The invariant is inductive as it stands. The conjunct that matters is about `preloadPromise`:
- `LinkMouseover` stores a fresh pending preload.
- `PreloadDone` resolves the preload and nulls the promise in the same callback.
- `PreloadFailed` leaves a rejected preload behind.
- `LoadRendered` nulls the promise.

The lemmas are `PushEntry` for the history push after a truncation, `SettlePreload` for the `EXCEPT` on a preload's state, `NewVisitType`, and one lemma per action.

`HooksProofs` proves one theorem for every set of handlers, options and triggers:
- `HooksTypeCorrect`: `Spec => []HookTypeOK`. The type invariant is inductive as it stands. The work is in the operator lemmas:
  - `RankExists`: in a finite set ordered strictly and totally, every rank `0..|P| - 1` is taken. It is proved by the pigeonhole facts of `FiniteSetTheorems`: the rank map is injective into `0..|P| - 1`, so it is onto. This is why `KeepAt` and `SortedRegs` pick a real position at each place.
  - `KeepAtType`, `SortedRegsType`, `MainEntriesType`, `RunListType`, `InvokedType`: the sequences built by `ledger.delete`, `getHandlers` and `createDefaultHandler` are well typed.
  - `KeepAtUnique`: `ledger.delete` keeps the ledger free of two registrations of one function. It rests on `KeepAtContent`: `KeepAt` holds each kept entry exactly once, in increasing position order. `RankMonotone` and `RankUnique` give that.

`HooksOrderProofs` proves `HandlersInOrder`: `Spec => []HandlerOrder`. `HandlerOrder` speaks only of what a trigger has logged, so it is not inductive. After an await, `run()` goes on with the snapshot it took at `call()`. The inductive invariant `OInv` says, per trigger (`CallOk`):
- before `call()` the log is empty;
- the log is in order;
- while `run()` awaits, the snapshot still to run is in order (`ListOrdered`), and every registration it may still invoke may follow everything logged.

The order of the snapshot comes from these lemmas:
- `SortedRegsSorted`: a lower place of a sorted group holds a position that sorts before the one at a higher place.
- `GroupsSorted`: each group has one `Group` value and `(priority, id)` order.
- `MainEntryOrdered`: the replace chain walks the sorted replace group downwards and ends with the default handler.
- `RunListOrdered`: before, main and after lists concatenate in order.

`InvokeOrdered` is the step shared by `Call` and `ResumeNext`. `on()` and `off()` keep `OInv` because it reads only the triggers' own state. TLC checked `OInv` on `MCHooks` with one trigger (529k states) and with two triggers (306k states) before it was proved.

What stays with TLC:
- Liveness. None is checked, because the code gives no fairness to justify it (see above). TLAPS could not reason about `ENABLED` here anyway.
- The refinement check `LifecycleSpec` on the instance, besides its proof.
- The violations. They are counterexamples; there is nothing to prove.

Every safety invariant of a passing run now has a theorem.

## Not modelled

- The fetch error path (`fetch:error`), which is planned.
- Plugin mounting and the `destroy()` of the `Swup` class in `Hooks.ts`.
- DOM events (`dispatchDomEvent`) and logging.
- In `Legacy`: animations, events, and `preloadPages()`. A preload that fails keeps `preloadPromise` set until the next render. The model has that step, but no run checks it (see the hazards in `PROJECT.json`).
- `callSync` handlers that throw.
