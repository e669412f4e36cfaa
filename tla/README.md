# Formal models of the Egeria presentation-server UI layer

This directory holds TLA+ models of the browser code under `src/`
(`presentation-server`). It also holds the TLC configurations that check the
models, and TLAPS proofs about them. In this README, `RSC` means
`nodejs/src/client/components/RepositoryExplorer/contexts/RepositoryServerContext.js`
and `IC` means `nodejs/src/cra-client/src/contexts/IdentificationContext.js`.

## 1. Inventory

### Components

| Component | Source | State | Operations |
|---|---|---|---|
| IdentificationContext | IC | `userId` (`""` until login), `serverName` (first path segment, read once at mount), `authenticated` (unused) | `setUserId`, `setAuthenticated`, `getBrowserURL(page)`, `getRestURL(service)` |
| RepositoryServerContext | RSC | `repositoryServer = {serverName, platformName}` (both `""` at mount), `enterpriseOption` (false at mount) | `setRepositoryServer`, `updateEnterpriseOption`, `getEnterpriseOption`, `callPOST`, `repositoryPOST`, `callGET` |
| InstanceDisplay | `.../details-panel/InstanceDisplay.js` | none (it reads the focus from InstancesContext) | render: "Nothing is selected", or the entity, or the relationship, with `focusGen.enterpriseOption` |
| TypeExplorer | `.../TypeExplorer/TypeExplorer.js` | `cltHeight`, `cltWidth`, `help`, `helpStatus`, the container div's size | resize effect (`updateSize`), help modal open/cancel/submit, markdown fetch |
| GlossaryAuthorRoutes | `.../GlossaryAuthor/components/views/GlossaryAuthorRoutes.js` | none | the `Switch` picks the first route whose path matches |
| Icons | `Egeria_add_16.js`, `Egeria_term_32.js` | none | render an image |

### How the components interact

- A view component reads a context and calls one of its functions.
- `callPOST`, `repositoryPOST` and `callGET` check their preconditions. A
  failed check shows a blocking `alert` and returns.
- Otherwise the wrapper builds the URL with `getRestURL("rex")`. That URL
  holds the current `userId`.
- For a POST, the wrapper builds the body with `Object.assign` over a base of
  the server, the platform and `enterpriseOption`.
- It then starts a promise chain. The chain ends by calling the caller's
  callback.
- Callbacks set further state: for example, the focus in InstancesContext
  (not under `src/`), which InstanceDisplay renders.
- Everything runs on one event loop. User events, network completions and
  promise continuations interleave.
- An `alert` blocks the page until the user closes it.
- Nothing cancels a fetch. A provider can be unmounted and remounted (its
  `useState` restarts) while its requests are in flight.

### The behaviours that are hard

- **Unordered chains.** Promise chains finish in any order, and long after
  the call.
- **Stale state.** The state a request was built from (user, server,
  enterprise option) may have changed by the time its callback runs.
- **Chains that end without a callback.**
  - A rejected fetch (no connection) ends the chain.
  - A POST answered with a non-JSON body ends the chain.
  - A broken body stream ends the chain.
  None of them has a `catch`, so the callback never runs.
- **Callbacks after unmount.** A callback can run after its component has
  unmounted.
- **Blocking alerts.** An alert holds back every continuation until the user
  closes it.
- **No timeout.** A request the platform never answers stays pending for
  ever.
- **Stale render values in TypeExplorer.** The resize handler reads the
  sizes of the previous render.

### What makes each component correct

- **RepositoryServerContext**
  - No request leaves without a user. No POST leaves without a server and a
    platform (spec 8(2)).
  - A non-OK GET reaches its callback with `relatedHTTPCode` set to the
    status, plus a message (spec 8(3)).
  - Every answered request eventually reaches its callback (spec 7).
  - No callback runs into an unmounted component (spec 5).
- **Focus consumer and InstanceDisplay**
  - The enterprise flag shown with an instance is the one that instance was
    fetched with.
  - The render never falls through: a focus GUID always comes with an Entity
    or Relationship category and a generation.
- **TypeExplorer**
  - There is at most one resize listener.
  - After a resize, the container eventually has the size of the window
    minus the margins.
- **GlossaryAuthorRoutes**
  - Every declared path renders its intended view. The one route shadowed
    on its own path (the second glossaries route) is shadowed by a route
    with the same view.

The hazards behind these properties are listed, each at its line, under
`hazards` in `PROJECT.json`.

## 2. Modules

### `RepositoryServerContext.tla`

This module models RSC together with the part of IC it uses (`userId`,
`getRestURL`).

**Constants:**
- `Users`, `Servers`, `Platforms`: the names a login or a selector can set.
  `""` is `NoName`.
- `ViewServer`: the path segment read at mount.
- `Uris`: the URI tails the callers pass.
- `BodyParms`: the operation-specific body parameters, as functions on keys.
- `Statuses`: the HTTP statuses the platform can return.
- `MaxReq`, `MaxMounts`: the bounds.
- `ConstantsAssumption` states what the proofs need. It also says the
  callers' parameters never carry a base key, so `Object.assign` cannot
  overwrite the server or the option.

**Variables:**

| Variable | Models |
|---|---|
| `userId` | IC `useState("")` |
| `repositoryServer`, `enterpriseOption` | RSC lines 26–28 |
| `mounted`, `mounts` | the provider's lifecycle |
| `alert` | the blocking alert on screen |
| `reqs` | every request issued, in order (the log is described below) |

Each entry of `reqs` holds:
- the wrapper that sent it (`op`) and the mount that issued it;
- the URL parts `getRestURL(...) + "/" + uri`;
- the body: `Object.assign(base, bodyParms)`, modelled by `Assign`;
- the stage of its chain: `fetching`, `responded`, `called` or `rejected`;
- the response: status, and a body that is JSON, text or a broken stream;
- the payload the callback got;
- whether the caller was still mounted when the callback ran.

**Actions:**

| Action | Code |
|---|---|
| `SetUserId` | IC `setUserId` |
| `SetRepositoryServer` | RSC `setRepositoryServer` |
| `UpdateEnterpriseOption` | RSC 35–37 |
| `CallPOST` | RSC 73–108 |
| `RepositoryPOST` | RSC 126–153 |
| `CallGET` | RSC 164–180 |
| `DismissAlert` | the user closes the alert |
| `Unmount`, `Mount` | navigation; a fresh mount restarts `useState` |
| `Respond` | fetch resolves with the headers |
| `FetchFails` | fetch rejects |
| `ReadBody` | the body is read and the continuations run to the callback |

- `CallPOST`, `RepositoryPOST` and `CallGET` each have three disjuncts (two
  for `CallGET`): one per early return with its alert, and the issuing
  branch.
- In `ReadBody`, `ChainEnd` says how the chain ends: by calling back with a
  payload, or by rejecting.
  - POST uses `res.json()`.
  - GET uses `json()` when `response.ok`. Otherwise it calls `text()`, builds
    the message and calls back with `{relatedHTTPCode, exceptionErrorMessage}`.
- Every step except `DismissAlert` is guarded by `Idle` (no alert on screen).

**What is abstracted:**
- The protocol, host and port of the URL (fixed for a page).
- The message strings (modelled by the parts they are built from).
- The JSON content. The platform's JSON is modelled as carrying the HTTP
  status as its `relatedHTTPCode`.
- `console.log`.

**Fairness** (`FairSpec`):
- `DismissAlert` is weakly fair: a user eventually closes an alert.
- `ReadBody(i)` is strongly fair. Once a response has arrived, its body task
  is queued. The event loop runs it even if alerts keep disabling it for a
  while. Weak fairness is not enough: TLC finds a behaviour where repeated
  alerts starve the read.
- `Respond` and `FetchFails` have no fairness. fetch has no timeout, and the
  network owes no answer.

### `RepositoryServerContextProofs.tla`

These hold the TLAPS proofs (section 4).

### `MCRepositoryServerContext.tla`

This module binds the constants for TLC:
- one user, one server, one platform, the view server `cocoView1`;
- one URI;
- the empty body parameters;
- statuses 200 and 404.

It `EXTENDS` the model, so TLC evaluates `ConstantsAssumption` on every run.

### `TypeExplorer.tla`

This module models `TypeExplorer.js` (`TE` below).

**Constants:** `Heights` and `Widths` (the client sizes the window can
take) and `MaxMounts`.

**Variables:**

| Variable | Models |
|---|---|
| `doc` | `document.documentElement.clientHeight/Width` |
| `clt` | the `cltHeight`/`cltWidth` state (TE 60–61) |
| `rendered` | the state the last committed render closed over |
| `container` | the container div's style (`NoStyle` before the first `updateSize`) |
| `listeners` | a count, per closure, of the `resize` listeners window holds |
| `effect` | the closure the last run of the resize effect registered |
| `renderPending`, `effectPending`, `resizePending` | React's and the browser's queues |
| `helpStatus`, `help` | the modal state and the markdown |
| `helpFetch[m]` | the help fetch of mount `m` |
| `mounted`, `mounts` | the lifecycle |

**Actions:**

| Action | Code |
|---|---|
| `UpdateSize(c)` | TE 74–86, run as closure `c` |
| `Resize` | the user resizes the window |
| `DispatchResize` | the browser runs the registered listeners |
| `Render` | React renders and commits a pending update (TE 66–72 recompute) |
| `RunEffect` | the resize effect with no dependency list (TE 104–113): cleanup, `addEventListener`, `updateSize()`; then the help effect (TE 118–124) on a mount's first commit |
| `DisplayHelp`, `CancelHelpModal`, `SubmitHelpModal` | TE 88–98 |
| `HelpResponds`, `HelpFails`, `HelpText` | the fetch chain of TE 121–123 |
| `Unmount`, `Mount` | navigation |

- `updateSize` stores the document size, but it sizes the container from
  the state of its own render (TE 80). The model keeps that: `container' =
  Working(c)`, not `Working(doc)`.
- A `setState` schedules a render only when the value changes, because React
  bails out of an equal update. `cltHeight` and `cltWidth` are numbers, so
  storing the same size is a no-op.
- The React version is not pinned in the repository. The model takes
  React 16/17 semantics:
  - passive effects are flushed before the next render, and before the
    commit that unmounts the explorer (so `Unmount` waits for them);
  - a `setState` from a native `resize` listener is not batched, so
    `setCltHeight` and `setCltWidth` each render. The model takes the two
    as one update (`UpdateSize`). The render in between only sees half the
    new size, and the settled state is the same;
  - a `setState` on an unmounted component is dropped with a warning.

**Fairness** (`FairSpec`): weak fairness of `DispatchResize`, `Render` and
`RunEffect`. The event loop runs every queued task, and React flushes
scheduled work. The user and the network get no fairness.

### `GlossaryAuthorRoutes.tla`

This module models `GlossaryAuthorRoutes.js` (`GR` below).

- The seven path builders (GR 18–50) concatenate segment sequences.
- `Routes` is the `Switch` (GR 52–81): ten routes in source order, with
  their `exact` flags.
- `Matches` is react-router v5's matching: a pattern's segments are a
  prefix of the location's, `:guid` matches any one segment, and `exact`
  needs the whole path.
- `Select` picks the first route that matches.
- `Navigate(p)` opens any location: under the author URL with up to
  `MaxTail` more segments, the root, or another top-level path.
- Matching is case-insensitive in react-router. A segment stands for its
  lower-case form.

### `TypeExplorerProofs.tla`, `GlossaryAuthorRoutesProofs.tla`

These hold the TLAPS proofs about the Type Explorer and the route table
(section 4).

## 3. Runs

| Run | cfg | Expect | Checks |
|---|---|---|---|
| `repo_safety` | `MCRepositoryServerContext.cfg` (`MaxReq = 2`, `MaxMounts = 2`) | pass | `TypeOK`, `RequestsAuthorised`, `GetErrorNormalised` |
| `get_callback` | `MCGetCallback.cfg` (`MaxReq = 2`, `MaxMounts = 1`, `FairSpec`) | pass | `GetAlwaysCallsBack` |
| `post_callback` | `MCPostCallback.cfg` | violation | `PostAlwaysCallsBack` |
| `callback_after_unmount` | `MCUnmount.cfg` (`MaxReq = 1`) | violation | `NoCallbackAfterUnmount` |
| `type_explorer_safety` | `MCTypeExplorer.cfg` (2 heights × 2 widths, `MaxMounts = 2`) | pass | `TypeOK`, `OneListener`, `ContainerFitsWindow` |
| `type_explorer_settles` | `MCTypeExplorerLive.cfg` (same, `FairSpec`) | pass | `EventuallySettles` |
| `help_after_unmount` | `MCHelpAfterUnmount.cfg` | violation | `NoStateUpdateAfterUnmount` |
| `routes` | `MCGlossaryAuthorRoutes.cfg` (one GUID, `MaxTail = 3`) | pass | `RoutesAsDeclared` |

**`repo_safety`** explores 1.67M distinct states in about a minute. The
bounds are big enough for the interesting cases:
- Two requests can overlap and finish in either order.
- A request can outlive an unmount and a remount.
- Each wrapper reaches each of its early returns.
- Each status meets each body kind.

**`get_callback`** checks the liveness of GET callbacks under `FairSpec`.

**`post_callback`** finds a POST answered 404 with an HTML body that never
calls back (spec §7 says it should).

**`callback_after_unmount`** finds, in five steps (login, `callGET`,
unmount, the response, the body read), a GET whose callback runs after the
unmount.

**`type_explorer_safety`** checks two things:
- `OneListener`: the cleanup of the effect with no dependency list and of
  the unmount leaves window holding only the current closure.
- `ContainerFitsWindow`: after a resize, the state change re-renders and the
  effect calls the new `updateSize`. So although TE 80 lags one resize
  behind, the container fits the window once nothing is queued.

Two sizes per axis are enough: a resize always changes the size, and can
come back to an earlier one. Two mounts cover a fetch that outlives an
unmount.

**`type_explorer_settles`**: once the user stops, the resize, render and
effect cycle ends. It would not end if `updateSize` stored a fresh object,
which is never equal to the old one.

**`help_after_unmount`** finds the help fetch of TE 121 resolving after the
explorer unmounted, which calls `setHelp` on an unmounted component. No
cancellation or `isMounted` guard exists.

**`routes`**: every declared route's pattern, with a GUID for `:guid`,
renders that route's view; an earlier route that matches it first must
render the same view. `MaxTail = 3`
reaches the longest pattern (`glossaries/:guid/quick-terms`) and the paths
one segment longer.

Each property of a passing run has a mutant in `PROJECT.json`. TLC finds
every mutant violated:

| Mutant | Breaks |
|---|---|
| server and platform swapped in `setRepositoryServer` | `TypeOK` |
| `callGET` without its user check | `RequestsAuthorised` |
| `callGET` treating only 5xx as failures | `GetErrorNormalised` |
| `callGET` without the `response.ok` test | `GetAlwaysCallsBack` |
| `setHelp` given the response, not its text | TypeExplorer `TypeOK` |
| the resize effect without its cleanup | `OneListener` |
| `updateSize` not storing the size | `ContainerFitsWindow` |
| `updateSize` storing a fresh object each time | `EventuallySettles` |
| the glossaries route without `exact` | `RoutesAsDeclared` |

## 4. Proofs

TLAPS checks these theorems for every value of the constants, under the
modules' assumptions (`ConstantsAssumption`, `SizesAssumption`,
`RoutesAssumption`).

### `TypeCorrect == Spec => []TypeOK` (RepositoryServerContextProofs)

`TypeOK` alone is not inductive. `ReadBody` builds the payload from the
response, so the invariant needs `RespondedHaveResponse`: a request in stage
`responded` holds a real response.

The inductive invariant is `TypeInv == CtlOK /\ ReqsOK /\ RespondedHaveResponse`.
It is split so that each prover gets the part it handles:
- Zenon proves `CtlOK` (the Boolean variables).
- The SMT solver proves the sequence-and-arithmetic part, `ReqsOK`.

The lemmas:
- `NewReqType` and `IssueType`: appending a request.
- `UpdateType`: replacing request `i`.
- `ChainEndType`: how a chain ends.

### `Authorised == Spec => []RequestsAuthorised`

This is spec 8(2) for every instance. `RequestsAuthorised` is inductive
relative to `TypeInv`:
- A request gets its URL and body only when a wrapper appends it past its
  guards (`IssueAuthorised`).
- Later steps change only the stage, response, payload and liveness of a
  request (`UpdateAuthorised`).
- `AssignKeepsBase` shows that `Object.assign` keeps the base keys, because
  the callers' parameters never carry one.

### `ErrorNormalised == Spec => []GetErrorNormalised`

`GetErrorNormalised` is inductive relative to `TypeInv`:
- A new request has no payload.
- `ReadBody` gives a non-OK GET the payload `ErrorJson`
  (`UpdateNormalised`, `IssueNormalised`, `NextNormalised`).

### `NoLeakedListener == Spec => []OneListener` and `FitsWindow == Spec => []ContainerFitsWindow` (TypeExplorerProofs)

Neither property is inductive. Both follow from `Inv`, which is checked
with TLC on the `type_explorer_safety` instance before the proof. `Inv` is
the type invariant and `FitInv`, a chain of equalities that each queue,
once empty, guarantees:
- window holds the current effect's closure alone (`RegisteredAlone`), and
  none when unmounted;
- with no effect pending, that closure is the last render's state, and the
  container was sized from it;
- with no render pending, that render saw the current state;
- with neither a resize nor an effect pending, the state is the window size.

`Settled` empties every queue, so the chain gives
`container = Working(doc)`.

The lemmas:
- `RemoveAlone`: the cleanup removes the one listener.
- `ListenerIsEffect`: a dispatched listener is the current effect's
  closure.
- One lemma per action (`ResizeInv` … `MountInv`), each split into a data
  part for SMT and a Boolean part for Zenon.

### `TypeCorrect == Spec => []TypeOK` (TypeExplorerProofs)

`TypeOK` follows from the same `Inv`. Its data part records that the
container's style is always `Working(s)` for some size `s` (the style
`updateSize` computes), or `NoStyle` before the first effect. The mutant
that gives `setHelp` the response instead of its text breaks it on a run.

### `RoutesCorrect == Spec => []RoutesAsDeclared` (GlossaryAuthorRoutesProofs)

This covers every `AuthorURL`, every set of GUIDs and every tail bound.
TLC checks one two-segment `AuthorURL` and one GUID. The argument:
- `ViewSelected == view = Select(location)` is inductive, because `Init`
  and `Navigate` both render `Select` of the new location
  (`InitViewSelected`, `NextViewSelected`).
- `RouteSelected`: for every Route k and GUID g,
  `Select(Instance(Routes[k].path, g)) = Routes[k].view`.
  `RoutesAsDeclared` follows from this and `ViewSelected`.

`RouteSelected` moves the problem off the unknown `AuthorURL`:
- `RoutesShape`: the path builders put `AuthorURL` in front of a fixed
  tail, `TailRoutes[k]`.
- `InstanceConcat`: binding the GUID leaves `AuthorURL` alone, since its
  segments are in `Others` and never `:guid`.
- `MatchConcat`, `TailToRoute`: a Route matches `AuthorURL \o T` exactly
  when its tail matches `T`.
- One lemma per tail (`TailCreate` … `TailAuthor`) shows which tail Route
  matches first. Each earlier Route is ruled out for one of three reasons:
  - it is longer (`NoMatchLonger`);
  - it is exact and of another length (`NoMatchExact`);
  - a keyword differs from the GUID or keyword at that place
    (`NoMatchAt`). This uses `RoutesAssumption`: a GUID is no keyword.
- The second glossaries Route (7) is shadowed by the exact one (3). Both
  render the same view, so `RoutesAsDeclared` still holds for it.
- `SelectFirst` turns "k matches and no earlier Route does" into the
  value of the `CHOOSE` in `Select`.
- The catch-all Route 10 is selected for the empty path. Every other Route
  starts with the non-empty `AuthorURL` and is longer than it.

### What stays with TLC

- Liveness (`GetAlwaysCallsBack`, `EventuallySettles`), and anything about
  `ENABLED`.
- Properties of recursive definitions over all inputs.

## 5. Not modelled, and the plan

### Not modelled

- `getBrowserURL`, which reads a development `.env` entry.
- The `authenticated` flag, which is unused.
- A change of the browser path after mount. `serverName` is the constant
  `ViewServer`.
- `null`/`undefined` server names. The selectors that set them are not under
  `src/`.
- The icons: pure rendering.
- **InstanceDisplay and the InstancesContext focus.** InstanceDisplay is a
  pure render of the focus InstancesContext holds. InstancesContext (its
  state, its generations and its callbacks) is not under `src/`. A model
  would be mostly `spec_modelled`, and the one property worth checking (the
  enterprise flag shown is the one its request was built with) rests on
  that unmodelled code. On the side under `src/`, no action writes a
  request's body after it is sent, so a request keeps its option.
- The JSX of TypeExplorer (the TypesContext provider and the panels), which
  is layout.
- Other React versions. With React 18, a `setState` after unmount is
  silently ignored, and `help_after_unmount` is then a warning-free no-op.

### Plan

1. **Focus consumer**: InstancesContext from spec §3 (`spec_modelled`), its
   callbacks on `repositoryPOST`, and InstanceDisplay's render as an
   operator. Check that the displayed flag is the request's.
2. **TypeExplorer liveness with unfair resizes bounded**: make the user's
   resizes a bounded counter, so that `EventuallySettles` can be stated
   without the `<>[][~UserEvent]` premise.
3. **More proofs**: the TypeExplorer help fetch (`helpFetch` stages per
   mount) and lemmas about the listener bag.
