# TLA+ models of the SaaS template

A FastAPI backend and a Next.js frontend, with Valkey for sessions and rate
limits, RabbitMQ for deferred commands and PostgreSQL for everything else; and
in the same repository a design tool that runs inside the pages under
development, the live overlay.
This directory models the parts whose correctness depends on what happens
*between* their steps, checks them with TLC on small instances and proves the
most important results with TLAPS for every size.

Paths below are relative to `src/backend/src` unless they start with
`frontend/`, `docker/`, `config/` or `.agents/`.

## 1. Inventory

| Component | State it keeps | Operations | Interacts with | What is hard |
|---|---|---|---|---|
| Token store (`common/infrastructure/services/redis_token_store.py`, `docker/valkey/valkey.conf`) | per subject: current refresh jti of each session, a sorted index of sessions; per jti: rotation claim or shared pair; one-shot allowances | Lua scripts open / read / rotate / close all, MULTI close, SET NX claim, publish, release, one-shot allow and consume | called by the token service only | keys vanish one by one (TTL, `allkeys-lru`), the server restarts from a file a second old |
| Token service (`jwt_token_service.py`) | none of its own: requests suspended at awaits | login, refresh with a grace window for concurrent callers, logout, revoke all, one-shot tokens | token store; called by every session use case | concurrent callers of one token, dead owners, lost replies, stale shared pairs |
| Session use cases (`auth/application/use_cases`) | none | login, Google login, refresh, profile, logout | users, tenants, token service | check and act are separate calls; failures after the rotation |
| Passwords (`password_reset/`, `users/application/commands/`) | `users.password`, reset tickets | update, set by an administrator, request and use a reset | users table, token service, command bus | change and revocation are two steps in two systems; racing logins |
| Invitations (`tenants/application/use_cases/invitations`) | invitation rows with status, token, expiry | invite, cancel, accept, list | users, members, token service, email | several transactions per redemption, unconditional status writes, a unique index over pending rows |
| Deferred commands (`common/infrastructure/rabbitmq`, `buses/rabbitmq_command_enqueuer.py`, `config/worker.py`) | quorum queue, dead-letter queue, in-flight tasks of the worker | enqueue with confirm, handle, ack, nack, reject, start, stop | command handlers | duplicates, crashes between effect and ack, retry limits, shutdown |
| Frontend sessions (`frontend/src/proxy.ts`, `features/auth/api/auth-server.ts`, `shared/http/client.ts`, `app/api/auth/*`) | browser cookies, rotation cache per process and bundle, single-flight promise, redirect counter | navigate, refresh, login, logout | backend session endpoints | responses out of order, cached rotations outliving a logout, several tabs and instances |
| Rate limiter (`services/rate_limiter.py`) | counters and sorted sets with TTL | fixed and sliding window check | Valkey | windows and clocks, two-step removal |
| Unit of work (`helpers/database.py`) | owner mark of a session, savepoints | nested and outermost blocks | every repository | swallowed inner failures, all-or-nothing |
| Tenants and members (`tenants/`) | tenants, members, roles, current tenant of users | register, onboard, update, delete, find current | users, roles, invitations | limits checked before inserts, several transactions, whole-row writes |
| Users (`users/`) | users, emails, phones | create, persist, update | tenants | stale whole-row writes |
| Google key cache (`auth/presentation/endpoints/helpers/google.py`) | keys and their age | get, forced refresh | Google | key rotation, concurrent refresh |
| Buses, roles, profiles, API keys, assets, email, middlewares | little or none | dispatch, CRUD, I/O | | nothing concurrent of their own |
| Console: cache and member dialog (`frontend/src/features/*/api`, `features/auth/model/session-context.tsx`, `features/tenants/ui/tenant-head.tsx`, `features/members/ui`) | query cache, session store, requests in flight; the draft of the member dialog | fetch, mutate, invalidate, switch tenant, delete tenant, log in and out in one document; edit a member | route handlers, backend, other administrators | cache keys that name neither user nor tenant, answers of requests sent before a change, a form over data that changes under it |
| Console: forms (`frontend/src/features/*/ui`) | what is filled in, open dialogs, the request that is awaited, the wizard's store | open, fill, choose permissions, send, close, come back, retry | route handlers, the views they stand on | answers that arrive in a later attempt or mount; forms that share a mutation |
| Console: check of the imports (`frontend/scripts/check-import-boundaries.mjs`) | the sources and the baseline of tolerated violations | check, write and remove imports, drop lines of the baseline | developers, continuous integration | what the rules let through along several imports |
| Live overlay, requests of agents (`.agents/skills/impeccable/scripts/live-browser.js`) | per page: what it has seen, declined and begun; at the helper: leases and words | hear, claim, renew, press Go, decline, report, stand down, retry | an external helper, other pages | several pages race for one request, replays after a reconnect, holders that die or go busy |
| Live overlay, generation sessions (same file) | session, its copy in the browser's storage, variants in the document, timers | pick, Go, accept, discard, resume, inject, recover by a reload | helper, agent, development server (all external) | late answers, stale documents, recoveries that reload the page while its user does something else |
| Live overlay, edits of text (same file) | text being edited, staged count, the dock and its lock, what the browser stores of an apply | edit, save, apply, repair, roll back, discard, reload | helper and agent (external) | answers, messages and storage that disagree on whether an apply is under way |
| Live overlay, component previews (same file) | preview, mounted instances, wrapper, the retry that waits for the element, error card | inject, mount, end, retry, select a variant, accept, discard, reload | agent, framework of the page (external) | injections that overlap over awaits, a page that is rendered under them |
| Live overlay, annotations (same file) | pins, strokes, the note being written, the last click | drop, drag, write, delete, go | request to generate | pins are known by an index that others shift |
| Live overlay, steer chat and voice (same file) | message being written, steer awaited, dictation | submit, answer, fail, time out, dictate | agent, speech engine (external) | answers of a steer that is no longer awaited, a row rebuilt under a dictation |
| Live overlay, capture and loader (same file) | captures under way, what they did to the page, the loader | capture, post, upload, tear down | request to generate | six awaits during which the session may end or another begin |
| Live overlay, parameters of variants (same file) | values of knobs, what is painted, the chip | tune, publish, select, accept, reload | variants, helper | four copies of one value; a `done` that is told once |
| Live overlay, modes of the bar (same file) | pick, insert, selection, chrome, cursor, stored tools | mouse, keys, bar | edits, generation | handlers that each set some of a dozen variables |
| Live overlay, tools that read (same file) | Detect: script, scans, count; the design panel: what it fetched and shows | toggle, scan, fetch, choose a tab | detector, helper (external) | answers after the tool was switched off and on again |
| Live overlay, scroll lock (same file) | the position held, the element's place, what is stored for a reload | lock, correct, gesture, patch, reload | page, other scripts | corrections in frames and events that come later than their cause |
| Live overlay, waivers of a page (`live-browser-ignores.js`) | none | which waivers hold for a page | Detect | a page knows a URL, a waiver names files |
| Presentation components, country data, tooling, docs | none | | | not part of the running core |

### What makes each component correct

- *Sessions.* A refresh token has one successor whatever number of callers
  present it; a closed session never opens again, whichever key is lost and
  whatever was in flight; nobody is answered with a token that was already
  spent when the request began; the cap on sessions holds and evicts the least
  recently used; a caller is not refused without a reason; every request ends.
- *Passwords.* A reset link sets one password; an old session survives a change
  only in cases that can be named.
- *Invitations.* One redemption per invitation; accepted and cancelled are
  final; a failed redemption can be repeated.
- *Commands.* No confirmed command is lost; it is handled at least once or
  dead-lettered after its last attempt; shutdown loses nothing.
- *Frontend.* A tab does not lose a live session through a race; a logged-out
  browser does not get its cookies back; a rejected session ends at the login.
- *Console.* A page shows only what was fetched for its user and, apart from a
  failed switch and a layout rendered again, its tenant; fresh data holds the
  writes of the tab, but for a request an invalidation left alone; a save writes
  only what its user typed.
- *Forms.* A form sends and shows what was entered in its own attempt, waits as
  long as it has a request under way and no longer.
- *Check of the imports.* A tree that passes keeps its layers, and a violation
  that was once removed does not come back through the baseline.
- *Live overlay: requests and sessions.* A page presses Go once for a request,
  and one page's session remains of those that tried; no request is forgotten
  that an idle page could serve; a recovery never interrupts its user, nothing
  stays hidden, a session that is over does not come back, a page left alone
  stops reloading.
- *Live overlay: between Go and accept.* A capture leaves no trace in the page
  and loses no request; the loader covers the page only while it generates; a
  session is never left with nothing to see and nothing to wait for; what is
  accepted is what is shown and as it was tuned.
- *Live overlay: beside the sessions.* The page is locked only while copy edits
  are applied, and counts what is staged; a note, a message or a dictation is
  not lost, nor put where it does not belong; the chrome is that of the mode;
  a tool shows the answer to what was last asked; the element stays where it
  is; a waiver holds for the files it names.
- *Rate limiter.* At most `limit` requests pass in a window, and a client that
  waits is let in again.
- *Unit of work.* A block commits all of its writes or none.
- *Tenants, users.* Limits hold; concurrent updates of different fields both
  survive; the current tenant is one the user may use.

## 2. Plan

| Order | Module | Composes / refines | Abstract specification | Theorems worth proving | State |
|---|---|---|---|---|---|
| 1 | `TokenStore`, `JwtTokenService` | service over store | `SessionAllowlist` | invariant, safety properties, refinement | done |
| 2 | `TokenStoreRestart` | service over a store that restarts | | | done |
| 3 | `PasswordSessions` | password handlers over `TokenStore` | | ticket used once, who survives a change | done |
| 4 | `CommandQueue`, `TenantMembership` | invitations, members and the deferred deletion of a tenant over broker and worker | | `MembershipInv`, `AcceptedMeansJoined`, `AckedDeletionIsComplete`, `RedemptionsKeepTo` | done |
| 5 | `FrontendSession` | browser, proxy, route handlers over `SessionAllowlist` with grace | | `SessionInv`, `OnlyRejectionClears` | done |
| 6 | `ConsoleCache`, `MemberDialog`, `ConsoleForms` | query cache under changes of user and tenant; forms over it | | `CacheInScope`, `EditWritesOnlyTouched`, `FormsKeepToTheirAttempt` | done |
| 7 | `AgentTarget`, `LiveSession` | pages, leases and an external helper; one page and its recoveries | | `ServedOnce`, `GoesDoNotOverwrite`, `DecisionsAreFinal`, `RecoveryNeverInterrupts` | done; what is left of `SessionsConclude` is only model-checked |
| 8 | `OverlayModes`, `PageTools`, `ScrollLock`, `PageWaivers`, `ImportBoundaries` | the rest of the overlay's page; the check of the imports | | `ChromeFitsMode`, `ToolsShowLatest`, `ElementHeld`, `WaiversNameThePage`, `LayersHold` | done |
| 9 | `GenerateCapture`, `SteerChat`, `ComponentPreview` | what happens between Go and accept | | `CapturesEndWell`, `WordsArrive`, `NeverStranded`, `AcceptsWhatIsShown` | done |
| 10 | `CopyEdits`, `TuneParameters`, `Annotations` | edits of text, knobs, notes | | `EditsSettle`, `TunesAsShown`, `NotesKept` | done |
| 11 | `RateLimiter` | both windows over time | | fixed window bound | not modelled |
| 12 | `UnitOfWork` | nested blocks | all-or-nothing commit | refinement | not modelled |
| 13 | `Tenants` | registration: limit, slug, whole-row writes of tenants and users | | | not modelled |
| 14 | `JwksCache` | lock and age | | | not modelled |

Modules meant for proofs declare no RECURSIVE operator; their constants carry
named assumptions; each operation is one action per await.

## 3. The modules

### `TokenStore`

The Valkey keys of one subject in one namespace (keys of others are disjoint)
and one operator for every script or command. A Lua script or MULTI block is
one atomic step, so each operator is one step of whoever calls it.

| Code | Model |
|---|---|
| `{ns}_RT:{sub}:{sid}` | `rt[sid]` |
| `{ns}_SESS:{sub}` members and scores | `members`, `score` |
| `{ns}_ROT:{jti}` | `rot[jti]`: `None`, `Pending` or the jti of the shared pair |
| `_OPEN_SESSION` | `OpenSession`: prune members without a key, store, trim with `PopsOldest` |
| `_CURRENT_JTI`, `_ROTATE_IF_CURRENT`, `_CLOSE_ALL_SESSIONS`, `close_session` | `CurrentJti`, `RotateIfCurrent`, `CloseAllSessions`, `CloseSession` |
| `claim_`, `publish_`, `release_rotation` | `ClaimRotation`, `PublishRotation`, `ReleaseRotation` |
| TTL, `allkeys-lru` | `LoseSessionKey`, `LoseIndex`, `LoseRotation`: any key, at any time, alone |

TTLs are not counted: an expiring key may go at any moment, which covers every
grace and lifetime setting. `PopsOldest` picks among equal scores freely
(Valkey orders them by member name, and sids are arbitrary).

### `JwtTokenService`

Requests of one subject, interleaved at every await. `pc[p]` is the await a
request is suspended at, `tok[p]` the token it presented, `fresh[p]` the pair it
will answer with. A pair is named by the jti of its refresh token. Clients
present only tokens some response delivered (`delivered`): tokens are signed.

| Code | Actions |
|---|---|
| `generate_token` | `Login`, `LoginOpen`, `Answer` |
| `refresh_token` | `Refresh`, `RefreshRead`, `RefreshClaim`, `RefreshRotate`, `RefreshPublish`, `Answer` |
| its `except BaseException` | `RotateRaises` (the script may have run), `RefreshRelease` |
| `_shared_rotation` | `RefreshPoll` (bounded by `WaitAttempts`), `RefreshRecheck` |
| `expire_refresh_token`, `revoke_all_sessions` | `Logout`, `RevokeAllSessions` |
| store error, cancelled task, missing user, dead process | `Crash`, at any await |
| TTL and eviction | `LoseKey` |

`at[j]` is the mint time of a token: `uuid7()` and the `time.time()` passed to
the script run in the same stretch without an await, so one clock gives both,
and a slow script may carry an old score. `given`, `ever` and `stale` are
history: which pairs were answered for a token, which tokens have held a
session, which of those were already spent when a request began.

`Spec` is everything, `CalmSpec` takes only the steps without failures, crashes
and lost keys (`CalmNext`), `FairSpec` adds fairness. `MCTokenServiceGrace` takes both ways in one run:
a behaviour is `calm` from the beginning, and then all requests are made, or it
is not, and then `Busy` of them are.

`SessionAllowlist` is what the service promises: a session is opened once, is
held by exactly one token that never held anything before, and once closed
never opens. `JwtTokenService!AllowlistSpec` is that specification under the
mapping `cur[s]` = the current jti, `Closed` if the session was ever open, else
`Unopened`. An open that the cap pushes out at once maps to a session that goes
from `Unopened` to `Closed`.

Out of the model: the claims' other fields, signature checks (pure), access
tokens (stateless), and the legacy tokens without `sid` that are refused before
any store call.

### `TokenStoreRestart`

The same system plus `disk`, the store at the last fsync; `Fsync` and `Restart`
may happen at any time. One session and one request suffice for what it shows.

### `PasswordSessions`

One account: `password`, its sessions in `TokenStore`, and reset tickets
(`ost`). A change runs check or consume (`Update`, `Reset`), `SetPassword`
(the commit), `Revoke`; a login runs `LoginCheck` and `LoginOpen`. `Update`
stands for `UpdateUserPasswordHandler` and `SetUserPasswordHandler`, which do
the same after their check. `openedWith[s]` records the password a session was
granted for, `spared` the sessions that no finished revocation has reached,
`uses[t]` how often a ticket set a password. `Fail` interrupts any of them,
including after the commit. Refreshes are not repeated here: a session stays
one entry of the store. The user always exists (a missing user is an early
return without effect) and a password is a model value.

### `CommandQueue`

The messages of the quorum queue and the deliveries of the worker. A run is one
delivery with its handler; what handlers do belongs to the module that extends
this one.

| Code | Model |
|---|---|
| message, its place, `x-acquired-count`, `x-delivery-count` | `msg[m].st`, `.acquired`, `.failed` |
| a handler task and the delivery it answers | `run[r]`; `live` while the broker waits for its answer |
| `enqueue` | `Enqueue` (an error after the broker took the message is followed by another message) |
| `on_message`, `previous_deliveries` | `Deliver`, `PreviousDeliveries`, `Attempt` |
| ack; `_retry`: reject, or pause and nack | `Ack`; `Fails`, `Requeue` |
| `stop`, grace period, cancelled tasks | `Stop`, `Close` |
| death, lost connection, restart | `Die`, `CutOff` (handlers go on, their answers count no more), `Start` |
| what the broker does with unanswered messages | `Returned` (external: RabbitMQ's delivery limit) |

### `TenantMembership`

One tenant. Every repository call commits by itself, so every request is one
step per call, interleaved with all others and, with `Faults`, ended after any
of them.

| Code | Model |
|---|---|
| `TenantMemberInviter` | `Invite`, `InvitePersist` (unique index over pending rows: `Taken`) |
| `InvitationCanceller`, expiry | `Cancel`, `MarkExpired`; `Lapse` |
| `InvitationAcceptor` | `Redeem`, then `RedeemTenant`, `RedeemUser`, `RedeemCreate`, `RedeemPassword`, `ReadMember`, `RedeemMember`, `SetCurrent`, `MarkAccepted`, `RedeemAnswer` |
| `TenantUserUpdater`, `TenantUserRemover` | `Update`, `UpdatePersist` (the whole row read before), `Remove` |
| `SetUserCurrentTenant`, `find_by_user` | `Switch`, `SetCurrent` |
| `SoftDeleteTenant` as a deferred command | `RequestDeletion`; `DeleteFind`, `DeletePersist`, `DeleteClear` as the handler of `CommandQueue` |

`joined`, `spent` and `late` are history: through which invitations somebody
joined, which have an answered redemption or cancellation, and who had passed
the check of the tenant when it was deleted.

### `FrontendSession`

One browser. The backend is an instance of `SessionAllowlist`, which
`JwtTokenService` is proved to implement, with the grace window added (`grace`).
A jar holds the pair of cookies and the counter of bounces; `rotations[b]` is
the rotation cache of a bundle (proxy, route handlers), which live in separate
instances of one module. The server reacts in the step that sends a request;
answers arrive later, in any order.

| Code | Model |
|---|---|
| `proxy` on public and protected routes | `ProxyHome`, `ProxyPage` |
| `rotateBackendSession`, `ensureFreshSession` | `RotateBackendSession`, `Settle`, `Outcome`, `Rotated` |
| refresh, login and logout routes | `RefreshRoute`, `BackendLogin`, `BackendLogout` |
| `isSessionRejected` | `IsSessionRejected` |
| protected layout, `SessionSync` | `LayoutReads`, `Arrive` |
| interceptor of the HTTP client | `ApiCall`, `ApiUnauthorized`, `DeliverRefresh` |
| login view, logout | `Login`, `DeliverLogin`; `Logout`, `DeliverLogout` |
| access lifetime, grace, reuse window, 60 s of the counter | `ExpireAccess`, `ForgetGrace`, `ExpireRotation`, `ForgetAttempts` |

### `ConsoleCache`

One document of the console after another, in one tab. Data is abstracted to
whose it is: an entry of the cache, and a request in flight, carry the user and
tenant they were sent for and the version of the rows they hold. One query
stands for all; `page` says whether it is mounted.

| Code | Model |
|---|---|
| `queryClient.clear()`, `invalidateQueries`, `staleTime` | `ClearCache`, `Invalidate`, `Age` |
| a query: request, read in the backend, answer, failure | `StartFetch`, `BackendReads`, `FetchArrives`, `FetchFails` |
| a mutation and its `onSuccess` | `Write`, `BackendWrites`, `WriteArrives`, `WriteFails` |
| login view, `clearSession`, `handleRefreshFailure` | `Login`, `Logout`, `LoseSession` |
| tenant switcher, `useSelectTenantMutation` | `Switch`, `SwitchArrives` (a document load), `SwitchFails` (the roll-back) |
| deletion of the tenant, `clearTenant` | `Delete`, `DeleteArrives`, `DeleteFails` |
| protected layout and `SessionSync`: first rendering, one after a change of language, one that finds no session | `Enter`, `RenderAgain`, `RenderRefused` (with `Sync`) |

TanStack Query is a library; what it does is in the three operators of the first
row and in `StartFetch`, as the code uses it: `invalidateQueries` asks again for a
list that a page shows, and leaves alone a request for one that nobody shows or
that has nothing to show yet (the query function takes no signal to abort). Two
history variables name what the properties except: `overtaken`, such a request
and what it brought, and `resynced`, that the layout has put another tenant in
the store over a cache that is kept.

### `MemberDialog`

The members page and its edit dialog. `given` is the member the dialog was last
handed, `draft` what it shows, `touched` what its user typed since the draft was
filled. `Fill` is the effect on `[member]`: a refetch that changes the row under
the open dialog fills the draft again. A save sends the differences (`Save`),
ends when the refetch it starts is over (`Settle`) and then closes whatever
dialog is open. Photos, roles from a row and removals (`StartCall`) and other
administrators (`OtherWrites`, `OtherRemoves`) run beside it.

### `ConsoleForms`

Twelve forms, one in a behaviour (`form`): dialogs over a list (invite, create
and edit a role, confirm), the onboarding wizard, whose state is in a store, and
pages (login, reset, acceptance of an invitation, profile, password, settings).
What a field holds is told by the *attempt* it was entered in. `mount` counts the
mounts of the component, `visit` those of its page; a request in flight
(`sends`) remembers the attempt, the mount and what it sent.

| Code | Model |
|---|---|
| opening, closing, a success that closes | `OpenForm`, `CloseForm`, `ClosedByUser`, `TryAgain` |
| fields, `PermissionSelector`, `SelectedPermissions` | `EnterWords`, `EnterMember`; `OpenSelector`, `TickPermission`, `PermissionsDone`, `CloseSelector`, `RemovePermission` |
| `handleSubmit` and its likes | `SubmitForm`, `OtherFormSubmits` (profile and password share a mutation) |
| what each form does with an answer | `AnswerForm` over `Invited`, `RoleCreated`, `RoleEdited`, `Confirmed`, `TenantOnboarded`, `ProfileSaved`, `SignedIn`, ...; `Failed` |
| a view that shows an error, or is left | `ViewFails`, `ViewHeals`, `LeavePage`, `DataChange` |

`strayed` is set by the three ways, named at `DraftsDoNotLeak`, in which a draft
does reach another attempt.

### `ImportBoundaries`

The script that keeps the layers apart. A path is the sequence of its segments;
`uses` are the imports there are, `baseline` the violations that are tolerated.
Each rule of `checkImport` is an operator (`Retired`, `BrowserFacing`,
`ServerOnly`, `AcrossSlices`, `PrivatePart`, ...), `Broken` is their disjunction,
`RunCheck` the verdict. `LayersHold` compares it with what files reach in two
imports, while the script looks at one import at a time. `LayersAreDirectories`
assumes of the paths what the layout of the sources has: no empty segment, and no
file that is called like a layer. A file `shared.ts` beside `shared/` would have
the rank of a layer but not the prefix that the script looks for.

### `AgentTarget`

An agent's request, told to every connected page. A page's dealings with it are
*chains*: what it has begun and not finished.

| Code | Model |
|---|---|
| `handleAgentTarget`, `agentTargetTaken` | `HearTarget`, `Taken` |
| busy or unresolvable: `declineAgentTargetBusy`, `reportAgentTargetUnresolvable` | `DeclineBusy`, `ReportUnresolvable` |
| `claimAndActOnAgentTarget` and its retry | `StartClaim`, `Claimed` |
| `watchAgentTargetResolution` | `Reported`, `WatchResolution` |
| `actOnAgentTarget`, its renewal, Go | `ActOnGrant`, `Renewed`, `PressGo`, `StandDown` |
| `retryDeclinedAgentTargets` | `RetryDeclined` |
| `abandonSupersededGo` | `AbandonSuperseded` |

The helper (`Grant`, `Word`, `Over`, `RollCall`, `LeaseLapses`, `Resulted`) is
not in the repository and is modelled as the overlay's comments describe it.
Timers fire in any order and at any time. `doubled` remembers a page that heard
a request a second time while it was still after it, after a reconnect: the one
case in which the ledger does not keep it from going twice.

### `LiveSession`

One page with its overlay, its storage and its document. The record `overlay`
is the page; the functions of the overlay are operators from one page to the
next (or to the set of pages they may lead to), and each timer of the code is an
element of `overlay.timers`. A document holds, of a session, nothing, a wrapper
with some variants, or the tree that an accepted variant leaves.

| Code | Model |
|---|---|
| pick, Go, accept, discard | `Pick`, `Go`, `Accept`, `Discard`; their calls `Take`, `Fail`, `HearAnswer` |
| `init`, `resumeSession`, `restoreSessionWithoutWrapper` | `Load`, `ResumeOver`, `RestoreWithoutWrapper` |
| `injectVariantsFromSource` and its retries | `Inject`, `CompleteInjection`, `Reads` |
| `scheduleAcceptCleanup`, `scheduleHandledRuntimeWrapperReload`, discard recovery | `FinishAccept`, `ScheduleHandledReload`, `DiscardSettles` and the other `...Settles`; `RecoveryReload` |
| observers of the document | `Scouted`, `WatchedHandled`, `ObservedVariants` |
| messages of the helper, connection | `Receive`, `GoOnline`, `GoOffline` |
| agent and development server (external) | `AgentWrites`, `AgentCompletes`, `AgentFails`, `AgentFinishes`, `Refresh`; `stale`, a server that answers a load with the old document |

A timer is `fresh` as long as the user has begun nothing else, which is what the
code's `liveInteractionRevision` tells.

### `CopyEdits`

The page's side is `editor` (what is being edited, and the edit badge) and
`dock` (count, lock, decision, what the browser stores); the helper's is `staged`
and `work`. Calls are in `requests` from sending to answer, messages in `news`.

| Code | Model |
|---|---|
| picking a text, editing, saving, cancelling | `PickText`, `EnterEditingMode`, `TypeText`, `SaveText`, `CancelEditing`, `CancelEditingToPicking` |
| the pill and the dock: apply, trash, keep fixing, roll back | `Apply`, `Trash`, `KeepFixing`, `Rollback` |
| answers: stash, count, commit, repair, discard | `HearStash`, `HearRequest`, `CommitEnds` |
| messages | `HearStarted`, `HearDone`, `HearNews`; `FetchesAgain` |
| reload, stream | `LoadPageAgain`, `ForgetStored`; `Connect`, `LoseConnection` |
| helper and agent (external) | `Serve`, `Refuse`, `LoseAnswer`, `Elsewhere`, `Proceeds`, `Finish` |

### `ComponentPreview`

A preview is a record (`preview`), what exists of it in the document is
`wrapper` and `instances`. Each injection, and the one selection, is a task that
is *at* an await: the manifest, the import, the end of the instance before, the
probe that describes a failure.

| Code | Model |
|---|---|
| `injectSvelteComponentsFromManifest` | `WithInjection`, `ReadManifest`, `ManifestFails`, `GoesOn` |
| `mountSvelteComponentVariant` | `Imported`, `Ended`, `Mounts`, `MountFails`, `Probed` |
| `abortSvelteComponentInjection`, `teardownSvelteComponentSession` | `Abort`, `Teardown` |
| `waitForSvelteComponentTargetAndRetry`, error card | `RetryObserved`, `RetryCard`, `DismissCard` |
| `selectVariant`, `handleAccept`, `handleDiscard` | `SelectVariant`, `AcceptPreview`, `DiscardPreview`, `LeaveAnswered`, `LeaveFails` |
| reload, framework and agent (external) | `ReloadPreview`, `RenderPage`, `Publish`, `HearPublication` |

The code guards an injection against a change of variant but not against four
races. `met` records the ones a behaviour has met, and the properties are about
what happens until then.

### `Annotations`, `SteerChat`

`Annotations` has the pins by identity, so that an index that leads to another
pin than was clicked can be told (`misled`). The pointer is one automaton:
`PressPin`, `PressStroke`, `DoublePress`, ..., `MovePointer`, `ReleasePin`, ...;
`TypeNote`, `FinishNote`, `CancelNote` are the note being written; `GoWithNotes`
is the request.

`SteerChat` has every steer with the state of its post and of the agent
(`steers`), the one the chat is locked for (`awaited`), what is being written
(`chat`) and what was put aside (`pending`), and the dictation (`voice`) with the
row it writes into. `SubmitSteer`, `SteerPosted`, `SteerPostFails`,
`AgentAnswers`, `SteerFails`, `SteerTimesOut`; `StartVoice`, `HearMessage`,
`HearPrompt`, `FinishVoice`, and for a row that is built anew `RebuildRow`.
`astray` is set by the two ways in which words go wrong.

### `GenerateCapture`

A capture is at one of six awaits (post, fonts, script, crop, shot, upload), with
what it found of the chrome; `marked` are the elements that hold annotations,
`loader` and `building` the overlay and its construction, `owed` the requests not
yet posted. `GoCaptures`, one action per await (`RequestPosted`, `FontsReady`,
`ScriptLoaded`, `CropReturns`, `ShotReturns`, `UploadReturns`, `ScriptFails`),
and beside them what ends a generation (`VariantsArrive`, `SessionEnds`,
`OtherFails`, `LoaderTornDown`, `CardDismissed`, `ReloadPage`). `frozen` and
`crossed` name the exceptions (section 4).

### `TuneParameters`

`tune` is the page: which variant, the mirror of its values, what is painted on
it, the chip and the popover. A preview is compiled (a mounted component) or not
(`compiled`). `TuneKnob`, `ToggleTune`, `SelectShown` with `Concludes`,
`AcceptTuned`, `VariantsLand`, `KnobsArrive`, `ProgressHeard`, `PhaseHeard`,
`DoneHeard`, `ReloadTuned` and `ResumeTuned`, `StatusHeard`, `ElementReplaced`.
Values are functions on the knobs that have one, and `Overriding` is what setting an
attribute or spreading an object does: the old values stay where there is no new one.

### `OverlayModes`, `PageTools`, `ScrollLock`, `PageWaivers`

`OverlayModes`: `modes` is one record of all that the handlers of mouse, keys and
bar set (tool, state, hovered and selected element, badge, bar, placeholder,
cursor); each handler is an action made of the helpers it calls. Messages come in
any mode: an error that is not of the page's session (`ErrorHeard`), the end of the
connection (`HelperLost`), a connection (`ConnectedHeard`). `misfit` is set by a
handler that meets a mode it was not made for.

`PageTools`: Detect (`ToggleDetect`, `DetectorReady`, `ResultsArrive`) and the
design panel (`ToggleDesignPanel`, `DesignAnswered`, `DesignFetchFails`,
`ChooseTab`), whose scans and fetches are answered in any order.

`ScrollLock`: the page is the height above and below the element and the
viewport's position `y`. A frame (`CorrectInFrame`) and a scroll event
(`ScrollEvent`) come some time after their cause; `Gesture` and `GestureIsPast`
bracket the 250 ms in which the user scrolls; `kept` survives `ReloadScrolled`.
`ResumeLocks` is called for any page, also over a lock that is on: it takes the
stored position and place, or else where page and element are. `drifted` says that
something the lock does not see has moved the element.

`PageWaivers`: `Resolve` is the function, `Matches` a glob as `globToRegex` reads it
and `Names` as it is meant, `Candidates` the paths a URL may stand for; `AskWaivers`
asks it, over sites given by the files, roots and document roots they serve.
`NameEnds` says which names end with another. The property names the two cases in
which a page takes over what is said of other files (`longer`, `borrowed`, section 4).

### `MCGenerations`, `MCInterfaces`

Modules of the console and the overlay share no state. Two runs check them: a
behaviour picks one part and the others rest where they begin, so the state space
is the sum of theirs and not the product. `MCGenerations` has six parts: requests
of agents, sessions, edits of text, previews, captures, parameters.
`MCInterfaces` has eleven, of ten modules: cache, member dialog, forms, notes,
steer chat, modes, the two of `PageTools`, scroll lock, waivers, imports.

The *broken variants* in the modules (the comment of each calls it that, or
begins with "Error:") are not part of the system: they are plausible bugs that
the properties are shown to notice.

## 4. The runs

| Run | Configuration | Instance | Shows |
|---|---|---|---|
| `token_service_grace` | `TokenServiceGrace.cfg` | 3 requests if calm, else 2 of them under every failure; 2 sessions, 3 tokens, cap 1, 1 wait, grace | `OneSuccessor`, `NoStaleAnswer`, `IndInv` (with types and cap), `ClosedStaysClosed`, `AllowlistSpec` (refinement); in calm behaviours `RefusedOnlyIfOvertaken` |
| `token_service_lru` | `TokenServiceLru.cfg` | 1 request, 3 sessions, 4 tokens, cap 2, no grace | `EvictsLeastRecentlyUsed` |
| `token_service_ends` | `TokenServiceEnds.cfg` | 2 requests, 1 session, 2 tokens, 2 waits, no symmetry | `RequestsEnd` |
| `token_store_restart` | `TokenStoreRestart.cfg` | 1 request, 1 session, 2 tokens | a violation: see below |
| `password_sessions` | `PasswordSessions.cfg` | 3 requests, 2 sessions, 2 passwords, 1 ticket, faults | `ResetTicketSetsOnce`, `OldSessionsWereSpared`, `IndInv` |
| `password_race` | `PasswordSessionsRace.cfg` | 2 requests, without faults | a violation: see below |
| `frontend_session` | `FrontendSession.cfg` | 1 tab, 1 session, 2 pairs, counter limit 1, faults, no symmetry | `SessionInv`, `OnlyRejectionClears`, `NavigationSettles`, `CallsSettle` |
| `tenant_membership` | `TenantMembership.cfg` | 1 person, 1 invitation, 2 requests, 1 message, 2 handlers, 2 attempts, 1 stop, faults | `MembershipInv` (with `QueueInv`: dead-lettered after the last attempt and not before), `AcceptedMeansJoined`, `AckedDeletionIsComplete`, `RedemptionsKeepTo` |
| `tenant_deletion` | `TenantDeletion.cfg` | the same without faults | a violation: see below |
| `generations` | `Generations.cfg` | six parts, bounds below | `GenerationsInv` (the inductive invariant of each part); requests of agents: `RequestsAreServed`, `GoesDoNotOverwrite`; sessions: `SessionsConclude`, `RecoveryNeverInterrupts`; edits: `EditsSettle`; previews: `NeverStranded`, `AcceptsWhatIsShown`; captures: `CapturesEndWell`; parameters: `TunesAsShown` |
| `interfaces` | `Interfaces.cfg` | eleven parts, bounds below | `InterfacesInv` (likewise); cache: `CacheInScope`; dialog: `EditWritesOnlyTouched`; forms: `FormsKeepToTheirAttempt`; notes: `NotesKept`; chat: `WordsArrive`; modes: `ChromeFitsMode`; tools: `ToolsShowLatest`; scroll lock: `ElementHeld`; waivers: `WaiversNameThePage`; imports: `LayersHold` |
| `cache_scope` | `CacheScope.cfg` | 2 users, 2 tenants, 1 switch | a violation: see below |

Several of these names stand for a few rules that belong together, which their
modules state one by one:

| Property | Its parts |
|---|---|
| `RedemptionsKeepTo` | `PasswordKept`, `SpentStaysSpent` |
| `CacheInScope` | `UserScope`, `SwitchLeavesNothing`, `FreshHoldsOwnWrites` |
| `FormsKeepToTheirAttempt` | `DraftsDoNotLeak`, `BusyWhileAwaited` |
| `RequestsAreServed` | `ServedOnce` (`OneGoPerPage`, `LosersStandDown`), `NoRequestForgotten` |
| `SessionsConclude` | `DecisionsAreFinal` (`HandledNeverResumes`, `NothingStaysHidden`), `GenerationNoticed`, `ReloadsStop` |
| `EditsSettle` | `LockedForAReason`, `CountIsStaged` |
| `CapturesEndWell` | `LoaderWhileGenerating`, requests not lost, element and chrome given back |
| `TunesAsShown` | `AcceptsAsTuned`, `ChipSettles` |

*Why the bounds are enough.* Two callers of one token, a login that evicts, a
logout and a lost key are what the safety properties are about; three tokens let
a session be opened and rotated twice, or two sessions live and one rotate. A
second rotation is what makes a shared pair stale. Three sessions over a cap of
two, with a token to spare for a refresh, are needed for an eviction to choose.
Three callers are needed for one to be overtaken twice, and two while calls fail
(`Busy`). The theorems of section 5 remove the bounds for every safety property
of these two parts, and for most of the others.
Ids, and requests, are interchangeable, so the safety runs use symmetry; the
liveness run does not.

- *Frontend.* One tab can have a navigation and a refresh under way at once, and
  the refresh of a document that was left behind, which is what makes answers
  overtake each other; the second pair is what an old answer must not be mixed
  up with. A limit of one bounce already closes the loop between the login and
  the members page. A second session, or tab, multiplies the states of a
  liveness run beyond use and adds no step to these loops.
- *Membership.* Two requests make two redemptions of one invitation, a
  redemption against a cancellation, an update against a removal. Two attempts
  have a last one and one before it; with one stop a delivery can be broken off
  beside a nack; with two handlers a message that came back can be handled twice
  at once.
- *Cache.* Two users in one document one after the other, two tenants, two
  switches in flight and a write that a request in flight has not seen
  (`MaxVersion = 1`).
- *Dialog.* A field the user types in and one that another administrator
  writes; a second member to open while a save of the first is on its way.
- *Forms.* Three attempts, two requests and two mounts: an answer of the first
  attempt can meet the second before and after a remount, and a third follows.
- *Requests of agents.* Two pages for one request or two requests for one page
  are the races; `MaxPresent = 3` excludes two of both at once. One disturbance
  (a page that ends, a broken connection, an element that goes, a session of the
  user, a time-out) at any point; lapses of leases, answers and timers are not
  counted. The pages are alike, so a chosen one is the first.
- *Generation sessions.* The second session is the one a recovery of the first
  might interrupt. Two variants have a partial and a complete state. `MaxEvents`
  counts what users and failures do, not timers, writes of the agent, messages
  or refreshes. A development server is always up to date or always behind
  (`stale`): a load that differs from the one before is then a refresh, which
  may happen at any time. A page that its framework rebuilds (`framework`) and a
  stale server are taken one at a time. Timers fire in any order, so no delay of
  the code is relied on.
- *Edits of text.* Two staged edits (a count that is wrong by one, and zero), two
  messages on their way, which may pass the answers, and three saves, applies,
  decisions, reloads or failures.
- *Previews.* Two sessions of two variants, two tasks at once, four mount targets
  (no preview has to wait for one), two failures, reloads or changes of what is
  rendered. Third failures matter (section 4): the theorems take them in. The
  part ends at the first of the four races.
- *Captures.* Two Gos: two captures overlap in every pair of awaits.
- *Parameters.* Two variants, a stepped knob and a range, one later publication
  and one reload or loss of the stream: knobs come with the variant or after it,
  and the end of the generation is heard, missed or asked for.
- *Notes.* Three pins, of which one between two others can be dragged, deleted
  and edited, one stroke, one text. Ends where an index has led to another pin.
- *Steer chat.* Two steers, so that one is late for the other; two rows of the bar.
- *Modes.* Two elements: one with a sibling in its row, one with text.
- *Tools.* Two scans, two fetches: one that is out of date and one that is not.
- *Scroll lock.* Heights 0 and 1 above and below: a page that can be scrolled to
  where the element was, and one that is too short for it.
- *Waivers.* Seven files under four roots, of which a site serves two: the same
  name at three depths and under two roots, once with its root named twice, and
  once as the end of a longer name.
- *Imports.* Eight importing files, one or two for each layer and one of a retired
  directory, eight imported paths, two imports at once: one that reaches a layer over
  the other.

*No bound is on behaviour* in the runs of the token service and passwords: the
supplies of ids run out, but logouts, revocations and refreshes of old tokens
stay possible, so deadlock is checked, as it is for the frontend. It is not for
`tenant_membership` and `tenant_deletion` (the one invitation and the one message
have been used up and everybody has left) nor for `generations` and `interfaces`
(the bounded events are spent and a page is left alone). Whether something was
left undone there is asked by `RequestsAreServed`, `SessionsConclude`,
`NeverStranded`, `CapturesEndWell`, `EditsSettle` and `TunesAsShown`.

*Fairness.* `FairSpec` asks weak fairness of each request's own steps
(`OwnStep`): the event loop resumes a task whose store call has answered.
Nothing forces a failure, a crash, a new request or a lost key, so no request
ends only because something kills it. The one exception is `OutOfIds`, a bound
of the model: a request that needs a new id when the finite supply is spent is
given up. The wait for a shared pair is bounded by `ROTATION_WAIT_ATTEMPTS`, which is why
`RequestsEnd` holds when the owner of the claim died.

`FrontendSession!FairSpec` asks weak fairness of the server's steps for each
request, of each rotation's answer (every call has a timeout, so some answer
comes), of the delivery of each answer, and of a tab going on with a call that
is answered. Nothing forces users, expiries, failures or closed sessions;
`NavigationSettles` and `CallsSettle` hold under any number of them.

### Disagreements between code and documents

- **Restart** (`token_store_restart`, `RevokedStaysRevoked`). The TokenStore
  docstring says "nothing here ever makes a revoked token valid again". With
  `appendfsync everysec` a crash within a second of a logout or revocation
  brings the deleted keys back. `valkey.conf` itself concedes that such a
  revocation "would have to be repeated".
- **Login race** (`password_race`, `PasswordChangeClosesSessions`). The
  session-allowlist specification says a password change or reset "SHALL close
  every session of the user". A login that has passed its check when the change
  commits opens its session after the revocation. `OldSessionsWereSpared`, which
  holds and is proved, says exactly how far this goes: logins in flight during
  the revocation, and changes that failed between commit and revocation.
- **Deletion of a tenant** (`tenant_deletion`, `RepeatedDeletionCompletes`).
  The architecture page says that handlers must be repeatable, as delivery is at
  least once. The deletion commits `is_deleted` and clears the current tenant of
  its users in a second transaction (`soft_deleter.py:18-22`). In TLC's trace the
  worker dies between the two, the next delivery fails to find the tenant, that was
  the last attempt, and the command ends dead-lettered: nobody works on it any
  more and a user is left on a deleted tenant. The property speaks of that end
  only, and the run loses one delivery at most and lets nothing else fail, so
  that a handler which went on to the clearing would satisfy it.
  `AckedDeletionIsComplete` holds: an acknowledged deletion did both.
- **Scope of the cache** (`cache_scope`, `ShownBelongsToTenant`). The frontend's
  rule is that a key carries its scope or the change of scope empties the cache.
  A switch of tenant whose call fails puts the old tenant back
  (`tenants.ts:51`) and leaves a list that was fetched for the new one under a
  key that names neither. A switch that succeeds loads a document, and
  `SwitchLeavesNothing` holds but for this case and that of a new rendering of
  the layout, below.

What follows was met and has no run. Where a property says "until" or "unless",
these are the cases that it excepts.

*Backend and frontend.* The invitations page says that a token is for one use; two
redemptions that overlap may both be answered with a session, and
`SpentStaysSpent` says how far the rule goes: none starts after an answer. The
counter of the proxy is meant for a loop of redirects, but counts visits: three
to the login page within a minute clear a session that is good
(`proxy.ts:114-127`).

*Cache.* A change of the language renders the layout again in the same document
(`i18n/actions.ts:18`). `SessionSync` then sets a tenant that was changed elsewhere,
and the page is mounted anew over the list of the old one, which is shown while it
counts as fresh, a minute at most (`resynced`); the comment at
`app/(protected)/layout.tsx:53-56` expects the remount to leave nothing of it. And a
mutation that is acknowledged while the list is on its way, and nobody shows it or it
has nothing to show yet, does not ask for it again: the answer may lack the write and
counts as fresh for a minute (`overtaken`).

*Forms.* `PermissionSelector` never resets its selection (its reset is in
`handleOpenChange(true)`, which nobody calls) and outlives its dialog. A success
that comes late closes and clears a dialog that was opened again, and late
results land in a wizard that was opened again
(`onboard-tenant-wizard-store.ts:1-5` says otherwise). A refetch in the background
that fails replaces the view and throws the drafts of its dialogs away. Profile
and password reset each other's mutation, so that two requests can be under way;
the confirmations have no guard against a second press. A retry of an onboarding
whose answer was lost makes a second tenant.

*Check of the imports.* The README of the features and the architecture page say
that the check lets nobody past a feature's facade, but files outside the layers
(`src/proxy.ts`, `src/i18n`) and `app/api` may import any internals, and a chain
shared - i18n - features is not seen.

*Requests and sessions.* `recoverEmptyCycling` (`live-browser.js:3060`) does not
record its session as handled, so that over a source whose wrapper stays empty a
document is loaded again and again; `ReloadsStop` makes this exception.

*Edits of text* (`live-browser.js`). After a rollback the pill stays disabled and the
two buttons of the decision stay visible (`:4098` undoes nothing of `:4207`). A count
that arrives while a decision is awaited locks the page again (`:4111`, against
the comment at `:4340`). An apply that starts while a text is edited replaces Save
and Cancel by a badge that nothing takes back (`:4029`). A late answer to a save
sets CONFIGURING wherever the page is by then (`:3826`).

*Component previews.* The four races of `met`: the page loses the wrapper of a
preview (`:5956`); a task resumes after its session, which it takes up again
(`:5830`); two tasks mount over each other (`:5671-5676`); a card is dismissed in
CYCLING, which stays (`:6092`, against the comment above it). Besides, an accept
that fails takes the bar back to CYCLING (`:9168-9225`) even if the preview was
taken down while it was awaited. When its element is not rendered either, the bar
offers variants over a page that shows none until it is, which the comment at
`:5840` rules out for injections. This was found in proving `NeverStranded`: it takes
three failures, one more than the run has. The property now says that such a
session waits for its element.

*Captures.* `cleanup` on an error or a discard does not take the loader down
(`:8840-8849` says it does); nor does a dismissed card after a late capture
(`frozen`). Two captures that hide the chrome at once may leave it hidden, as the
later one brings back what it found (`:8545`, `crossed`). A reload between Go and
an annotated post loses the request. A plain post that fails is only logged, and
the page stays GENERATING (`:8707`).

*Parameters.* A preview that is published again while mounted gets a new element
without its values (`:5837-5849`, against `:3101`); the same when the framework replaces
it. The popover stays usable while an accept is sent (`:9200`). Reopening it, or
the arrival of the last variant, resets values (`:4966`, `:7082`). A `done` missed
while the stream is down, or asked for in vain, leaves the chip spinning until a
reload. `handleAccept` does not check its guards again after its await.

*Notes.* A click on pin B while an earlier, emptied pin is open removes that pin
first and goes on with an index that is now another pin's (`:650-660`); so does a
click remembered for a double click (`:639`), and a deletion under an open note
(`:640-641`).

*Steer chat.* The late failure of a post unlocks the chat for another steer, or
overwrites what is being written (`:11196-11199`). A row built under a dictation
takes its words away (`:2993-3001`). What is typed during a dictation is
overwritten (`:11106`). An error for a steer no longer awaited hides the bar
(`:7734-7736`).

*Modes.* `toggleInsert` from a configuration leaves its edit badge; toggles while an
insertion is configured leave its bar without a placeholder; toggles while a text is
edited leave EDITING without a selection; the pick toggle hides the bar of a
generation. An error message that is not of the page's session leaves the annotation
layer of a configuration, and a generation without its bar (`:7734-7736`). When the
helper is lost the page is IDLE with its tool still on and the badge as it was, and a
generation loses its bar and selection (`:7756-7776`). These set `misfit`.

*Tools.* The empty design panel says "then re-open this panel" (`:12784`), but an
answer that there is nothing is never fetched again (`:12736`). A detector that
failed to load is not loaded again. `teardown`, "remove all UI" (`:12229`), leaves
the panel.

*Scroll lock.* A gesture notes its place before its own scrolling, so that the next
patch undoes its last notch; after a reload the first patch puts the element where
it was at Go, whatever gestures came between (`:10147` and `:9700` against `:6909`).
Scrolling by a script within 250 ms of a gesture is not corrected. Three ways of
ending a session leave the position stored. A session that is resumed with nothing
stored is held where the page is, and nothing is stored for the next reload until the
first correction or gesture; the scout for late wrappers resumes over the lock of a Go
and puts the stored place in the stead of what a gesture had noted since (`:13493`).

*Waivers.* Where the document root is above the common root of the globs, the URL of
a page has that root already; when the helper cannot tell the page's file from others,
the code puts the root before it again (`live-browser-ignores.js:168`), and the page
`src/foo.html` takes over what is waived for `src/src/foo.html`. The comment at
`:140-145` rules borrowing out. This was found in trying to prove `WaiversNameThePage`:
the run then had no file for it; both have the case now. The glob `**/foo.html` also
matches `barfoo.html`: `globToRegex` makes of `**/` a `.*` that may end within a name
(`:66-68`), so that a file takes over the waivers of all files whose name its own ends
with.

## 5. The proofs

The theorems hold for every value of the constants: any sets of sessions, tokens,
requests, people, users, tenants, pages, texts, and any of the bounds. They use the
named ASSUMEs (`StoreAssumption`: the cap is positive and `None` and `Pending` are
no ids; and such), which say no more than that bounds are numbers and that markers
differ from what they stand beside, and, in `LayersAreDirectories`, how sources are laid
out; TLC evaluates them in every run. Each
inductive invariant but `ClaimInv` is an invariant of a run.

| Module | About | Inductive invariant |
|---|---|---|
| `JwtTokenServiceProofs` | `JwtTokenService` | `IndInv`, `ClaimInv` |
| `PasswordSessionsProofs` | `PasswordSessions` | `IndInv` |
| `TenantMembershipProofs` | `CommandQueue`, `TenantMembership` | `MembershipInv` |
| `FrontendSessionProofs` | `FrontendSession` | `SessionInv` |
| `ConsoleProofs` | `ConsoleCache`, `MemberDialog`, `ConsoleForms`, `ImportBoundaries` | `CacheInv`, `MemberInv`, `FormsInv`, `BoundariesInv` |
| `OverlayProofs` | `ScrollLock`, `PageTools`, `OverlayModes`, `PageWaivers`, `Annotations`, `SteerChat` | `ScrollInv`, `ToolsInv`, `ModesInv`, `WaiversInv`, `AnnotInv`, `ChatInv` |
| | `MCInterfaces`: these six and the four of `ConsoleProofs` | `InterfacesInv` |
| `LiveProofs` | `AgentTarget`, `LiveSession`, `CopyEdits` | `AgentInv`, `LiveInv`, `CopyInv` |
| `VariantProofs` | `GenerateCapture`, `ComponentPreview`, `TuneParameters` | `CaptureInv`, `PreviewTypeOK`, `PreviewInv`, `TuneInv` |
| | `MCGenerations`: these three and the three of `LiveProofs` | `GenerationsInv` |

| Theorem | Property |
|---|---|
| `JwtTokenServiceProofs`: `Invariance`, `TypeCorrect` | `IndInv`, `TypeOK` |
| `UniqueSuccessor` | `OneSuccessor` |
| `FreshAnswers` | `NoStaleAnswer` |
| `CapHolds` | `SessionCap` |
| `ClosedForGood` | `ClosedStaysClosed` |
| `EvictionIsLru` | `EvictsLeastRecentlyUsed` |
| `ClaimInvariance`, `RefusalsAreOvertaken` | `ClaimInv`, `RefusedAsOvertaken` of `CalmSpec` with a grace: what the run checks as `RefusedOnlyIfOvertaken` in its calm behaviours |
| `Refinement` | `AllowlistSpec`: initial states map to initial states, every step to a step or a stutter (`LoginOpens`, `RotateRotates`, `OnlyCloses`) |
| `PasswordSessionsProofs`: `Invariance`, `TypeCorrect` | `IndInv`, `TypeOK` |
| `TicketSetsOnce`, `OnlySparedSurvive` | `ResetTicketSetsOnce`, `OldSessionsWereSpared` |
| `TenantMembershipProofs`: `MembershipInvariance` | `MembershipInv` |
| `CommandsAreCounted` | `QueueInv`: the attempts of a command, and its dead-lettering after the last |
| `DeletionsAreComplete`, `AcceptedHaveJoined`, `RedemptionsKeep` | `AckedDeletionIsComplete`, `AcceptedMeansJoined`, `RedemptionsKeepTo` |
| `FrontendSessionProofs`: `SessionInvariance`, `RejectionClears` | `SessionInv`, `OnlyRejectionClears` |
| `ConsoleProofs`: `CacheStaysInScope`, `SavesOnlyTouched`, `FormsKeep` | `CacheInScope`, `EditWritesOnlyTouched`, `FormsKeepToTheirAttempt` |
| `LayersStayApart` | `BoundariesInv`, `LayersHold` |
| `OverlayProofs`: `LockHoldsElement`, `LatestIsShown`, `ChromeFits` | `ElementHeld`, `ToolsShowLatest`, `ChromeFitsMode` |
| `WaiversHold` | `WaiversInv`, `WaiversNameThePage` |
| `NotesInvariance`, `NotesStay` | `AnnotInv`, `NotesKept` |
| `ChatInvariance`, `SteersArrive` | `ChatInv`, `WordsArrive` |
| `InterfacesInvariance` | `InterfacesInv` |
| `LiveProofs`: `AgentInvariance`, `ServedAtMostOnce`, `GoesNeverOverwrite` | `AgentInv`, `ServedOnce`, `GoesDoNotOverwrite` |
| `LiveInvariance`, `DecisionsStay`, `RecoveriesWait` | `LiveInv`, `DecisionsAreFinal`, `RecoveryNeverInterrupts` |
| `EditsInvariance`, `EditsAreSettled` | `CopyInv`, `EditsSettle` |
| `VariantProofs`: `CapturesLeaveNoTrace` | `CapturesEndWell` |
| `PreviewTypeCorrect` | `PreviewTypeOK` |
| `PreviewInvariance`, `NothingIsStranded`, `AcceptsAreShown` | `PreviewInv`, `NeverStranded`, `AcceptsWhatIsShown` |
| `TuneInvariance`, `TunesStayAsShown` | `TuneInv`, `TunesAsShown` |
| `GenerationsInvariance` | `GenerationsInv` |

All are laid out alike: a lemma for what an edit of a record or a set does to its
fields, a lemma for each action (or each conjunct), one step per action, and a
temporal step at the end. What makes each invariant inductive:

*Token service.* `TypeOK` is not inductive by itself: a suspended request uses
ids it obtained earlier, and that these are ids follows from what each await may
rely on. `IndInv` adds

- `IdsInv`: tokens belong to one session, only minted ones were ever current;
- `FlightInv`: what a request holds at each await, in particular that the token
  a `rotate` or `open` is about to store has never been current and is held by
  no other request;
- `SuccInv`: over pairs already answered, published *or* about to be, a token
  has one successor, and a token with a successor is not current. This is what
  `OneSuccessor` needs: the pair a late publisher will store must agree with the
  one an earlier caller got;
- `StaleInv`, `CapInv`, `ScoreInv` for the three other properties;
- `OrderInv`: tokens are minted in the order in which their session comes to hold
  them, so that a successor is later than what it succeeds, and the current token
  later than any that held the session before.

The key lemma is `NoReturn`: no step makes a token current that had been current
before and is not now; it carries `SuccStep`, `StaleStep` and, with
`NoReopenStep`, `ClosedForGood`.

`RefusalsAreOvertaken` is about behaviours in which nothing fails, and needs an
invariant that only they have. `ClaimInv`: the claim of a token is held by one
request at a time and stays in the store while that request has it; a token that was
rotated keeps its claim or its pair; a claim is given back only when the session is
closed. A caller that waits thus finds a claim or a pair, unless its session is
closed, and by `OrderInv` a pair that is no longer current has been followed by a later
one. Neither is true once a key is lost or a call fails: the claim may go while the
rotation is under way.

*Passwords.* `IndInv` is types, what suspended requests hold (`RequestInv`),
`TicketInv` (a ticket that is available or being used has not been used, and one
request uses it) and `GrantInv` (a session that is open *or about to be opened*
was granted, and with no change left it is current or spared).

*Membership.* `MembershipInv` has, for each step a redemption may be broken off at,
what it knows of its invitation and user by then (`RequestsInv`); for the queue,
that attempts and deliveries agree (`QueueInv`); and for the deletion, that a
handler past its first commit runs on a deleted tenant, and that whoever may still
put the tenant back is in `late` (`DeletionInv`).

*Frontend.* `NobodyWaitsInVain`: who waits for a rotation waits for one that is
under way. `SameSession`, `HeldByItsOwn`: a rotation cached under a token answers with
a pair of that token's session, also after other rotations. With them, the pair a
request was refused for is refused by the backend too.

*Console.* `CacheInv`: with no switch under way, none rolled back and no layout rendered
again with another tenant, the entry *and* the request in flight are of the tenant in the
store (`ScopeKept`), and what a request read after an own write holds it, unless an
invalidation had left that request alone (`ReadsHoldWrites`). `MemberInv`: the draft differs from the
member only where its user typed. `FormsInv`: what a form shows, and what its selector
has ticked, is of its attempt unless `strayed`; requests are of mounts that were; the
button is held by the request the component still watches.

*Overlay.* `ScrollInv`: with no frame to come, the place that was noted and the position a
scroll event would go back to are one as far as the page goes. `ToolsInv`: no scan or
count of an earlier switching on is left. `ModesInv`: in each state what the handlers that
leave it take for granted (`Prepared`).

*Imports.* `BoundariesInv`: a baseline is just what a tree that passes breaks, and what it
excuses was excused in the last one that passed; so nothing that was gone comes back. That
two imports which pass one by one do not lead together where one may not is a matter of
ranks and slices (`LayersHoldInv`).

*Waivers, notes, chat.* `WaiversInv`: the helper tells all of the files or none, and the
answer is the one for the page that is there. That the endings of a path are what a waiver
must name, and what the common root adds to them, is then a matter of sequences.
`AnnotInv`: each pin has a number of its own, what the pointer has begun can be ended, and,
until an index has led astray, a note is written at a pin that is there and only that pin may
be without one. `NotesKept` then follows each note over the sequence that shifts when a pin
is removed. `ChatInv`: what was put aside is the message of the steer that is awaited, and a
dictation writes into the row that is there.

*Compositions.* `InterfacesInv` and `GenerationsInv` say of the part that runs what its own
invariant says. A part rests until it is the one that runs, and which one runs stays, so each
step is one of a module whose invariant is inductive.

*Requests and sessions.* `AgentInv` has four conjuncts for each page: nothing is left
of one that is not open (`Rests`), it goes after a request along one way (`OneWay`), acts
on one at a time (`ActsOnOne`), and what it serves was answered for (`ServesWhatItAnswered`).
`LiveInv` is what the page knows of sessions (only of those begun; what it hides is
attended to; no recovery is on its way while something is configured), for the page and for
each page a function of the overlay may lead to.

*Edits of text.* That the dock is unlocked, and counts what is staged, once all is quiet is
decided by whatever comes last, so `CopyInv` follows what is still to come. A lock
of an apply has an answer or a message to come that ends it, and a message that locks the
dock is followed by one that unlocks it (`LockedUntilTheEnd`, `LocksEnd`); the last
message on its way that has a count has the right one, or makes the page ask
(`LastCountIsRight`); with none on its way, the dock shows what is staged, or the
page is about to ask (`ShownIsRight`). All of it up to a message that was missed or
an answer that was overtaken, which `EditsSettle` leaves out too (section 4).

*Captures, previews.* `CaptureInv`: a construction under way counts like a loader
that is there, a request owed has a capture on its way to the post, and what a capture
did to the page has that capture. The types of a preview hold through the races: a task
that resumes after its session names a session, a target and a variant that there were
(`PreviewTypeOK`). `PreviewInv`, until a race is met: the wrapper in the document is that of the preview, and
an instance in it is the one the preview has recorded (`PreviewInPlace`); a preview is
mounted only for the session of the page in a state that shows it (`PreviewAttended`);
nothing is kept of sessions that published nothing (`OnlyPublished`); a session without
tasks has something to show or to wait for (`NothingStranded`). The end of an instance is
awaited by one task at most, and a new instance has a tag of its own by the pigeonhole
principle.

*Parameters.* That the page shows the mirror is not inductive: a knob that is moved, or
an element that is refreshed, keeps it so only because of what was there before.
`TuneInv` adds, until the values come apart from what is on the page (`outdated`): an
element has values of declared knobs only, in markup those with steps, so that the
defaults of a refresh cover all of them (`AttrsDeclared`); an open panel has the knobs of
the mirror and moves them on the element that is shown, or nothing is on that element
(`PanelFits`); a page outside a session has nothing tuned (`Bare`); the accept is the
mirror (`MirrorInv`). While a selection is awaited, the mirror is of the variant
that was left, and only `PanelFits` holds until the mount refreshes it
(`SelectionMountsKeeps`). `ChipInv` follows the phase, not the chip: knobs still awaited,
of a generation that is done, have an answer or a message to come.

*Only model-checked:*

- `RequestsEnd`, `NavigationSettles`, `CallsSettle`: liveness, which is out of the
  prover's reach; `NoRequestForgotten`, the rest of
  `RequestsAreServed` beside `ServedOnce`, uses ENABLED, likewise.
- `GenerationNoticed`, `ReloadsStop` (the rest of `SessionsConclude`, whose
  `DecisionsAreFinal` is proved): the first needs, for each way a page takes a session up
  again, which reads remain or are to come, the second a count of the reloads each
  session has left. Neither is written out as an inductive invariant. The first was also
  searched, without a counterexample though not to the end, on instances with one more
  session or two more events.

## 6. Not modelled

- *Parts with state of their own, rows 11 to 14 of the plan:* the rate limiter (it
  needs a clock), the unit of work, registration and onboarding of tenants with their
  limits, the Google key cache.
- *Within modelled parts:* the listing, e-mail and limits of invitations; the
  lookups behind the response of a login; browsers with two tabs logged in as
  different people, and pages a browser restores from its history. Of the overlay:
  dry runs and failing calls of a request; JSX sources and insertions of a session;
  geometry, drawing and focus; checkpoints; horizontal scrolling; pixels and fonts of a
  capture; what the design panel draws; globs that split a name. Of the check of the
  imports: how imports are found in a syntax tree.
- *External, modelled from how the code uses it:* RabbitMQ, Valkey's expiry and
  eviction, TanStack Query, and around the overlay its helper, the agent, the
  detector, the framework of the page and the development server.
- *Left out:* token signing (pure), buses, roles, profiles, API keys, assets,
  email, middlewares, static data, presentation components and tooling: they
  keep no state whose interleaving matters, or only do I/O.
