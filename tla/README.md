# HomeGate in TLA+

HomeGate is a portal for a home server: people sign up with an invite, subscribe to
services, and reach them through a forward-auth proxy. This directory models the parts of
its server (`src/server/src`) where several handlers, scheduled tasks and an unreliable
vendor work on the same rows, and the pages of its client (`src/client/src`) that keep a copy
of those rows while requests overlap.

The server is one Node process over PostgreSQL. A handler runs without interruption from one
`await` to the next, and anything may run in between. There are no database transactions
around the handlers described here. So the grain of the server models is the same: **one action
is the code between two awaits of one handler**, and handlers interleave at the awaits. The
grain of the page models is one event: a click, a handler at the server, an answer.

## 1. The system

| Component | State | Operations | Talks to |
|---|---|---|---|
| Invites and sign-up (`invite.service`, `auth.service`, `invite.repository`) | `invites`, `users`, `user_oauth_identities`; the token in the visitor's session | createToken, updateInvite, deleteInvite, validateToken, claimToken; join, the OAuth callback | emits `INVITE_CLAIMED` to account linking |
| Subscriptions (`subscriptions.service`, `subscriptionLifecycle.service`, managed provisioner) | `subscriptions`, `external_user_accounts`; accounts at the vendor | subscribe, delete, setDisabledStatus, renew, setAutoRenew, retryFailedOperation, addAccount, deleteAccount; tasks: processSubscriptions, syncIntegrationAccounts, cleanupStaleLocalAccounts | vendor (HTTP), cascade, emits `SUBSCRIPTION_CHANGED` |
| Invite account linking (`inviteAccountLinking.service`) | subscriptions and links of the accounts that an invite names | the `INVITE_CLAIMED` listener | vendor, subscriptions |
| Vendor integrations (`jellyfin.integration`, `immich.integration`) | accounts at the vendor | create, get, list, enable, disable, delete | Jellyfin, Immich |
| Cascade (`core/subscriptions/subscriptionCascade.service`) | rows with `derivedFromSubscriptionId` | onActivated, onDeactivated, onReactivated, onExpiryChanged, onReferencedServiceCreated, resolveEffectiveEntitlement | called by the subscription handlers after they wrote the source row |
| Forward authentication (`forwardAuth.service`) | in-memory cache of verdicts, five minutes | isAuthorized, handleInvalidation | reads policy, row and source; listens to two events |
| Policies and users (`user.controller`, `user.service`, `serviceAccess.service`) | `user_service_policies`, `users` | setPolicy (DENY cancels, ALLOW may activate), disable, promote and delete a user | calls the subscription handlers, emits `SERVICE_POLICY_CHANGED` |
| Sessions (`session.service`, `prismaSession.store`, `auth.guard`) | `sessions` | sign-in with a limit per user, get/set/touch/destroy of the store, revoke, purge | auth guard |
| Service management (`serviceManagement.service`) | `services` | create, update field by field, switch, delete | cascade, caches |
| Scheduler (`scheduler.service`, `tasks.service`, `config.service`) | settings of all tasks in one JSON row, cron jobs in memory | startAll, stopAll, updateTask, start, stop, runNow | runs the tasks |
| Image library (`imageLibrary.service`) | a directory of files and a marker | initialize, upload, list, remove | services that show an image |
| Logging (`logger.provider`, `log.service`) | `log_entries` | write, list by page, purge | the page of logs |
| Client (`src/client/src/views`) | copies of rows, drafts, dialogs, busy flags | loads, actions, patches after an answer | the server |
| OAuth providers, dashboard summary, HTTP layer | single rows, or none | create/read/update/delete, presentation | |

What makes them hard, and what correctness means there:

- *Invites.* Validation, user creation and claim are separate awaits, and admins edit, revoke,
  supersede and delete meanwhile. An invite is spent once, by the account that its audit
  columns name; a revocation before the claim wins; a stale write never clears a mark; the
  lock-out after wrong recipients takes effect.
- *Subscriptions.* A row is read, the vendor is called, and the row is written by
  `(userId, serviceId)`. Two requests, a request and a task, and two runs of one task overlap
  (`runNow` works outside the cron job). Awaits reject, the vendor does not answer, the server
  restarts. A row never ends in a status without a way out; overlapping renewals do not
  compound; nothing overdue stays active; the sync task converges.
- *Accounts.* A cap is checked, then an account is created at the vendor, then it is linked; a
  disabling works through several accounts and may be refused at any of them. The cap is
  overshot by no more than what is in flight, no live account is without an owner, a disabled
  subscription has no live account, an account never changes hands.
- *Cascade and services.* The source row and the derived row are written one after the other, and
  services are created and deleted while users sign up. The derived row follows the status of its
  source and is gone with it; every active user has one for every service that is on.
- *Forward authentication.* Three reads and a cache, while policy, row and source change, with
  or without an event. A grant never outlives its conditions by more than an entry lives.
- *Sessions.* A request stores its session at its end, whatever happened meanwhile. The limit is
  overshot by no more than what is in flight, and no session outlives a user deleted for good.
- *Scheduler, images.* One JSON value and one directory under concurrent updates and restarts.
- *Pages.* A page is loaded once and then patched. Requests overlap, fail, succeed with a lost
  answer, and are answered in any order. At rest the page shows what is stored.

`PROJECT.json` lists the hazards at the line where they bite.

## 2. The modules

| Module | What it is |
|---|---|
| `InviteRedemption` | invites, sign-ups (`attempt`) and admin requests (`op`), one action per await |
| `InviteLedger` | the abstract promise: an invite has at most one winner, for ever |
| `SubscriptionLifecycle` | one user, one MANAGED service: row, vendor accounts, handlers and tasks |
| `SubscriptionCascade` | a source row and a derived row (REFERENCED service) under the same handlers, policy and events |
| `ForwardAuthCache` | extends `SubscriptionCascade` with the cache and the evaluations |
| `LinkedAccounts` | several users and the several accounts of each subscription at one vendor |
| `Sessions` | sign-in, the session store, the guard, revocation and the deletion of users |
| `ServiceCatalog` | which derived rows there are, while services and subscriptions come and go |
| `TaskScheduler` | stored settings and the cron jobs that follow them |
| `ImageLibrary` | the directory of images, its seeding, and the services that show them |
| `UsersPage`, `AccessEditor`, `LogsPage`, `InvitesPage`, `ServicesPage`, `SubscriptionsPage` | the administrator's pages, each with the handlers behind it in one step |
| `OwnSubscriptions` | the page on which users manage their own subscriptions |
| `*Proofs` | the proofs about the module they are named after; `InviteRedemptionProofs` with the refinement of `InviteLedger`, `SubscriptionCascadeProofs` also about `MCCascadeParts`, `AdministrationProofs` for `TaskScheduler`, `ServiceCatalog` and `ImageLibrary`, `DashboardProofs` for all the pages, alone and joined as in `MCAdministration` and `MCDashboard` |
| `MC*` | model values, bounds and symmetry sets for TLC |

`MCAdministration` and `MCDashboard` join several modules that share no state in one run; a
variable `part` says which one moves while the others rest in an initial state. Nothing is
composed by this: it is several models in one state graph. `MCCascadeParts` explores one module
in two ways, and `part` says which operations are allowed.

How to read them against the code:

- **InviteRedemption.** `row[i]`/`invite[i]` are the table; `user[a]` is the row that attempt `a`
  created (one attempt creates at most one user, so the attempt serves as its id). `Join` is
  `beginSignUp`; `Callback` is the redirect handler with the read of `validateToken`;
  `CountMismatch`, `AutoRevoke`, `CheckExisting`, `CreateUser`, `LinkIdentity` and `Claim` are
  the awaits that follow in `completeSignUp`. `CreateToken` … `InsertInvite` are `createToken`;
  `ReadForUpdate`, `WriteUpdate` are `updateInvite`. `Claim` has the where clause of `claim`.
- **SubscriptionLifecycle.** `proc[p]` holds the program counter and the locals of one handler:
  the id of the row it read, the account it works on, the status it works towards, the expiry
  it computed and, for the tasks, the vendor's listing. `kind` tells the handlers apart where
  they share code (`Settle`, `Deprovision`, `DisableAccount`…). `RowAfterThrow` is the catch
  block of each handler. Rows carry ids although they are written by `(userId, serviceId)`,
  so that a write to a *newer* row shows. `vendor[a]` is `free`, `on`, `off` or `gone`; a
  vendor that does not answer is the failure `"unseen"` (`Probes`).
- **SubscriptionCascade.** `row["source"]` and `row["derived"]`; a derived row stores the `id` of
  the source it derives from, as `derivedFromSubscriptionId` does. `Propagated` is what a
  cascade step writes. `pending` stands for the events emitted and not yet delivered; several
  are merged, since the listener's effect is the same.
- **ForwardAuthCache.** `cache` is the entry of this user and service, `req[r]` an evaluation that
  is under way. `held` is a history variable that no action reads: the last time each of the
  three conditions of access was met.
- **LinkedAccounts.** `task[p]` is one handler: the row it works on, the accounts of its context that
  are `left` to do and those that are done. `vendor[x]` is the account as Jellyfin or Immich keeps
  it, where Immich's deletion is soft at first (`Purging`). `Create` is `provision`, `Link` the row in
  `external_user_accounts`; `Round` is one turn of a provisioner's loop. `InviteRead` and `ClaimRow`
  are the listener. A refusal, or an answer that is lost after the vendor has acted, is a
  failure (`Failures`).
- **Sessions.** `Arrive` is the store's `get`, `Guard` the auth guard, `Serve` the handlers, `Store` the
  `set` or `touch` at the end of the request, which finds, then creates or updates. `Enforce` and
  `Evict` are `enforceLimitForUser`.
- **ServiceCatalog.** A handler holds the list it loops over (`left`), as the code does. What a
  derived row holds is in `SubscriptionCascade`; here it exists or not.
- **TaskScheduler.** `stored` is the JSON value, `job[t]` the cron job. `UpdateRead`, `UpdateSet` and
  `Apply` are the awaits of `updateTask`.
- **ImageLibrary.** `mutations` is the chain of promises of `exclusive()`. `Stop` may come between any two
  file operations.
- **Pages.** Each has the rows at the server, the rows of the page, the dialogs and flags that decide
  what may be pressed, and a set of requests with the value they carry. An answer may be an error
  although the handler succeeded. Every page has one history variable (`crossed`, `tangled`,
  `mixed`, `moved`, `unclear`, `strayed`, `astray`) that no action of the code reads: it names the
  situations in which the page does show something stale, and the property excepts exactly these.

Each value has a cap that is a CONSTANT: `MaxTime` (clock), `MaxExpiry` (admins stop
renewing), `MaxMismatches` (counter), `Rows`, `Accounts`, `Invites`, `Sids`, `MaxRows`, `MaxEntries`
(ids, which are never reused), `MaxLimit` (of sessions), `MaxCap` (accounts that are typed),
`MaxPeriods` (renewals), `MaxSent` (requests of a page). `Ops`, `Doing` and `Failures` choose what a
configuration explores.

## 3. The runs

Passing runs:

| Run | Question | Bounds, and why they suffice |
|---|---|---|
| `InviteRace` | Do two sign-ups, an admin, deletions and failing awaits ever spend an invite twice, misname its user, redeem it after a revocation, clear a mark, or leave the ledger? | 1 invite, 2 attempts, 1 admin request, 2 emails, limit 2, 3 instants. The properties speak of one invite and of pairs of attempts; three instants tell valid, expiring now and expired apart. |
| `InviteLiveness` | Does the lock-out take effect? | the same with failures off and fairness, two instants; counts up to 4, two beyond the limit of 2 |
| `SubRequests` | Can two requests of any kind, with failing awaits and an unreachable vendor, leave a row in a dead end? Do overlapping task runs, retries, admin renewals and toggles of auto-renewal compound a renewal? | 2 handlers, 2 accounts, 2 row ids (so a row can be replaced under a handler), 3 instants. `RequestsBeforeTasks` (an action constraint) explores requests with failing awaits in the first instant and then, from whatever they leave behind with one row id and one account to spare, the tasks beside sign-ups, policies and renewals with awaits that settle |
| `SubConverge` | After races, restarts and drift at the vendor, does the sync converge, and is an overdue row always settled? | 2 processes, 2 accounts, 1 row id, 2 instants |
| `CascadeRaces` | Does a derived row ever name a source that is gone, however two handlers and restarts interleave? Does it mirror its source after every sequence of requests? | part `races`: 2 handlers, 2 row ids, one instant, as the property is not about time; part `serial`: 1 handler, 4 instants, period 2, so that renewals, clamps and both expiries happen, without restarts, which `Mirrors` does not survive. Swapping the two handlers stays a symmetry: in `serial` only `p1` ever leaves `idle`, so no two states that are reached there differ by it |
| `AuthGrants` | Does a cached grant outlive its conditions? | 1 handler, 1 evaluation, TTL 1, period 2, 3 instants: an entry lives, expires and is renewed within them |
| `AccountPool` | Is the cap kept up to what is in flight, is every live account somebody's, every account of a disabled subscription off, the last one kept, and none passed on? | 2 handlers; 2 users, one of whom only claims an invite; 3 accounts, one of them there before; 2 row ids, cap 2, both vendors. `Overlapping` names the pairs of operations of one user that may overlap; all others of one user run one after the other |
| `Sessions` | Do sessions exceed the limit, or outlive their user? | 2 requests, an administrator and a user, 3 session ids, limit 1: a third session is one more than limit and one login in flight allow. Once an eviction has failed, which the limit does not survive, the requests in flight end and none begins (`EnforcedOrEnding`) |
| `Administration` | Does every active user have the rows of every service that is on? Do jobs follow the stored settings? Is the library bounded, and does it keep what is shown and lose what was deleted? | parts `mirrors` and `flags`: 2 handlers, 2 users, 1 referenced service, 4 row ids, with the flag of a service only in the second; `tasks`: 2 updates of 2 tasks; `images`: 2 requests, 3 names, at most 2 images, 2 services |
| `Dashboard` | Does each page at rest show what is stored, does each form agree with the server, and does saving a cap leave access alone? | 2 requests in flight on every page; see below |

Parts of `Dashboard`: `users` and `editor` have 2 users; `logs` 5 entries in pages of 2, both orders,
and one of the two levels as a filter; `invites` 2 ids, one of them pending at first, one e-mail, no
rights in drafts, and 2 requests; `services` 2 services, 3 slugs and 2 requests; `subscriptions` a
source and a derived row, and 2 requests; `own` a subscription with accounts (cap 2), one without,
one derived row, and 3 requests, since the third is what a stale reload misses. Five entries and not four, since
a page of two that is followed by two more leaves room for the entry between them that nobody asked
for: with four, a stronger `PagesJoin` seemed to hold. The number of
requests is bounded by `MaxSent`. Once a history variable excuses all that a page shows, nothing
new is started there: what follows is excused too. The properties relate one row of the page to
one row of the server, so that a second row, for the flags and dialogs that rows share, suffices.

`CHECK_DEADLOCK FALSE` appears everywhere because a state in which the clock has reached its
bound, the ids are used up and nobody is in flight is an ordinary end of a bounded model.

Runs that TLC must refute. Each states what a document, a comment or a test of the
repository says; `PROJECT.json` quotes it:

| Run | Property | Counterexample |
|---|---|---|
| `SubRetryDeletes` | `RetryDeletesOnlyCancelled` | a failed *disable* is recorded as a failed cancellation; the retry deletes account and row |
| `SubsPageDeny` | `DenyIsAdded` | the box "Also add a persistent DENY policy" is offered for REFERENCED subscriptions only, whose cancellation the server refuses, and the policy is set after the cancellation: never |

The following disagreements came up as well. They have configurations that are not in the
run list; `tlc -config <Config>.cfg <MC module>.tla` shows the counterexample.

| Config (module) | Property | Said at | Code |
|---|---|---|---|
| `InviteUsedRevoked` (MCInviteRedemption) | `UsedNeverRevoked` | `server/docs/invites.md:87-88` | `invite.service.ts:194` writes by id what it read before |
| the same with this property | `NoPathBackToPending` | `server/docs/invites.md:69-70` | an expired invite's expiry may be moved |
| the same with this property and `Attempts = {a1, a2}` | `RedeemedByBoundEmail` | `server/docs/invites.md:129-130` | `claim` does not compare the email again |
| `InvitePerEmail` | `OnePendingPerEmail` | `server/docs/invites.md:146` | `invite.service.ts:181` re-binds without superseding |
| `InviteReusable` | `FailedSignUpLeavesInviteReusable` | `server/docs/invites.md:64` | the user row of the failed sign-up bars the next one |
| `InviteReusable` with this property and `Faults = FALSE` | `AccountsComeFromInvites` | `server/docs/auth-session.md:19-20` | an account stays when its invite is revoked between `createUser` and `claimToken` |
| `SubRenewLost` (MCSubscriptionLifecycle) | `AutoRenewExtends` | `subscriptionLifecycle.service.ts:98` | the run renews from its snapshot |
| `SubOutageCancel` with `Ops = {"subscribe", "disable", "process"}` and `Failures = {}` | `DisabledUntilEnabled` | `subscriptions.service.spec.ts:202` | `expired` is written over `disabled` |
| `SubCleanupRace` | `CleanupSparesActive` | `subscriptionLifecycle.service.ts:240` | the status is tested in a snapshot |
| `SubSyncRace` | `SyncDeletesOnlyOrphans` | `server/docs/scheduler.md:192` | the sync deletes what a sign-up linked between its two reads |
| `SubCrash` | `ProvisioningCanBeRetried` | `subscriptionLifecycle.service.ts:432` | a restart leaves a row in `provisioning`, which no request accepts |
| `SubOutageCancel` | `DeprovisionedBeforeRemoved` | `subscriptionLifecycle.service.ts:469` | an unreachable vendor looks like a missing account |
| `SubOutageCancel` with `Ops = {"subscribe", "disable", "enable"}` | `PrunesOnlyVanished` | `subscriptions.service.ts:690` | the same |
| `SubCrash` with `Failures = {"await"}` | `NoDuplicateAccount` | `managedAccount.provisioner.ts:121` | two retried sign-ups both find nothing to reuse |
| `CascadeOutlives` (MCSubscriptionCascade) | `ClampedOnceExpired` | `subscriptionCascade.service.ts:199` | expiry of the source clamps nothing |
| `CascadeLateStep` | `RestoredWithSource` | `subscriptionCascade.service.ts:180` | a late cascade step overwrites a newer one |
| `AuthLateStore` (MCForwardAuthCache) | `DenialTakesEffect` | `forwardAuth.service.spec.ts:147` | a verdict from before the invalidation is stored after it |
| `SessionProvider` (MCSessions) | `ProviderSessionsGone` | the log line of `oauthProviderManagement.service.ts` | the provider of a session is never stored, so none is deleted |

`InvitesPage` states two more that its code does not keep and no document promises: `SavedAsShown`
(the rights of a duplicate and an e-mail that was cleared are not sent) and `LinksAreKept` (a
duplicate supersedes the invite it was made from, and nobody sees its link).

Each property of a passing run has a mutant: an operator that stands beside the translated
one and changes it the way a plausible mistake would (a forgotten condition of a where
clause, an off-by-one at a limit, a catch block that only rethrows, a patch of the wrong row). Put
in the place of the original it makes TLC find the property violated.

Most modules have a type invariant that no listed run checks (`CascadeTypeOK`, `AccountsTypeOK`,
`SessionTypeOK`, and those that `DashboardTypeOK` joins): it says nothing beyond types, and is a
theorem (section 5).

## 4. Fairness

Safety runs use the plain `Spec`. The liveness runs assume:

- `WF` on the steps of a started handler: Node resumes every await that settles. Nothing is
  assumed of the visitors' and admins' own actions (`Join`, `Callback`, requests), of the
  clock, of failures or of restarts. `LockoutTakesEffect` is checked with failures off,
  because a rejected write of the lock-out is not repeated by the code.
- `SF` on the start of `processSubscriptions` and of the sync: cron starts them again and
  again. In the server they do not wait for requests, in the model they share the processes
  `Procs` with them; a process is free infinitely often, which is why the fairness is strong.

`ExpiryEnforced` is conditional on restarts coming to an end and `SyncConverges` on restarts,
drift and overlapping requests coming to an end: a server that is stopped in every run
before it writes promises nothing.

## 5. The proofs

All theorems hold for any number of invites, attempts, handlers, rows, accounts and
requests, any clock and any bound, under the named assumptions on the constants
(`InviteConstants`, `LifecycleConstants`, `CascadeConstants`, `PartsConstants`, `CacheConstants`,
`AccountsConstants`, `SessionConstants`, `SchedulerConstants`, `CatalogConstants`, `LibraryConstants`,
and one for each page: `UsersPageConstants`, `AccessEditorConstants`, `LogsPageConstants`,
`InvitesPageConstants`, `ServicesPageConstants`, `SubscriptionsPageConstants`,
`OwnSubscriptionsConstants`), which only type them, keep `None` and its like apart from the ids, keep
derived and own rows apart, and call finite what is counted.
`AccountsConstants` wants a cap of at least one, which the server demands of a policy
(`@Min(1)` in `userServicePolicyDto.ts`).

- **Invites.** `IndInv` is the types, `LocalsInv` (a handler past its first await names an
  invite), `SpentInv` (the invite of a finished sign-up is marked used, or its row is
  deleted), `SingleRedemption` and `RedemptionRecorded`. `SingleRedemption` alone is not
  inductive: a second claim is excluded only because the first one's mark is still there, or
  the row is deleted and its id never comes back. From it follow `NoDoubleSpend`, `RedemptionIsRecorded`, `RevocationWins` and, step
  by step under the mapping `winners <- Winners`, `ImplementsLedger`. `AccountsAreProfiles` needs `ProfileInv`: where the e-mail bound to the invite
  replaces that of the profile, the two are equal, since the callback compared them. `MarksStay`
  needs `BlankInv`: a row that does not exist carries no mark, so inserting one clears none.
- **Subscriptions.** `IndInv` joins the types, `Locals` (which kinds of handler may be at which
  program counter, and what their locals then hold), `RenewsOverdue` (the snapshot of a task
  lies in the past), `NoneHasNoStatus`, `FailedNamesOperation` and, without crashes, `Owned`: a
  transitional status has a handler in flight that will replace it. `Owned` is what makes
  `NoDeadEnd` true although any handler may overwrite any status. `RenewalsCapped` follows
  from `RenewsOverdue`.
- **Cascade.** `IndInv` is the types, `Locals`, `Named` and `NoOrphan`; theorem `DerivedGoesWithSource`.
  The race it settles: a cascade step that writes a derived row after its source was deleted
  is rejected by the foreign key. `SerialMirrors` speaks of one handler at a time
  (`PartsConstants`: there is such a process, `p1`), and is not inductive, because between the write of
  the source and the end of its cascade the two rows differ. `SerialInv` therefore says at which
  station a handler of each kind may be (`Path`), when a cascade is pending (`Midway`), that the
  handler then carries over just the status the source has by now and has seen the derived row if
  there is one (`Held`), and, for `processSubscriptions`, that what is left of its snapshot is each
  row at most once, and that a derived row still in it has run out and mirrors its source until its
  turn comes (`Snapshot`). So a derived row that the task expires on its own, its source having been
  renewed, had run out (`MirroredOrOut`). A step of `PartsNext` is one of `CascadeNext`, so that `IndInv` is
  at hand. The proof found two alternatives of a `CASE` in `Propagated` that overlapped, where TLC took
  the first and the logic takes either; they are disjoint now.
- **Forward authentication.** `AuthInv` adds to the cascade's invariant `History` (no condition was
  last met in the future), `InFlight` (what an evaluation has read was true at or after it
  began) and `Earned` (so was what the cached grant rests on). `GrantsStayRecent` is then
  arithmetic on the clock. Its proof needs no bound on how long an evaluation takes: the
  property accounts for it.

- **Linked accounts.** `Basics` is the types, where a handler may be and with which locals (`Placed`),
  `Rows`, `Minted` (a free account is linked to nobody and at hand nowhere) and `Solo` (two handlers of
  one user have made the user tangled). `NeverChangesHands` follows from it by `HandlerFrame`, which
  says what a handler of one user cannot touch. `LastAccountKept` needs `Spare`: while an account is being
  deleted, its user keeps another. `CapOvershootBounded` counts requests that hold the id of the row; it is
  not inductive, because the listener links without looking at the cap. `CapInv` counts it among
  the handlers that may still add an account (`Growing`), which works since the row that a
  listener has created starts without accounts. `DisabledIsOff` and `NoStrayAccount` are proved
  together (`Orderly`). Both promise nothing once two operations of one user have overlapped; until
  then `Works` says for each station of a handler what it relies on, for instance that every linked
  account is off already or still ahead of its loop. Every step keeps this for its own user
  (`HandlerLeaves`) and disturbs nobody else (`SwitchesOnItsOwn`, `WorksStays`). An attempt to excuse
  only the user whose *own* operations overlapped failed, and TLC showed why: an account that its
  user unlinked while a retried sign-up held it may be claimed by another user through an invite and
  be disabled, and the sign-up then switches it on again.
- **Sessions.** `SessionInv` is the types, `limit <= most`, `Order` (creation orders the sessions of
  one user totally), `LocalOK` (who is a login), `SessionsHaveUsers` and `Room`. `SessionLimit` is
  not inductive, because the slots it grants are not where the code spends them: a login that
  is still deleting will need one for its own session, whatever others store meanwhile, and a
  request may revive the expired session it came with. `Room` counts the sessions that
  work or may be revived, and says for *every set* `Q` of logins that are evicting: with the
  sessions they are about to delete taken away and `Q` added, the bound still holds. `Q` is what lets
  an eviction hand over its slot in its last step (`EvictKeeps`); `RoomMade` counts the requests
  after an eviction, `EvictionMakesRoom` the sessions that it spares, by their rank in `Order`.
- **Tasks.** `SchedulerInv` says what holds before the rest that `JobsFollowSettings` speaks of: while the
  server is down or booting, and (`Alone`) between the awaits of an update that no other overlaps,
  where only the job of its own task lags behind. `SchedulerConstants` adds that no cron
  expression is the mark of a missing one.
- **Catalog.** `CatalogInv` says of a row that is wanted and missing that some handler still has the
  pair before it (`Covers`), at whichever of its awaits it stands.
- **Images.** `LibraryInv` says that a request at work is the head of the chain, hence alone
  (`HeadAlone`), so that what it found when it looked (room for one more image; nobody shows
  this one) still holds when it acts. The three properties follow together.
- **Joined.** A step of `MCAdministration` is a step of one part and a stutter of the others
  (`PartsAreSteps`), so each part's theorems hold of the model that the run checks. `DashboardFollows`
  and `DashboardTypesKept` say the same of the pages.

The pages, in `DashboardProofs`. The pattern is the same for all: what the page shows differs from what
is stored only by requests that were carried out and not yet answered, and the history variable is
set as soon as it might differ by more.

- **Users.** `UserInv` says of a row without a crossed action: at most one request works on it, whose
  row is the one shown, and the stored user is that row, before or after the action
  (`RowSettles`). The counters are not compared with the users but with the rows that are shown
  (`CountersInv`), since each answer moves the row and the counters together; that the list is at rest
  then makes them the stored ones. One answer moves one user from one of the sets `Having` to another.
- **Policies.** `ShownInv`: one load at a time, for the user who is selected, or one save, whose value is
  stored once it was answered. `CapInv`: while the limit is on its way nobody's effect changes.
- **Invites.** `ListInv` follows the load that was issued last: what it read, or has shown, is the table,
  or a change was answered that will ask for the list again (`ReloadDue`).
- **Subscriptions.** `RowInv`: at most one request works on a row; once the server has carried it out, the
  patch that its answer will make turns the row that is shown into the stored one.
- **A user's own page.** `CardInv`: a card shows the stored row, or an answer will patch it
  (`PatchedSoon`), or it is about to leave the page with its source (`LeavesSoon`); what a reload
  has read is what is stored.
- **Services.** Rows are found by slug, so `UnderWay` also needs that slugs differ in the table and on the
  page, that requests in flight name different services and that none beside another renames;
  `RowFollows` says how far the server's field-by-field update has come. The proof did not go through
  at first: one `pendingName` serves all rows, so the same service can be saved twice at once, and
  `unclear` now counts that.
- **Logs.** The page is a sequence cut from an order by offsets. The invariants speak of the *rank* of
  an entry in that order: without purges and new entries the page holds the ranks `1..n`
  (`Numbered`); newest first, whatever was written meanwhile only shifts them, so what is
  shown leaves no gap behind its first entry (`Closed`) and reaches at least as far back as the next
  offset says (`Deep`). That the next page starts no later than where this one ends is counting
  (`FS_Surjection`, `FS_Subset`). Here too a proof that failed was a finding: with five entries, two
  later pages may lie on either side of entries written between their reads, so newest first
  `PagesJoin` now promises no gap only from the first entry of the page back, not among newer ones.

Only model-checked: the liveness properties `LockoutTakesEffect`, `SyncConverges` and
`ExpiryEnforced`; liveness under fairness is out of the prover's reach. Every safety property of a
passing run is a theorem.

## 6. What is left out

- *Abstracted.* Names, texts, passwords and payloads. Whether a user name is free at the vendor (a
  sign-up names one that is). Expiries that are null: every writer stores a date. In the
  cascade the policy of the source service is assumed to allow. On the pages: the columns that no
  action changes, sorting and the choice of columns; what other people change during a visit; a
  hook's state after the page was left.
- *Restricted.* `LinkedAccounts` follows one service and ignores expiry; `SubscriptionLifecycle` has
  one user and takes the first linked account for all. `Sessions` leaves out anonymous sessions.
  The pages take a handler of the server as one step (two where its awaits show, as in
  `ServicesPage`), since its parts are in the server's modules.
- *Not modelled.* The reset of a password, which changes no row; the profile of a user; creation
  and secrets of OAuth providers; the pages of tasks, images, providers, sessions and settings, which
  repeat the load-and-patch of the pages that are modelled; the dashboard summary, the HTTP layer
  and generated types. `PROJECT.json` gives the reason for each. `revokeToken` has no caller.

## 7. Plan

1. An abstract entitlement that `ForwardAuthCache` implements, and one for the cap of `LinkedAccounts`.
2. The pages of tasks and images, composed with `TaskScheduler` and `ImageLibrary`.
