# TrustVault in TLA+

A verification development for the TrustVault repository: TLA+ modules of its
stateful parts, TLC configurations that check them on small instances, and
theorems with proofs checked by TLAPS. Paths are relative to `src/`.

## 1. Inventory

TrustVault turns raw security events into scored and labelled alerts, lets
analysts and playbooks act on them, and records what was done.

```
rau_events --> AI orchestrator --> pipeline topic        (Kafka transactions)
           scoring/labelling --> alert emitter --> alerts table, topic alerts
alerts --> token revoker --> Redis blacklist, sessions, token_revocations
IAM service: signing keys, validation, authorization, MFA, sessions, roles
SOAR service: playbook engine, actions --> audit records on Kafka
ledger service --> Hyperledger Fabric chaincode
API gateway --> all services        dashboard <-- API gateway, live socket
```

| Component | State it keeps | Operations | What makes it hard | What makes it correct |
|---|---|---|---|---|
| AI orchestrator, `ai_service/kafka_orchestrator.py` | queue, pause flag, producer transaction, group offset | `consume_loop`, `process_loop`, `process_kafka_message`, `shutdown` | two tasks and a broker, retries, lost answers, fencing, restart | one output per record, output and offset together, nothing skipped silently, bounded queue |
| Alert emitter, `ai_service/app/alert_emitter.py` | row in `alerts`, producer transaction, `alerts_dlq` | `init`, `emit`, `_send_dlq` | calls share one producer and yield at each await; two stores, compensation | row and published alert agree; a dead letter is not also published; the transaction closes unless a cancelled INSERT or a raising abort leaves it |
| Token revocation, `iam-service/cmd/token-revoker`, `routes/sessions.ts`, `validateJwt` | Redis blacklist, `sessions`, `revoked_alerts`, `token_revocations`, group offset | `deleteSession`, `ConsumeClaim`, `process`, `revokeToken` | Redis is outside the Postgres transaction; redelivery, overlap, expiry | a revoked session's token is refused, and stays refused unless it outlives its blacklist key; each alert takes effect once |
| Signing keys, `iam-service/src/lib/jwt.ts` | `jwt_keys`, `activeKey`, `keyCache` per process | `rotateKeys`, `fetchActiveKey`, `sign`, `issueJwt` | reads in flight during a rotation, overlapping rotations, other processes' caches | always a key; a retired key runs out |
| Authorization, `iam-service/src/middleware/authz.ts` | one casbin enforcer, verdicts in Redis | `loadPolicies`, `authzMiddleware` | the enforcer is cleared and refilled across awaits by concurrent requests | a token passes only through a role of its own that a row granted, or one another token left linked under an overlap; a refusal has a reason and takes effect |
| MFA, `iam-service/src/routes/mfa.ts` | `mfa_challenges`, a Redis key, the user's secret | `evaluate`, `verify` | check and write are apart; two stores | a required challenge can be met, is not met late, is spent for a token |
| Listings, `iam-service/src/routes/{roles,rules,sessions}.ts` | tables with soft deletes | list | cursors against rows that come and go | no row twice, none missed but at a cursor |
| Role and rule writes, the same files | row and event | create, update, delete | event after the write, overlapping requests | an event is a state the row had |
| SOAR emitter, `soar-service/src/emitters/kafkaEmitter.ts`, `utils/backoff.ts` | promise of the connection, producer | `withAudit`, `emitAction`, `shutdown` | ambiguous commits retried, audit failure taken for action failure | the outcome a caller sees is on record; duplicates need faults |
| SOAR engine, `engine/`, `playbook/mapper.ts`, `index.ts` | results so far | `run-playbook` | a step whose effect outlives its report; a host that falls silent | "success" means done; the run ends |
| SOAR actions, `soar-service/src/actions` | firewall rules and passwords of hosts | `isolateHost`, `resetPassword`, `notify` | the isolating connection cuts itself; actions overlap on a host | success is real; half an isolation is reported |
| Ledger, `ledger-service/` and its chaincode | Fabric gateway singleton, world state | `initGateway`, `logEvent`, `verify`, `LogEvent`, `VerifyHash` | gateway visible before connected; submissions repeated under one transaction | each event taken at most once; answers are honest |
| API gateway, `api-gateway/src` | breaker per route, counters, sockets | proxy, layers, `initSocket` | calls end after the breaker changed; tokens expire between two checks; shutdown; an unhandled rejection ends the process | failures of one upstream stay with its route; each forwarded request is counted unless its client left |
| Feedback, `ai-service/src/routes/feedback.ts` and the modal | row and event | `POST /feedback` | event cannot be sent; answers get lost | who is told of success has a row |
| Dashboard, `ui-dashboard/` | socket, timers, query caches, dialogs | hooks, pages | timers, renders, late, refused and rejected answers, midnight | one socket; the list belongs to what was asked; what was asked comes or has failed |
| Scoring, training, schema, deployment | a bounded list per user; otherwise none the program reads | - | - | - |

`PROJECT.json` lists the hazards, each at the line where it bites, with the
properties that cover it.

## 2. Structure and plan

Every module models one component, so that it can be read beside one or two
source files:

| Group | Modules | Checked through |
|---|---|---|
| stream processing | `Orchestrator`, `EventRelay` (abstract), `OrchestratorProofs`; `AlertEmitter`, `AlertEmitterProofs` | `MCOrchestrator`, `MCAlertEmitter` |
| IAM service | `Revocation`, `RevocationProofs`; `JwtKeys`, `JwtKeysProofs`; `Authz`, `Mfa`, `Pagination`, `RoleEvents`, `IamProofs` | `MCRevocation`, `MCJwtKeys`, `MCAuthz`, `MCIam` |
| response | `SoarAudit`, `Playbook`, `SoarActions`; `Ledger`, `VerifiedLog` (abstract); `ResponseProofs` | `MCResponse` |
| gateway | `GatewayProxy`, `GatewayRequest`, `GatewaySocket`, `GatewayProofs` | `MCGateway` |
| dashboard | `LiveConnection`, `LiveRefresh`, `Feedback`, `Drilldown`, `AuditScroll`, `AnomalyList`, `DashboardData`, `IamConsole`, `DashboardProofs` | `MCDashboard` |

`MCIam`, `MCResponse`, `MCGateway` and `MCDashboard` each check several
components that share no state. A variable `part`, chosen in the initial state,
says whose behaviour this is; the others rest at a state they may begin in. The
reachable states are the sum and not the product of the components' own, each
component has exactly the behaviours of its own `Spec` together with idle
neighbours, and a property of one component is checked on all of them. (An
invariant of a resting component is checked in the states it rests in.)
The invariants of the components in one run are joined under one name,
such as `GatewayInv`; each conjunct keeps a definition and a comment of its own
in the component's module.

What is left to do are compositions: `AlertEmitter` with `Revocation` over the
topic `alerts`, and `JwtKeys` with `Revocation` for the whole life of a token.

No module declares a RECURSIVE operator, so that each can be proved about.

## 3. Modules and how they correspond to the code

An action is a piece of code from one await to the next; a program counter per
call says where it is suspended. Libraries and stores outside the repository
are external, modelled from the calls the code makes. A fault is an error of
such a call; where the code cannot know whether the call took effect, both
outcomes occur.

### Orchestrator

`kafka_orchestrator.py` is one asyncio process with two tasks. `GetOne` is an
iteration of `consume_loop` (getone, put, the watermark tests, the loop test),
`GetOneFails` its silent end when `getone` raises,
`Get` to `Backoff` are the pieces of `process_loop` and
`process_kafka_message`, `pc` says where that is suspended. `ConsumerStart` and
`ProducerStart` keep the order of `main`; `Signal`, `Shutdown` and `Crash` end
the process. The group offset and the transaction coordinator
(`BrokerCommits`, `BrokerRefuses`, `BrokerTimesOut`) are external: a commit
request may be applied and its answer lost, and a fenced producer gets errors.

Data is reduced to what the properties distinguish: a record is its offset and
one of three kinds (an event, JSON that does not parse, a record whose handling
raises something other than `KafkaError`), an output is the offset it stands
for. One partition; several partitions multiply the model without new
interaction, since the queue is one.

Assumptions about the code: the un-awaited `begin_transaction()` is taken as the
synchronous call the code and the test double
(`tests/test_kafka_orchestrator.py:91`) treat it as (what follows with a client
whose `begin_transaction` is a coroutine is in section 4); the settings that
`main` reads exist; the group has a committed offset, so `auto_offset_reset`
plays no part. The Prometheus gauges are left out.

`EventRelay` is what the stage promises: a frontier that moves over the input in
order, each move together with the only output of the record it passes, and
records left out only if they were abandoned before.

### AlertEmitter

`emit` is cut at its awaits: `Begin` up to the INSERT, `Insert` (what the
database does), `Commit`/`CommitRefused`/`CommitFenced` (the blocking produce
and commit after the INSERT returned, which nothing of the same process can
interleave), `Delete` and `SendDlq`. `begin_transaction` raises unless the
producer is ready, `produce` on a producer with a transactional id raises
outside a transaction, and a fenced producer makes every later call raise. That
is why `InsertFails` and the branch of `AfterRefusal` without a DELETE end
without a dead letter: `_send_dlq` runs right after the abort and swallows the
error. Three ends leave a live producer inside its transaction (`pc` is "left"):
`Cancelled`, because `CancelledError` is no `Exception`; `AbortRaises`, an abort
that raises for a live producer; `CommitInDoubt`, a commit that took effect,
whose answer did not come in time and whose abort raises. `TimesOut` is the
coordinator that aborts a transaction nobody ends and fences its producer. A
second process takes the same transactional id over at its `init_transactions`,
as in a rolling restart. Nothing in the repository calls `emit` yet; the
module-level singleton and its async interface are taken to mean that calls may
overlap.

### Revocation

One user's tokens, alerts and DELETE requests. `deleteSession` is three
actions, one per await (`DeleteFinds`, `DeleteBlacklists`, `DeleteUpdates`);
`process` in the revoker is one action per statement, from `Lock` (the advisory
lock, one per user, hence one here) to `Commit`. Writes of an open transaction
are kept in `tx` and applied by `Commit`; the Redis `SET` of `revokeToken`
(`Blacklist`) takes effect at once, since Redis is not part of the transaction.
Any statement may fail (`ProcessFails`: rollback, then the message is marked
nevertheless, as in `ConsumeClaim`); a commit may succeed with its answer lost
(`CommitUnknown`); the process may die or lose its session (`RevokerDies`),
after which an alert whose offset was not committed is delivered again. An
execution that outlives a rebalance overlaps with its successor.

`Accepts` is `validateJwt`. Session rows come from a login that the repository
does not contain. `Life` gives each token a lifetime of its own: 15 minutes or
30 days for the two tokens of `issueJwt`, and 0 for one of `sign`, which has no
`exp` (and is what `mfa.ts:144` issues). Those of `sign` and the refresh tokens
outlive the blacklist keys of 900 seconds and a day (`Outlives`), and a DELETE
after an alert shortens the key of a day to 900 seconds: such a token passes
again the instant its last key runs out, and the properties say that it is the
only one, and the only instant. The 403 of
`deleteSession` is left out: requests are authorized ones. The migration names
the column `jwt_id`, `sessions.ts` says `jti`; the model has one name.

### JwtKeys

`rotateKeys` is `RotateFinds`, `RotateCreates`, `RotateRetires`,
`RotateForgets`; `fetchActiveKey` is `CallBegins` (cache hit, or the read of an
active row) and `CallReads` (the continuation that fills the cache). A rotation
also names the key it creates. `findFirst` has no order, so any active row may
come back. The clock ticks only when no read is more than a tick old, which
bounds the duration of a query. A query of a rotation that fails may have taken
effect (`Answer`) or not (`RotateFails`); either ends the rotation.

### Authz, Mfa, Pagination, RoleEvents

`Authz`: a request is `Begin`, `ReadCache`, `FindPolicies`, `ClearPolicy`,
`AddPolicy`, `AddGroupingPolicy`, `Enforce`, `CheckAbacRules`, `SetCache` or
the `Catch` of the outer try. All of them work on the one enforcer; `casbin`
holds its policies and its links of subjects to roles, which `clearPolicy`
keeps. `Change` is an edit of the tables by another process, `Tick` lets cached
verdicts expire. The attribute rules are reduced to whom they bar.
History variables keep what the properties compare verdicts with: the rows the
table ever held, the keys it refused at some moment (`refusable`), the rows
another request added under a request of a key (`lent`), and the requests under
which another one cleared or replaced the enforcer (`disturbed`).

`Mfa`: `CreateChallenge`, `SetPending`, `FindUser`, `SendCode` and their
failures are `POST /mfa/evaluate`; `GetPending`, `FindChallenge`, `Update`,
`DelPending`, `Issue` are `POST /mfa/verify`. A tick is one step of the
one-time code.

`Pagination`: `NextPage` is one request of one of the three listings, `Create`
and `Delete` are the rows that change in between. Search filters are left out.

`RoleEvents`: `Change` of a row and `Publish` of what the write returned. The
ordering hazard is that two requests write in one order and publish in the
other, which `LastEventIsCurrent` excepts by name (`overlap`).

### SoarAudit, Playbook, SoarActions

`SoarAudit` is `withAudit` around `emitAction` around `exponentialBackoff`:
`Act` runs the action, `EnsureConnected` and `AwaitConnected` share the promise
that `ConnectEnds` settles, `BeginTransaction` to `Abort` are one attempt. A
commit that fails, by an error or because `shutdown` cut the connection, may
have taken effect. `Playbook` runs the steps of a document one after another;
`done`, `told` and `remote` are what really happened on hosts and channels, kept
apart from what the handlers report. `SoarActions` is the second set of
handlers, with the firewall rules and the passwords of each host.

### Ledger

`Begin` validates and takes or makes the gateway (`NewGateway`, `Connect`,
`ConnectFails`, `GetContract`); `Submit`, `SubmitFails`, `SubmitAgain` are the
attempts of `retry`, which repeat one transaction; `Verify` is the
evaluation; `Disconnect` is a peer that goes away. `VerifiedLog` is what
callers are promised: an event is taken at most once, "201" is only said of a
taken one, a hash is valid or invalid for what stands under its key. Its
variables `stored`, `taken` and `answer` are mapped to the world state, to the
transactions that took effect and to the answers that were given.

### GatewayProxy, GatewayRequest, GatewaySocket

`GatewayProxy`: `Arrives` fires a breaker or is rejected by an open one,
`Passed`, `Misfits` and `UpstreamFails` end a call; `Roll` and `ResetTimeout`
are the breaker's timers. `NoUrl` is a request to a route whose service has no
URL: `new URL` (`proxy.ts:42`) throws before the `try` of an async handler,
Express 4 does not look at the promise, and Node (20, says the Dockerfile) ends
the process on the unhandled rejection. All breakers and all requests in flight
go with it; the gateway's compose files have no restart policy, so no restart is
modelled. `GatewayRequest`: a request passes `express.json` (400 for a body that
does not parse), `auth`, the usage header, the counting layer of each service in
the order of `createApp`, the second check of the token, and the proxy; tokens
expire on the way, `Leaves` is a client that closes its connection ('close'
without 'finish', so that nothing is counted), and `Shutdown` or `ProxyThrows`
ends the process with what is under way. `GatewaySocket`: connections per
namespace, events, and the idle sweep.

### The dashboard

`LiveConnection`: the effect of `useWebSocket` (`RenderHook` runs its cleanup
and then its body), its timers and the socket in the hands of socket.io.
`LiveRefresh`: lodash's throttle around the handler of `LiveUpdates`. What the
handler does is to invalidate the keys 'alerts' and 'metrics'; `Queries` is what
the keys of the dashboard's queries begin with, none of which matches, so that
`refetched` stays empty. (Nor does any page mount the component.)
`Feedback`: the modal, its submissions, and the route. `Drilldown`: menus with
a debounced path each, whose fetches may fail (`FetchOptionsFails`) and are
tried again when the window gets the focus (`Focus`). `AuditScroll`: the file's
own throttle, remade in each render, with the timeouts that earlier ones left
behind; a page may be short and leave the user at the bottom, and a refused one
(`PageRefused`) ends the page, because its body is taken for rows. `asked` says
that a scroll has asked for a page that nobody has begun to fetch.
`AnomalyList`: a debounced search, pages, a query per key, a selected row.
`DashboardData`: the heat map and the cards, across midnight. `Cells` reads
`high` of objects that have `date` and `count`, which is undefined, and
`ColorClass` gives that the last of its colours; `Sorts` are the orders that
`Array.sort` may give alerts of one moment. A rejected fetch leaves the data
(`FetchRejected`), an error's body taken for the list ends the page
(`FetchRefused`). `IamConsole`: dialogs and the answers to their saves, refused
or not.

## 4. Runs

| Run | Question | Bounds, and why they suffice |
|---|---|---|
| `orchestrator` | safety of the whole pipeline, and does every record settle | 4 records with a malformed one in front and a poison one before the last, both watermarks 2, so that the queue passes the high one and a fetch after it has drained would find it below the low one, one retry so that success, retry and giving up all occur, 4 broker errors (of `getone` too), 2 stops, late commits on |
| `orchestrator_relay` | does it implement `EventRelay` | as above, without late commits: a missed late commit republishes a record, which the relay forbids |
| `orchestrator_at_least_once` | the guarantee a test is named for | the code's three retries and four errors; violated, see below |
| `alert_emitter` | agreement of table, topic and DLQ; is a producer left inside a transaction | three calls, two of one event, two processes, three faults: a duplicate, a third call to carry a foreign dead letter, a fencing process; each end that leaves a transaction open takes one fault and a later call to meet it |
| `revocation` | safety of both revocation paths | two tokens, an alert for all sessions and one for a token, each executed twice, one DELETE, one fault; one token without expiry and one of lifetime 1, keys of 1 (DELETE) and 2 (revoker) on a clock that ticks once, so that during a behaviour a token expires and the key of the DELETE runs out under the other. Everything is per token or per pair of token and alert; two of each give every overlap of two executions with a request |
| `revocation_live` | is a delivered alert passed | an alert for all sessions executed twice, an irrelevant one, one fault |
| `jwt_keys` | is there always a key, how long does a retired one sign, what brings one back | two rotations, two calls, two processes, one fault, a cache lifetime of one tick on a clock of two |
| `authz` | does anybody pass who should not, is anybody refused who should pass | two requests, two tokens of one subject with a role of their own each, of which a row can grant one, one path, one change of the tables, one fault, a verdict that lives one tick: a cached verdict, a stale load, an enforcer cleared by the other request and a role borrowed from the other token each need two requests and at most one change |
| `iam` | MFA, listings, role writes; do refusals take effect, do calls end | one challenge and two verifications, with a lifetime of 2, a window of 1 and one fault; four rows, of which two sessions are equally old, with pages of 2; two editors of one role and one rule with one fault; for `RefusalTakesEffect` one key, one change, no faults, and nobody barred at first |
| `response` | audit records, playbooks, actions, ledger | two calls with two retries and three Kafka faults; every playbook of up to three steps and the documents that are refused; three actions on two hosts; two requests with three attempts and two faults, two events of one key |
| `gateway` | breakers, layers, sockets | two calls and a window of two on three routes: one whose endpoints may misfit the schema, one that fits, one without a URL; any request through all three services next to one that asks for the service without a URL; two sockets, an idle limit of 2 in a time of 5 |
| `dashboard` | what the pages show and when they catch up | three sockets' worth of drops, errors and renders; three events, so that one waits in the throttle and another takes its place; two submissions and one fault; two menus of two values, one failed fetch of options; four pages, six scrolls, one page that fails or is refused; two searches and two pages; five alerts, two of one moment, over a week and a day, for two cards; two saves over two dialogs |

`CHECK_DEADLOCK FALSE` is set wherever the system may stop: topics end, calls
end, a stopped or paused pipeline waits. `authz` keeps the check.

Every checked property has a mutant: a definition ending in an underscore and a
word (`Get_KeepsAttempts`, `Conflict_Ignored`, ...) is the mutated form of the
definition before the underscore, the way a plausible bug would change it, and
TLC finds the property violated when it is put in place.

### What the runs show

- One output per record, up to one more for each commit of a dead process that
  its successor's consumer did not see (`OncePerRecord`). Without late commits
  the orchestrator implements `EventRelay`.
- A record whose handling fails four times is skipped for good
  (`orchestrator_at_least_once`): `process_loop` logs the error and goes on,
  and the next record's transaction commits an offset beyond it.
  `tests/test_kafka_orchestrator.py:131` calls the guarantee at-least-once.
- A pause is final in the process that made it (`PauseIsFinal`): the resume
  stands behind the `getone` that a paused partition never answers.
- An exception other than `KafkaError` leaves the transaction open, after which
  every `begin_transaction` raises. A `getone` that raises ends `consume_loop`
  for good while the process runs on, since `main` waits for the stop event
  only. `EveryRecordSettles` therefore says less than "records settle": as long
  as the process runs and is not told to stop, a record is settled unless the
  process stays inside a transaction, or the record was not yet fetched when the
  loop ended or paused. What is in the queue by then is still settled.
- A live producer of the emitter stays inside its transaction only after an
  INSERT that was cancelled or an abort that raised (`TransactionCloses`). Every
  later emit of that process then raises.
- A published alert has its row, except when another call for the same event
  takes its own row back after this one has seen the conflict
  (`PublishedHasRow`).
- A revoked session's token is refused, except for a row that appears between
  the revoker's SELECT and its UPDATE (`RevokedMeansRefused`), and for as long as
  the token has a key. A token of `sign`, which never expires, and a refresh
  token of 30 days outlive every key: they pass again when the last one runs out
  (`RefusedStaysRefused` names that instant and no other), and a DELETE after the
  revoker shortens its key of a day to the 900 seconds of its own. An alert counts
  as passed although its execution failed (`OffsetMeansHandled` names that
  exception): sessions of a failed execution stay as they are.
- There is always an active signing key. Overlapping or interrupted rotations
  leave two (`OneKeyAfterRotations` names when), and only a read in flight can
  put a retired key back into the cache that the rotation has just emptied
  (`OldKeyNeedsLateRead`), for no longer than one cache lifetime
  (`RetiredKeyRunsOut`).
- Requests share one enforcer. A token passes only through a role of its own
  that a row granted, with one exception: a role that stayed linked from another
  token of its subject, on a row which a request that overlaps with this one has
  loaded (`AllowedWasGranted`, `Borrowed`). And a request is refused only if the
  tables refused its key at some moment, or another request cleared or replaced
  the enforcer after it had read the rules (`RefusedForAReason`): whoever is
  entitled and overlaps with nobody gets through. The two tables are read at
  different moments, so that a request may pass by a row of before one change
  and an attribute rule of after it, although no moment allowed both; the
  properties speak of each table by itself.
- The row whose key is a cursor is on no page; with sessions it takes those of
  the same instant with it (`OnlyCursorsAreMissed` excepts exactly these).
- Overlapping writes of a role may be published in the other order
  (`LastEventIsCurrent` excepts them).
- An audit record may stand twice in the topic when a commit's answer was lost,
  and a success whose record cannot be sent surfaces as another error
  ("masked"); a caller who sees the action's own end finds it on record
  (`OutcomeIsRecorded`).
- A host that accepts an SSH connection and then falls silent keeps a playbook
  waiting without end; `RunEnds` says that nothing else does.
- A request that takes a gateway which another one is still connecting fails;
  `OwnGatewayServes` says that only racing requests do that to each other. The
  ledger nevertheless implements `VerifiedLog`.
- A call in flight when its breaker opens still reports to it, and a breaker
  closes again when its upstream recovers for good (`BreakerRecovers`).
- A request to a route without a URL ends the gateway: `new URL` throws in an
  async handler that nothing awaits. Every request in flight on every route is
  lost with it. Only with a URL for every route do the routes cost each other
  no request (`RoutesAreIsolated`), and `EveryRequestEnds` and `BreakerRecovers`
  end where the process does. A forwarded request whose client leaves first is
  counted by nobody (`ForwardedIsCounted` excepts it).
- The reconnect delay of the hook never grows (`EachWaitIsOneSecond`). An
  urgent event whose place in the throttle another one takes is not followed by
  new metrics (`MetricsFollow` excepts that). An earlier throttle's timeout can
  start a page's fetch again (`OnlyStaleRestarts`). A page that fails or leaves
  the user at the bottom needs another scroll (`BottomFetches`). A menu catches up
  with the one before it, or its fetch for the selection of now has failed
  (`PageCatchesUp`).
- An answer to a save closes its dialog, also when the service refused it:
  `IAMManager.tsx:90` does not look at the status. A late one closes a dialog
  that was opened since (`ClosedByAnswer` says when), and a form that is still open
  has had no answer (`OpenIsUnanswered`).

### Seen in the code, without a run of its own

These disagreements between code, tests, pages and documents came up while
reading. Where a model contains the behaviour, the module is named.

- `kafka_orchestrator.py:52` calls `begin_transaction` without an await. With a
  version of aiokafka (none is pinned) whose method is a coroutine nothing begins:
  each send outside a transaction raises, so does the abort, and no record is
  output. The test's producer has a synchronous one
  (`tests/test_kafka_orchestrator.py:91`), and that is what `Orchestrator` takes
  it for.
- The dead letter of a handled failure is produced outside a transaction and
  raises, unless another call has one open; `tests/test_alert_emitter.py:110,133`
  expect it on the DLQ (`AlertEmitter`).
- After a rotation a late read can cache the retired key again, against
  `jwt.test.ts:116` (`JwtKeys`).
- An event with the run and timestamp of an earlier one replaces it on the
  ledger; racing requests make two gateways, one of which is never closed
  (`Ledger`).
- The backoff repeats errors that can never succeed like any other (`SoarAudit`).
  A request is counted under every service mounted before its own, and one to
  the ledger twice under its own (`GatewayRequest`).
- The sweep finds idle sockets of the namespace it names; those of the default
  namespace are never disconnected (`GatewaySocket`). The dashboard connects to
  a namespace, '/ws/alerts', that no code of the gateway serves, and
  `Dashboard.tsx` passes an `onMessage` of another signature, which takes
  the event's name for the alert.
- `LiveUpdates` is mounted by no page, and the query keys 'alerts' and 'metrics'
  that it invalidates are those of no query: an event marks them stale and
  nothing is fetched (`LiveRefresh`, `QuietAfterUnmount` and the assumption
  `KeyAssumption`).
- A body that is not a list ends the page that maps over it: an error of
  `/api/alerts` the overview (`DashboardData`), one of the ledger its page
  (`AuditScroll`).
- A listing answered in the documented shape fails the proxy's schema for
  alerts and is answered with 503 (`GatewayProxy`).
- A failed playbook ends with exit status 0 (`Playbook`). Nothing in `src/` but
  a test registers a handler with the engine, so that as it stands every step
  fails for want of one; the model lets any set of handlers be registered.
- The modal admits one character where the service wants five (`Feedback`); the
  Prisma schema has no model for the alerts the route looks up.
- The Verify button of the ledger page sends no hash and so always reports
  failure; the IAM page cannot edit a role and would send PUT where the service
  has PATCH; its list "Active Sessions" shows revoked ones; the documented
  session list, an object, ends the page (`IamConsole`).
- A path of three or more menus can be left with a hole, a value whose parent
  has none (`Drilldown`, `NoHoles`).
- The overview gives the heat map a `count` where it reads `high`, so that every
  day has the colour of seven alerts or more (`Cells` of `DashboardData` gives each
  "dark", whatever it counts); the dark
  mode toggle is ignored; the queries of `ops/sla.md` ask for routes
  with a slash, which no counter's label has.

## 5. Fairness

- `Orchestrator`: weak fairness of the steps of both tasks and of the broker's
  answers (the event loop runs a ready task, the broker answers or times out),
  and of the start-up, because `docker-compose.ai.yml` has
  `restart: unless-stopped`. Nothing is assumed of errors, stops and crashes.
- `AlertEmitter`: weak fairness of each begun call.
- `Revocation`: weak fairness of an execution's steps and of the delivery of what
  was not committed; strong fairness of `Lock`, because Postgres grants a lock
  in the order of the requests, while other executions may hold it in between.
- `MCIam`: weak fairness of the clock, of each request's steps, of the calls of
  MFA and of the client that walks. Requests of `Authz` are never assumed to
  come.
- `MCResponse`: weak fairness of the calls whose await or timer is over, of the
  settling of a connect, and of making or refusing an SSH connection. No remote
  script is assumed to end.
- `MCGateway`: weak fairness of a call's end, since the proxy aborts it after
  ten seconds, and of the breaker's timers; strong fairness of requests arriving
  at a route that has a URL while the process runs, without which no breaker is
  ever tried again; weak fairness of the layers.
- `MCDashboard`: weak fairness of timers, effects and the ends of requests: a
  browser runs what is due. A socket's attempt that does not fail succeeds;
  errors are bounded. What users do is not assumed.

The components joined in one run never move together, so weak fairness of a
disjunction over components is that of the one that moves. A disjunction within
a component assumes no more than that some due step is taken; the bounded
faults, drops and renders cannot fill an infinite behaviour.

## 6. Proofs

For every value of the constants that satisfies the `ASSUME` of the module.
Each proof has the same shape: `Init` implies an inductive invariant, each
action preserves each of its parts, and it implies the property. None of the
properties below is inductive by itself; the parts named are what it rests on,
and TLC checked every inductive invariant on the run's instance before it was
proved.

### OrchestratorProofs

`TypeOK`, `OncePerRecord`, `OutputWithOffset`, `NothingSkippedSilently`,
`QueueBounded`, `CommittedNeverMovesBack`, `PauseIsFinal`, and the refinement
`ImplementsRelay` when late commits are off. That a record is output once
depends on what the open transaction holds, on the record in work being ahead
of the group offset and on the queue being the offsets from there to the
consumer's position. `IInv` is the conjunction of these parts: `QueueOrder`
(the queue is consecutive up to `position`), `PauseBound` (the length when
paused or not), `TxnShape` (what the broker's transaction may hold at each
`pc`), `PendingReady` and `WorkFresh` (the pending output and the record in work
have no output below `stale`), `PrefixSettled` and `Ordered` (what lies below the
group offset is output or given up). Only the commit of the broker shows
anything to the outside; the lemmas `OnlyCommitsShow` and `CommitEffect` reduce
the refinement to that step.

### AlertEmitterProofs

`TypeOK`, `PublishedHasRow`, `RowsAreAnnounced`, `DlqNotPublished` and
`PublishedRowStays`. The row of an event belongs to whichever call inserted it,
so all of them need `OwnRow`: from its INSERT until it takes the row back, the
event has the row of that call and no other. `PublishedRowStays` follows, because
the call that deletes has the row it deletes and is not published
(`PublishedLast`); so does `DlqNotPublished`, with `DeadLetters`: a dead letter,
even one that waits in the transaction of another call, is of a call that failed.
`RowOrTakenBack` carries the exception of `PublishedHasRow` from the refused
INSERT to the commit.

### RevocationProofs

`TypeOK`, `RevokedMeansRefused`, `RecordedOnce`, `OffsetMeansHandled`,
`HandledAlertIsComplete` and `RefusedStaysRefused`. Nothing is assumed of how
long a token lives. `KeyCovers` says that a key, once set, lasts as long as its
token unless the token `Outlives` one of the two kinds of key, so that "a key
was ever set" means "refused, or outlived its key" whichever path overwrites it.
`RefusedStaysRefused` rests on it for the tokens that do not outlive their keys,
and for the others on the clock: only a tick that ends the last key lets one
pass again (`RefusalIsFinal`).
`TxnShape` and `TxnEffect` tie what the one open transaction has written to the
place of its execution, so that what `Commit` makes visible is complete
(`Complete`, `Recorded`). `WindowCovered` is the argument about the window
between the SELECT and the UPDATE: a row that is active in it is still to be
blacklisted, has its key, or appeared since and is in `raced`.

### JwtKeysProofs

`TypeOK`; `SomeKeyActive` from `LastKeyActive`: the youngest key is active,
because a rotation retires only a key it read before it created its own,
younger one; `RetiredKeyRunsOut` from `HeldInTime`, which bounds how long a
cache and a read in flight may hold a key that is retired meanwhile. The
assumption that a cache lifetime is at least one tick is used: a read may take one.

`RotationTakesEffect` has two parts. That one key is left is a count: a done
rotation has retired the key it read (`RotationStages`), a retired key was read
by a rotation (`RowsOfRotations`), so that rotations that read different keys
are in bijection with the retired ones, and the rows are the rotations' and the
seed's. The number of rotations is not bounded, but the rows are finitely many at
every moment. That an old key needs a late read is `CacheNeedsLateRead`, an
invariant of every cache: a key that its process has rotated away is in it only if
some call has read it before and signed with it after it was retired.

### IamProofs

- `AuthzIsSafe` (`AuthzInv`). The enforcer is cleared and filled by whoever
  comes, so nothing can be said of what it holds at a moment but where it came
  from: `RulesWereRead` (every rule in an enforcer or still to be added was once
  read from the table), `LinksAreTrue` (every link is of a subject and a role
  its tokens name), `RulesInUse` (each rule a request meets is of a role of its
  own token, is not for its path, or was lent by an overlapping one). `Checked`
  (with `Warranted`) follows a request through the two checks and into the
  cache. For `RefusedForAReason`, `Undisturbed` says what an enforcer that
  nobody else has touched since the rules were read still holds. The proof is
  what showed that the property must not speak of one moment (section 4).
- `ChallengesAreSafe` (`MfaInv`) from `EvaluationStages`, what exists at each
  stage of the evaluation, and `LateStaysLate`: what made a verification late,
  an expiry or a spent challenge, does not go away between its check and its
  end.
- `WalksMissOnlyCursors` (`PaginationInv`) from `WalkedSoFar`, which says of
  every row there from the start that it was listed, lies behind the cursor, or is
  one. The lemma `FirstsAre` states what a page is: the rows of an ordered set up to
  a count, none left out before another.
- `EventsTellTheRows` (`RoleEventsInv`) from `TurnsAreTold`: as long as the
  requests about a row take turns, the last event about it is its state, or the one
  request that wrote it has still to publish.
- `PartsBehave` and `IamIsSafe`: a behaviour of the composition is one of each
  part's own specification, so that the invariants hold of the composition
  as it is run.

### ResponseProofs

- `LedgerIsHonest` (`LedgerInv`) from `Commitments` (a transaction that took
  effect was told, or its answer was lost) and `Gateways` (a request that holds
  the gateway it made has seen it connected).
- `LedgerRefinement` (`ImplementsLog`): the ledger implements `VerifiedLog`. The
  mapping hides the gateway and the attempts. `StepImplements` has one case per
  action; the steps that are not stutters are a submission that takes effect,
  with or without its answer, and those that end a request. A repeated
  submission is of the same transaction, so that it stutters when the first took
  effect: that is `Commitments` again.
- `AuditIsTrue` (`SoarAuditInv`) from `Statuses`: an action that threw never
  emits "success" afterwards; and from `CutOff`: a commit that is under way on a
  connection that is gone has still a fault to spare, for it will fail.
- `RunReportsTruly` and `ActionsReportTruly`, joined in `SoarReportsTruly`
  (`SoarInv`), from where a run or an action stands and what it has done by
  then (`RunStages`, `EffectsFirst`, `SummedUp`; `ActionStages`,
  `HostsTouched`).
- `PartsBehave` and `ResponseIsTrue` for the composition.

### GatewayProofs

- `ProxiesAreIsolated` (`RoutesAreIsolated`) from `OpenedByItsOwn`: a breaker
  that is not closed has seen a failure of its own upstream. That no request is
  lost when every route has a URL is immediate from the one step that ends
  the process. The type of the
  counters needs `FailuresAreCalls`: calls that began before the window rolled
  over report into the next one, so that failures may exceed calls, by as many
  as are under way; it counts them with the cardinality theorems.
- `LayersCountAndCheck` (`ForwardedIsCounted`, `OnlyAdmittedIsStored`) from
  `LayersPassed`, which counter hangs on a request at each layer, and
  `FirstCheck`. A request that left before its end was counted at no stage
  (`NotCountedYet`).
- `SweepSparesTheActive` (`ActiveStays`) from `MarkedByRoot`: the sweep looks at
  the sockets of a namespace that nothing marks.
- `PartsBehave` and `GatewayIsSafe` for the composition.

### DashboardProofs

Each part of the page has its own inductive invariant:

- `ConnectionIsOne` (`OneSocket`, `EachWaitIsOneSecond`) from what the reference
  points at while the component is mounted (`RefWhileMounted`,
  `CurrentWhileMounted`) and `OpenHasReset`: when a socket is open, the delay is
  back at one second.
- `RefreshIsQuiet` (`QuietAfterUnmount`) from `WindowWhileMounted`: the timer of
  the throttle runs only while it is mounted. That it causes no fetch is the
  assumption on the keys (`KeyAssumption`).
- `ToastsAreTrue` from `StandsWithRow`, where a submission stands and whether
  its row was written, and `ToastIsOfDone`.
- `ScrollsAreThrottled` (`OnlyStaleRestarts`) from `ScrollsPay`: requests, stale
  timeouts and the timer that waits are together no more than the scrolls so
  far. It is proved with the cardinality theorems, and it is why the cap on
  scrolls also caps the requests.
- `ListIsTrue` (`ListIsForInputs`, `ChoiceStays`) from `AnswersBelong`: what is
  cached under a key is the answer to that key.
- `OverviewIsTrue` (`CellsApart`, `CardsAreNewest`, `HighAlertIsCounted`) from
  `ComputedOn`: cells and counts are those of one earlier day, the same for
  both, and the cards are the first of any order that the sort may leave alerts
  of one moment in (`Sorts`). The day itself is the witness of an existential,
  so that the invariant is stated for a day and then quantified.
- `DialogsCloseForAReason` (`ClosedByAnswer`, `OpenIsUnanswered`) from
  `SavesComeFromDialogs` and `OpenStaysUnanswered`.
- `MenusAreCurrent`: `SettledMeansCurrent` for any number of menus, from the
  lemmas that `Before` is a sequence of values (`FilledGrows`,
  `EveryPlaceIsFilled`, `BeforeIsPath`). `NoHoles` is proved for at most two
  menus, from `FirstIsChosen`: options of a later menu are there only once the
  first has a value, and that value is never taken back. For three it is false,
  and TLC shows the hole: the third menu is enabled, fetches the options of the
  path of 200 ms ago, and offers them when the second is cleared. The only
  use of the component in the repository (`FiltersDrilldown.stories.tsx`) has
  two categories, and that is the run's instance.
- `PartsBehave`, `DashboardIsTrue` (for at most two menus) and
  `DashboardIsQuiet` for the composition.

### What the proofs assume

Besides types and distinct model values, the assumptions are these: the sets of
requests (`GatewayProxy`) and of rows (`Pagination`) are finite, since both are
counted or sorted; identifiers are unique (`Pagination`); the step types of a
playbook are the three with a built-in handler and its steps form a sequence
(`Playbook`); routes with a URL are routes (`GatewayProxy`); a cache, a
challenge or a blacklist key lives for at least one tick (`JwtKeys`, `Authz`,
`Mfa`, `Revocation`); no query of the page has one of the two keys that
`LiveRefresh` invalidates; there are at least two sockets, so that a fresh one
is there while the old one is still held (`LiveConnection`); alerts are finitely
many and the first day is no later than the last (`DashboardData`), and an
undefined count is no number; the rows found for a search form a sequence
(`AnomalyList`); bounds of faults, drops and dialogs are numbers (among others
`LiveConnection`, `Feedback`, `AnomalyList`, `IamConsole`, `Drilldown`). TLC
evaluates each on the run's values. One theorem has a hypothesis of its own:
`DashboardIsTrue` speaks of at most two menus.

### What stays with TLC

Every safety invariant and every action property that a run checks is proved.
Liveness is model-checked only, since fairness and ENABLED are outside what the
prover handles: `EveryRecordSettles`, `TransactionCloses`, `EveryAlertPassed`,
`IamAnswers`, `ResponseEnds`, `GatewayRecovers` but for `ActiveStays`,
`DashboardCatchesUp` but for `QuietAfterUnmount` and `OnlyStaleRestarts`. The run
`orchestrator_at_least_once` refutes a property, so there is nothing to prove.

## 7. Not modelled

- The IAM schema, model training, deployment and operations: declarative or
  offline. What they guarantee (unique keys, the restart policy) appears as
  guards and as fairness.
- Scoring, normalizing and labelling: arithmetic and one call of a language
  model. The bounded list of a user's scores is read and written by one worker
  without an await in between, and nothing in the repository starts that worker.
- Rendering: tables, gauges, layout, colours but for those of the heat map. The
  overview, ledger and IAM pages are modelled in part: their state that timers,
  answers and users race for.
- `ExportCSV` of the chaincode and the placeholders of `src/ledger-service`
  (`api/logEvent.ts`, `client/index.ts`) change no state.
- Search filters of the listings, wording, metrics that no code reads, logging
  and payloads are left out of every module.
- Two emitters that overlap in the topic `alerts` with the revoker, and the
  whole life of one token across `JwtKeys` and `Revocation`, are compositions
  that the plan names and no run has yet.
