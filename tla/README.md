# A TLA+ development of the ruletka server

ruletka is a video/voice chat roulette: a NestJS API (`src/apps/api`) on MongoDB
and Redis, a web client, an admin panel and a mobile client. The API runs as
several identical nodes behind a load balancer (`DEPLOY.md`, `PRODUCTION.md`);
they share Redis and MongoDB and reach each other's sockets through the Socket.io
Redis adapter. This directory holds TLA+ models of the parts whose correctness
depends on what runs between two `await`s, the TLC configurations that check them,
and TLAPS proofs about them. `PROJECT.json` maps every definition to source lines.

## Inventory

| Component | State | Operations | Works with | What is hard |
|---|---|---|---|---|
| Roulette matchmaking (`matchmaking.service.ts`, `matchmaking.gateway.ts`) | Redis: a pool per modality, a hash per waiter, a hash per room, a pointer per user | `mm:join`, `mm:next`, `mm:leave`, `rtc:hangup`, disconnect, kick, block enforcement; `tryMatch`, `commitMatch`, `teardownRoom` | match log, presence, blocks, profiles, Socket.io rooms | every handler is a chain of awaits over shared keys on several nodes |
| Match log (`match.service.ts`, reconcile job) | one Match row per room, open until `endedAt` | `createMatch`, `endMatch`, `reconcileStale` | matchmaking | a row and a room live in two databases; either write can fail |
| Direct calls (`call.service.ts`, gateway) | Redis: a key per ringing call, an index of accepted calls by pair and by id; Socket.io call rooms | `call:invite`, `call:accept`, `call:decline`, `call:end`, `rtc:hangup`, enforcement of a block | blocks, friends, presence | accept races decline, cancel, expiry and blocks |
| Blocks (`blocks.service.ts`) | block rows | block, unblock, the gate; publishes `block:enforce` | matchmaking, calls, chat | the gate is read before the act |
| Payments (`payments.service.ts`) | Payment rows; subscriptions | Check, Pay, Fail, Confirm, Recurrent and Refund webhooks, admin refund, T-Bank mirror | wallet, premium, account teardown | webhooks repeated, late, concurrent and out of order; a crash between claim and fulfilment |
| Wallet (`wallet.service.ts`) | a balance with a debt and a hold; the ledger | `credit`, `debit`, `reverseRefund`, `maybeReleaseHold` | payments, gifts, top, referrals, bonus | idempotency through a unique index, and compensation without transactions |
| Auth sessions (`auth.service.ts`) | refresh sessions in families; the password hash; the cookie of each browser | login, refresh with rotation, grace window and reuse detection, logout, revocation, change and reset of the password | users, bans, erasure | two refreshes of one token; an insert after a revocation |
| Presence (`presence.service.ts`) and socket limits (`ws-rate-limiter.service.ts`) | Redis: status, connection counter, socket cap shared by the two namespaces, windows | connect, heartbeat, disconnect, forced disconnect | matchmaking, friends, chat, bans | counters and keys changed by separate commands on several replicas |
| Moderation (reports, appeals, strikes, bans) | reports, appeals, violations, user status | resolve, decide, escalate, ban | sessions, sockets, wallet | two moderators; claim before effect |
| Premium | subscriptions | activate, renew, expire | payments | renewal and sweep |
| Gifts, top placement, covers | documents bought with coins | buy, send | wallet | debit, then create, then compensate |
| Referrals, bonus, achievements, leaderboard | counters and rewards | reward sweeps | wallet | caps read before they are counted |
| Friends, chat, notifications, profiles, KYC, administration, TURN, mail, health | single documents, append-only messages, I/O | reads and writes | — | little state that two steps can disagree on |
| Clients, shared types, UI, infrastructure | user interface | — | the gateway's events | outside the models |

What makes each right:

- *Matchmaking*: a waiter is claimed once per enqueue; nobody is left waiting behind
  a user whom it accepts; a pointer names a room of its user; a user has one
  room; a block ends the room of its pair; no record of a live room is closed.
- *Match log*: every row is closed in the end, whatever fails.
- *Direct calls*: a ring is answered once; an accepted call stays findable until it
  ends; no call of a blocked pair survives.
- *Payments and wallet*: the balance is the sum of the ledger; an invoice is
  credited once and only when paid; what is refunded is reversed or owed; a debt
  and the hold on it come and go together.
- *Sessions*: one usable successor per rotated token; nothing outlives a revocation;
  a browser that only does what browsers do is never taken for a thief.
- *Presence*: the counter is the sockets; a user is online exactly while a socket is
  connected, up to the TTL; the cap holds and a ban severs.

`PROJECT.json` lists the hazards at their lines, with the properties that cover them.

## Modules

| Module | What it is |
|---|---|
| `Roulette` | what the roulette promises of a pair and its room: an abstract roulette |
| `Matchmaking` | matchmaking, the match log, the gateway's handlers and their environment; implements `Roulette` |
| `MCMatchmaking` | instances for TLC (4 configurations) |
| `MatchmakingProofs` | theorems about rooms, records and claims and their proofs |
| `MatchmakingPairProofs` | the theorem that nobody is missed and the refinement of `Roulette`, over `MatchmakingProofs` |
| `FriendCall` | what a call between friends promises: an abstract call |
| `DirectCalls` | ringing and accepted calls, the gateway's call handlers, block enforcement; implements `FriendCall` |
| `MCDirectCalls` | instances for TLC (2 configurations) |
| `DirectCallsProofs` | theorems and their proofs, the refinement of `FriendCall` among them |
| `CoinAccount` | what the wallet promises of a user's coins: an abstract account |
| `Payments` | coin purchases and refunds of a user over the wallet; implements `CoinAccount` |
| `MCPayments` | instances for TLC (2 configurations) |
| `PaymentsProofs` | theorems about the account and their proofs, the refinement among them |
| `PaymentsOutcomeProofs` | theorems about what becomes of each invoice, over `PaymentsProofs` |
| `TokenFamilies` | what refresh-token rotation promises: abstract families of tokens |
| `Sessions` | the refresh sessions of an account, its password, its devices; implements `TokenFamilies` |
| `MCSessions` | instances for TLC (2 configurations) |
| `SessionsProofs` | theorems about rotation and revocation and their proofs |
| `SessionsReuseProofs` | the theorem about reuse detection and the refinement of `TokenFamilies`, over `SessionsProofs` |
| `Presence` | the sockets of a user across replicas, the counters and the status in Redis |
| `MCPresence` | instances for TLC (2 configurations) |
| `PresenceProofs` | theorems and their proofs |

The modules do not compose by `INSTANCE` beyond the four refinements: the roulette and the
direct calls share block rows and one socket message (`rtc:hangup`, by the id it
names); the matcher reads one key of `Presence`, which `Matchmaking` lets lapse once its user has no
socket, or as a fault while it has one (a missed heartbeat), until the next heartbeat;
a ban reaches sessions, sockets and rooms through three calls that do not meet again;
payments share nothing with the others but the erasure of the account.

### How code becomes actions

A handler is an `async` function. Node runs it without interruption between two
awaits, and any other handler, of this node or another, may run at an await. So a
handler is a process `h`: `pc[h]` names the await it has reached, a few
variables hold the locals it carries over, and an action is what happens from one
await to the next. One Redis command, `MULTI` or Lua script and one MongoDB call is
atomic. Any client may send any message the gateway's guards let through at any
time; a slot `h` is free again when its handler returns. `Crash(h)` is the death of
the node in the middle of a handler: what is in the databases stays.

### Matchmaking

- *State.* `pool`, `waiter`, `live`, `userRoom` and `presence` are the Redis keys;
  `match`, `row` and `blocked` the MongoDB rows; `sock`, `told` and `enforce` the
  sockets, the last event sent to each user and the pub/sub messages on their way.
  `joins`, `claims`, `elders` (for each user, who has not enqueued since it last did) and
  `fallen` (the users of whom a handler died since they last enqueued) are history for the
  properties.
- *Handlers.* `StartJoin`, `StartNext`, `StartLeave`, `StartDisconnect`,
  `StartHangup`, `StartEnforce` and `StartKick` are the gateway's entry points with
  their guards. They meet in `Teardown` (`teardownRoom`: pointer, room hash, the
  delete script, `endMatch`) and in `Matcher` (`joinAndMatch`: enqueue, scan, load,
  prune, liveness, block gate, claim script, insert, write, deliver).
- *Environment.* Connections, blocks, the TTLs, the reconcile job, crashes, the lapse of
  a user's presence (its node died, or beat too late) and the heartbeat that restores it.
- *Abstractions.* The gates other than the block are one relation `Accepts`, of a joiner
  and a waiter, of which nothing is assumed. Demographic filters and `whoCanCall` bind
  both sides, but `sharedInterestsOnly` is asked of the joiner alone
  (`matchmaking.service.ts:222`, `264`): a waiter may be turned down by a joiner whom its
  own matcher would have taken, and the two are then left side by side. The ranking of
  candidates is left open, so a matcher may try them in any order; rate limits and the
  skip throttle refuse or let through at will. One device per user. `isConnected` and
  `isBlocked` answer; their fail-open paths are left out, and so are exceptions of the
  read phases of `tryMatch` (the writes that fail are `CommitFails` and
  `EnqueueNoProfile`). A ban is a kick and a disconnect. A block is created once per pair
  and is not removed again; each `block:enforce` is handled once, though every node
  receives it: a second handling finds the pointer gone or does the same again.
  `PastCutoff` stands for the age of a row: the cut-off of the sweep exceeds the TTL of a
  room by half an hour, so the room of such a row has expired and no handler is about to
  write it. The relay of WebRTC signals changes no state.

### DirectCalls

- *State.* `pending` is the ring key with its TTL, `pairIdx` and `idIdx` the two keys
  of the index of accepted calls, `members` the Socket.io call room, `heard` who has
  been sent an event with the call's id (a client can only name such a call). `party`,
  `answer` (the answers of each call one after another), `latest`, `torn`, `lapsed` and
  `stranded` (the calls of which a handler died or failed to clear the index) are history
  for the properties.
- *Handlers.* Invite (gate, mint), accept and decline (consume script, first block
  check, index, second check, joins, announce), end (pending or in the room),
  hangup, and the enforcement of a block (`LookupPair`). All endings meet in
  `teardownCallRoom` (`Td...`). `clearActiveCallIndex` swallows what it catches, so a
  command of it that fails (`TdIndexFails`) leaves the rest of the index as it is, and
  the room is emptied all the same.
- *Abstractions.* Presence and privacy gates of an invite may refuse at will. A
  `rtc:hangup` reaches this model when the id is in no roulette room.

### Payments

- *State.* `status` is the Payment row of each invoice, `pack` the coin package, `user`
  the account; `balance`, `held`, `frozen`, `holdRef` and `heldRefs` are the wallet
  document, `rows` the keys of its ledger and `posted` the sum of their deltas;
  `charged`, `declined` and `returned` are what the provider has done. `paid`, `taken`,
  `runs`, `due` and `halted` (the invoices one of whose handlers was cut off, and what kind
  of handler) are history for the properties.
- *Handlers.* `StartWebhook` delivers Pay, Fail or Refund, any number of times and at
  any later time, once the provider has the cause for it; `StartAdminRefund` is the
  endpoint of the admin panel. Pay is read, gate, claim, second gate, package, credit
  or rollback; a refund is read (for an admin: the call to the provider), claim,
  package and `reverseRefund` with its loop of balance reads and guarded debits, and
  the debt at its end.
- *Wallet.* `Credit` is `WalletService.credit` with `maybeReleaseHold`; `Spend` and
  `ClawBack` are `debit` with and without the guard on the hold. `runWalletWrite` runs
  each in a transaction, so each is one step here. A unique index on `(type, refId)`
  guards the ledger: `CreditDuplicate` and `ClawBackDuplicate` write nothing. What the
  call then answers depends on how the driver treats the aborted transaction, so it
  may be passed over (as the code means it) or throw.
- *Environment.* Spends and rewards elsewhere, edits and deletion of the package, bans,
  the erasure of the account with its teardown, failed calls and crashes. `Crash` also
  stands for a call that throws where nothing catches it: the handler stops there.
- *Abstractions.* MongoDB is a replica set, as in production. The invoices are of one
  user and one package, of CloudPayments or T-Bank: the T-Bank handlers take the same
  steps (an admin's refund of a T-Bank row ends at its first read). Signatures and
  amounts are right. Premium purchases, renewals, Check and Confirm, and manual debits
  by an administrator are left out. Rewards are all of one size, spends of one price.
  The cap on the attempts of a clawback, one more than its coins, is left out: past it
  the rest becomes debt, as it does at an empty balance. An erased user may still
  spend: nothing in `debit` prevents it.

### Sessions

- *State.* A row of the sessions collection is its token: `stored`, `revoked`, `expired`,
  `family`, `next` (`replacedByHash`) and `recent` (`replacedAt` within the grace window)
  are its fields; `secret` is the password hash as a version and `banned` the status of
  the account; `cookie` is the jar of each device, which the tabs of a browser share.
  `handed`, `parent`, `granted`, `auth`, `raced`, `late`, `reused` and `excused` are
  history for the properties.
- *Requests.* `StartLogin` to `StartErase` are login, refresh, logout, sign-out
  elsewhere, change and reset of the password, ban and erasure. A refresh is the read of
  the row, the read of the account, the insert of the successor and the compare-and-set
  `Link` that makes it one; the loser of that race reads again (`Reread`) and is served
  within the grace window or burnt. Every revocation is one `updateMany`, after the reads
  that its request makes.
- *Environment.* `RevokeSession` and `Unban` are operations of one step, and `Expire`
  the end of a row's time to live: together at most `MaxEdits`. `Crash` is a lost
  response or the death of the node (at most `MaxFaults`). The grace window may close
  (`Age`), and an expired row be removed (`Purge`), at any moment.
- *Abstractions.* One account. The throttle of failed logins, the gate on the device
  fingerprint, registration (a login without a check), email verification and the claims
  of access tokens are left out; redeeming a reset link is the guard of `StartReset`. A
  browser presents the cookie it has when the request leaves; a thief's browser is one
  more device only if it logs in itself, since a stolen cookie is what reuse detection is
  meant to burn and no property here speaks of it.

### Presence

- *State.* `conn`, `shown` and `slots` are the Redis keys `presence:conn`,
  `presence:status` and `ws:sockets`; `heard` is the last transition published;
  `link` and `bound` are each socket's transport and whether it has joined the room of
  its user; `sent` and `reached` follow the `user:disconnect` message of a ban.
- *Handlers.* `con`, `dis` and `beat` name the Redis command that the connect, the
  disconnect and the heartbeat of a socket send next; each command is one step, and the
  commands of one replica reach Redis in the order they are sent (`Ahead`). A connect is
  ban check, slot, binding, counter, status, publication. A disconnect that takes the
  last count, or finds none to take, clamps the counter at zero and hides the user.
  `Sweeps` is the heartbeat of a replica for a socket it holds.
- *Environment.* Sockets open and drop at any moment, bans, commands that throw, the
  death of a replica, and the TTLs.
- *Abstractions.* One user, each socket on a replica of its own: sockets of one replica
  share a connection to Redis, which only orders their commands more. Sockets of `/chat`
  hold slots and no presence. The throttle of handshakes, the check of the token and the
  lifting of a ban are left out. `disconnectSockets` severs the sockets of the replica
  that handles the message; an adapter that carries it to the others would only sever
  more.

### The abstract specifications

*CoinAccount.* One number `net`, which `Payments` implements as `balance - held`, and what
each invoice was paid and has had taken back. An invoice is credited once; a spend is
covered by `net`, so by coins free of debt; nothing else takes coins but a refund, which
records exactly what it takes, and the end of the account. Webhooks, retries, transactions
and crashes are not in it.

*Roulette.* Users wait for a modality; a matcher takes two, one of whom accepts the other,
out of the same queue in one step; at most one room is opened for a taken pair; a room
goes live once and seats its pair; it ends and leaves nobody seated; its record is closed
only then. `Matchmaking` implements it with `deal` read off the matchers between claim and
insert (`DealOf`) and the stage of a room off its row and its hash (`StageOf`). What is
*not* in it is as telling: a user may be seated in one room and taken for another
(`OneRoomPerUser`), and a room may go live for a pair that is blocked by then
(`BlockEndsRoom`).

*FriendCall.* A call rings once for one pair and is accepted, refused or missed for good;
an accepted call may be listed once, and admits nobody but its two parties and only while
its accept is under way. It leaves the list, and its room is emptied, only once it is
itself over: its own ending has begun (`Finish`) or its own entry has lapsed (`Lapse`). So
an ending that takes the entry or the room of a newer call of the pair is no step of it.
`DirectCalls` implements it with `over` read as `torn` and `lapsed` together.

*TokenFamilies.* A login begins a family; a session that is alive is succeeded once, by a
token minted for it that nobody has seen; a session already succeeded may be re-issued;
families are revoked whole; a client is given each token once, and only the first of a
family, a successor or a re-issue.

## What is checked

Deadlock is not checked: a server with nothing to do, and bounds used up, is a
state in which nothing need happen.

| Run | Bounds | Shows |
|---|---|---|
| `MCMatchmaking` | 3 users, 2 handlers at once, 3 handlers in all, 2 rooms, symmetry | `TypeOK`, `LiveRoomHasOpenMatch`, `PointerNamesOwnRoom`, `ClaimsUseEntries`, `NoMissedPair`, `RouletteSpec` |
| `MCMatchmakingLive` | 2 users, one of whom (`Picky`) accepts nobody, 1 room, 3 handlers, one fault, fairness | `NoMissedPair` under a crash, a failed write or a missed heartbeat, `MatchEventuallyClosed` |
| `MCMatchmakingOneRoom` | 2 users, 4 joins | `OneRoomPerUser` is violated |
| `MCMatchmakingBlock` | 2 users, 3 handlers | `BlockEndsRoom` is violated |
| `MCDirectCalls` | 2 users, 2 calls, 5 handlers, one fault | `TypeOK`, `AnsweredOnce`, `NewestCallIndexed`, `BlockedPairNotIndexed`, `FriendCallSpec` |
| `MCDirectCallsBlock` | 2 users, 3 handlers | `BlockEndsCall` is violated |
| `MCPayments` | 2 invoices, 2 handlers at once, 4 in all, packages of 0 (deleted) and 2 coins, 3 charges, declines, edits, bans or erasures, one spend or reward, one fault | `TypeOK`, `LedgerBalances`, `HoldMatchesDebt`, `CompletedIsCredited`, `ReversalIsWhole`, `AccountSpec` |
| `MCPaymentsRefund` | 1 invoice, 2 handlers, no fault | `RefundReverses` is violated |
| `MCSessions` | 1 device, 3 requests at once, 4 in all, 4 tokens, one edit, one fault | `TypeOK`, `HandedTokensAreLinked`, `SuccessorDiesToo`, `RevivedOnlyByRace`, `BenignNeverBurned`, `FamilySpec` |
| `MCSessionsPassword` | 1 device, 2 requests at once, 4 in all, 3 tokens, no fault | `OldCredentialDies` is violated |
| `MCPresence` | 2 sockets on 2 replicas, a cap of 2, or of 1 with one socket of `/chat`; one fault, missed beat or ban; fairness | `TypeOK`, `CountIsSockets`, `CapHolds`, `BanSevers`, `ShownWhileConnected`, `HiddenOnceGone` |
| `MCPresenceHolder` | 2 sockets, a cap of 2, no fault | `HolderStaysOnline` is violated |

*Why the bounds are enough to be of use.* The races of the roulette are between two
handlers; a third user makes the difference between "my candidate was taken" and "I was
taken", and three handlers let a room be built by two of them and attacked by another. Two
rooms allow a second pairing while the first still stands. Two calls of one pair are
needed for a teardown of the old one to meet the index of the new one. Two invoices are
needed for the refund of one to leave a debt that the purchase of the other repays, and
packages of two coins for a partial clawback and a partial repayment; four handlers are a
purchase of each, and a refund or a repeated webhook of each. Three requests of one
browser are a race of two refreshes with a revocation, and the fourth, the login before
them. A fork needs two successors of one row and a re-issue within the grace window a
third, so four tokens. Two sockets are the one that leaves and the one that stays; with a
cap of one and a socket of `/chat` the second is refused, or the slots are counted for a
socket that shows nothing. In the liveness run of the roulette one room and one fault are
enough for each way a row can be left open, and the user who accepts nobody stands for one
who demands shared interests and has none: the other is paired with it only by joining
after it, and is rightly left beside it otherwise. The safety runs with large id sets use
symmetry; the runs with a temporal property of fairness do not.

*Fairness.* `FairSpec` of `Matchmaking` assumes that a handler that started goes on to its
next await unless its node dies (the Node event loop, and drivers that answer or throw),
that a room reaches its TTL (Redis expiry), and that the reconcile job, a repeatable
BullMQ job, runs again and again and closes every row past the cut-off. Clients, faults
and the expiry of waiters owe nothing. `FairSpec` of `Presence` assumes that connects,
disconnects and heartbeats run on unless their replica dies, that a live replica keeps
beating (`setInterval`), and that the TTL of the status lapses once nobody renews it.
Nobody has to connect, to drop or to be banned.

### Where the code and its comments differ

- `OneRoomPerUser`. `mm:join` reads the pointer, tears down the room it names and then
  enqueues, in separate steps, "so we never leak a room" (`matchmaking.gateway.ts:482`).
  Two overlapping joins of one user both see no room, both enqueue, and are paired
  twice; the second pairing overwrites the pointer, and the first room stays live
  with no pointer of that user to end it by.
- `BlockEndsRoom`. The matcher's block gate is read before the claim; enforcement
  finds a room through the pointer. A block that falls between the gate and the write
  of the room is enforced on nothing, and the room of the pair appears afterwards.
- `BlockEndsCall`. The accept checks the block a second time after the index is
  written, and joins the sockets after that. A block enforced between the two finds
  the index, detaches sockets that have not joined yet, and the accept joins them.
- `RefundReverses`. `handleRefund` decides whether to reverse from the status that it read
  before it claimed the refund (`payments.service.ts:585`). A Refund that reads
  `pending` while a Pay is between its read and its claim, and claims after that Pay,
  marks a completed payment refunded and reverses nothing, against "mark the Payment
  `refunded` and reverse the fulfilment". The admin refund claims only `completed`, and
  is not exposed to it.
- `OldCredentialDies`. A login verifies the password, awaits, and inserts its session; a
  change of the password writes the hash and then revokes the sessions there are. A login
  that verified the old password before the write and inserts after the revocation leaves
  a session proved by the old password, which "can't outlive the change"
  (`auth.service.ts:1144`), and its refreshes go on.
- `HolderStaysOnline`. A disconnect decrements the counter in one command and hides the
  user in the next two. A socket that connects on another replica in between counts
  itself as the first and finds the old status still there, so it publishes nothing, and
  then the disconnect deletes the status and publishes offline, although "a user still
  holding a socket on another replica stays online" (`matchmaking.gateway.ts:407`). The
  heartbeat writes a missing status back within its interval (`ShownWhileConnected`).

Three more things the model shows and no property claims, since the code does not
promise otherwise: a rollback that meets a refund sets the payment to `pending`, after
which a repeated Pay completes it without coins (the ledger refuses the second credit)
and a second refund may be charged; a crash between the claim of a Pay and its credit
leaves it completed without coins for good; and a refund takes back what the package
holds by then, not what was credited.

The conditions in the properties follow from these. `CompletedIsCredited` is stated for
moments when no handler is in flight, of every invoice whose own Pay has not been cut off:
a crash strands the invoice of its handler and no other. `ReversalIsWhole` compares what
was taken with what the one reversal of an invoice set out to take, unless that reversal
itself was cut off or threw (it is logged and acknowledged then). `NoMissedPair` speaks of
the waiters who came before a user (`elders`), since only a joiner looks: of two waiters
the later one has turned the other down. It excuses only the users in `fallen`: a node that
dies with a user's matcher leaves that user in the pool with nobody to look for it, and the
code owes it no more than the next heartbeat of its client; a failed insert or write of a
room, or a missed heartbeat, excuses nobody. `BlockedPairNotIndexed` excuses a call in
`stranded`: a teardown or an enforcement that dies with its node, or whose clearing of the
index fails and is swallowed, leaves the pair's key to its TTL.
`RevivedOnlyByRace` and `BenignNeverBurned` name the requests that a revocation overtook,
the lost responses and the requests slower than the grace window that the code does not
promise to serve; `CapHolds` and `BanSevers` name the erased counts and the sockets between
their ban check and their room: they check the steps around those races, and would not
catch the races themselves. No property catches the second reversal of an invoice whose
status a rollback has set back; `ReversalIsWhole` is stated for one.

## What is proved

### Matchmaking

`MatchmakingProofs` proves, for any sets of users, handlers and rooms and any bounds,
from the assumptions in `Matchmaking` alone:

- `TypeCorrect`: `Spec => []TypeOK`;
- `LiveRoomsAreOpen`: `Spec => []LiveRoomHasOpenMatch`;
- `PointersAreSound`: `Spec => []PointerNamesOwnRoom`;
- `ClaimsAreExclusive`: `Spec => []ClaimsUseEntries`.

*The argument.* None of the three safety properties is inductive. `Inv1` adds to the
types what a handler must hold where it stands: a user while it is in flight, a mate
once it has claimed, a room once it has inserted the row. `Inv2` ties room, pointer
and row together: a live room has an open row and two users, a handler about to write
a room is the only one that knows it and its row is open and names the two users it
has claimed, and a handler inside a teardown holds a room whose row was inserted.
Without the exclusive owner, another handler could close the row between the insert
and the write. `ClaimsUseEntries` is inductive given the types: a claim removes both
users from the pool that it found them in. `Inductive` states that the conjunction is
kept by every step; each theorem follows from it.

`MatchmakingPairProofs` adds, over the same invariant:

- `NobodyMissed`: `Spec /\ []PoolsFit => []NoMissedPair`;
- `NobodyMissedAmongFew`: `Spec => []NoMissedPair` for at most `Batch` users;
- `NoMutualPairWaits`: under `[]PoolsFit`, two users outside `fallen` who accept each other
  never both wait once no handler is in flight;
- `ImplementsRoulette`: `Spec => RouletteSpec`.

*The argument.* `NoMissedPair` speaks of moments when no handler is in flight, so its
invariant must say what each matcher still owes. `FoundInv`: a user outside `fallen` that
waits in a pool behind an elder whom it could take has a handler that will still come to
that elder: it has yet to scan, or the elder is among the candidates that it has left, or
it stands at a check of just that candidate which the candidate passes. `Ordered` says
that of two users one is the other's elder, from which `NoMutualPairWaits` follows.
Nothing is assumed of `Accepts`: a waiter owes nothing to those who join later. A scan
brings the other in only if it is in the batch, and the code looks at no more than the
first `MATCH_CANDIDATE_BATCH` members of a pool; that is the hypothesis `PoolsFit`, that
pools are finite and never outgrow a batch. It is about the run and not a constant, and
with few users it is no hypothesis at all. Beyond a batch two users may indeed wait side
by side: that is the hazard at `matchmaking.service.ts:209`. A handler that ends early
without a match ends for a reason about its own user (claimed by another, no longer
queued), so the users are not both waiting, and a crash moves its user to `fallen`
(`CrashFound`). For the refinement, the invariant `Suits` says that the candidates of a
matcher are other users and, once loaded and filtered, accepted by its own; so what a
claim takes is a pair of `Suited`, which is `Accepts`, and each action is a step of
`Roulette` or changes nothing in it.

### Direct calls

`DirectCallsProofs` proves, for any users, handlers, calls and bounds, from the assumptions
in `DirectCalls` alone:

- `CallsTypeCorrect`: `Spec => []TypeOK`;
- `AnswersExclude`: `Spec => []AnsweredOnce`;
- `NewestStaysIndexed`: `Spec => []NewestCallIndexed`;
- `BlockClearsIndex`: `Spec => []BlockedPairNotIndexed`;
- `ImplementsFriendCall`: `Spec => FriendCallSpec`.

*The argument.* `Base` adds to the types what a handler holds where it stands (`LocalInv`)
and that a call is known to no key, client or handler before it is minted (`MintInv`).
`AnswerInv` says who may still answer: a ringing call has been answered by nobody, and every
answer takes the ring key, so the sequence `answer[c]` never grows past its first; a call
that no longer rings has at most one handler inside its accept. The index parts follow the
teardown: a teardown of an
old call that has read the pair's key deletes it only if it still names that call
(`FoundInv`, `IndexInv`), and a block that falls anywhere in an accept is met either by
the second check or by the enforcement that is still to come (`BlockInv`); both are stated
for every call of which no handler has died or failed to clear the index (`CrashStrands`
says what a crash does to them), and a failed index write excuses none. A call is *taken*
(`Taken`) once an accept has consumed its ring; `AcceptInv` says that a handler inside an
accept carries such a call, and `BareInv` that a call not taken is in no index, which is
why only opened calls are ended or lapse (`OpenedCall`). The refinement's invariant `Claims`
adds that the sockets a handler has yet to join are of its call's pair. A teardown begins
by marking its call as over (`FinishSeen`), and the compare-and-delete of the pair's key
is then an `Unlist` of that call alone.

### Payments

`PaymentsProofs` proves, for any handlers, invoices, package sizes, prices and bounds,
from the assumptions in `Payments` alone:

- `PaymentsTypeCorrect`: `Spec => []TypeOK`;
- `BalanceIsLedger`: `Spec => []LedgerBalances`;
- `HoldIsDebt`: `Spec => []HoldMatchesDebt`;
- `ImplementsAccount`: `Spec => AccountSpec`.

*The argument.* `IInv` adds two parts to the types and the two properties. `Busy` says
what a handler holds where it stands: an invoice, something left to credit or take, and
no more wanted than is left; without it a clawback could take more than its refund, and
a credit of nothing would stand for a repayment. `PaidHasRow` says that an invoice once
credited has its row in the ledger; with the unique index this is why a second credit
writes nothing, whatever has become of the status in between. The lemmas `RepaidFacts` and
`CreditStep` carry the arithmetic: a repayment is part of the credit and of the debt, so
a credit of `n` adds exactly `n` to `balance - held`. Each action that moves coins has a
lemma that it keeps `IInv` and is a step of `CoinAccount`; `AsideAccount` says that all
others leave the account alone.

`PaymentsOutcomeProofs` adds, over `IInv`:

- `CompletedPaymentsPaid`: `Spec => []CompletedIsCredited`;
- `ReversalsAreWhole`: `Spec => []ReversalIsWhole`.

Both speak of moments when nothing is in flight, so their invariant must say what each
handler still owes its invoice. `ClaimOwed`: a completed payment is paid, or some Pay is
on its way to credit it or to undo its claim; it needs that a row in the ledger means a
paid invoice (`RowIsPaid`) and that each await belongs to one kind of handler (`InRole`),
so that what a crash cuts off is known by its kind and its invoice: the invariant is
stated invoice by invoice, and a crash takes only the invoice of its handler out of it.
`Whole`: what the reversal of an invoice set out to take is what it has taken, plus what
the handler that runs it has yet to take or has just taken and not yet recorded
(`NothingGot`: nobody else has such coins).

### Sessions

`SessionsProofs` proves, for any requests, devices, tokens and bounds, from the assumptions
in `Sessions` alone:

- `SessionsTypeCorrect`: `Spec => []TypeOK`;
- `RotationIsExclusive`: `Spec => []HandedTokensAreLinked`;
- `RotationHonoursRevocation`: `Spec => []SuccessorDiesToo`;
- `OnlyOvertakenRevive`: `Spec => []RevivedOnlyByRace`.

*The argument.* `LocalInv` and `FamilyInv` say what a request holds where it stands, and
that a row, its parent and its successor are of one family. `RelyInv` is the key: a
request that trusts a row which has been revoked meanwhile is in `raced`. Every
revocation is of whole families, so a successor is revoked with its row unless it was
not inserted yet, and then its request is in `raced` and `Link` fails.

`SessionsReuseProofs` proves `BrowsersNeverBurn`: `Spec => []BenignNeverBurned`, and
`ImplementsTokenFamilies`: `Spec => FamilySpec`. The invariant of the first adds to the
one above that every revoked row is of an excused family, and that a token a browser holds
or presents is unlinked, or linked within the grace window by a request that is yet to
answer, or excused. Excuses only grow. The step that matters is the end of the response
that links a row: it replaces the cookie, so no request that starts later presents the
row, and those that have started keep `Age` and `Purge` of that row from going without an
excuse. The refinement needs `KnownInv` and `Hand`: a token that a request has minted is
in no other hand and has been seen by no client, a candidate is revoked only together with
the row that it is to succeed, and only a row already succeeded is re-issued. So the
compare-and-set of `Link`, which looks at the row alone, is a step `Succeed` of the
abstract families, which asks about the successor as well.

### Presence

`PresenceProofs` proves, for any finite set of sockets, any deployments and any bound, from
the assumptions in `Presence` alone:

- `PresenceTypeCorrect`: `Spec => []TypeOK`;
- `CounterIsSockets`: `Spec => []CountIsSockets`;
- `CapIsKept`: `Spec => []CapHolds`;
- `BanIsEnforced`: `Spec => []BanSevers`.

*The argument.* `LifeInv` ties the three program counters of a socket to its transport: a
socket is bound after its ban check and cleaned up once. `SlotsInv` says that the slots are
the sockets that hold one, within the cap, until a count is erased. `TraceInv` says where
a socket is counted: from its `INCR` to its `DECR` and not outside, so `conn` is the
cardinality of `counted` and the clamp at zero never fires without a fault. `BanInv` says
that a socket past the disconnect of its replica was refused, severed or a straddler.

### What is only model-checked

What depends on fairness, which the prover does not handle: `MatchEventuallyClosed`,
`ShownWhileConnected` and `HiddenOnceGone`. Every safety property and every refinement
that a passing run checks is also a theorem (`NoMissedPair` under `PoolsFit`, as said
above). Each strengthened invariant was checked by TLC on the instances above before it
was proved, and those of `DirectCalls` and `SessionsReuseProofs` on larger ones.

## Plan

1. Done: matchmaking and the match log, direct calls, payments with the wallet in a
   transaction, sessions, presence with the socket cap; the proofs about all five and four
   refinements.
2. *Wallet without transactions*: the fallback for a standalone MongoDB step by step, with
   its compensations, against `CoinAccount`.
3. *Sanctions*: reports, appeals, strikes and bans, with the claim before the effect.
4. *Renewals* of premium and *referrals*, whose caps are read before they are counted.
5. Proof: an abstract specification of `Presence`.

At most one violation run is planned per real disagreement met on the way.

## Not modelled

The components marked `not_modelled` in `PROJECT.json`: those of the plan above that
are not reached yet; those that only read and write single documents (friends,
notifications, most of profiles and of the admin panel), where two steps have
nothing to disagree about; and those that are I/O, schemas or user interface: the provider
clients, mail, TURN, metrics, the adapter, and the web, admin and mobile clients, which are
most of the repository's lines. The server models stand for the clients by letting them
send any message at any time.
