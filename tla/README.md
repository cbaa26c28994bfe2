# MoaWorks: TLA+ models and proofs

MoaWorks is a Korean groupware suite: a FastAPI/PostgreSQL backend
(`src/backend/app`), its background workers, a mail gateway, a user portal, an
administration portal, a desktop and a mobile client (`src/frontend`). This
directory holds TLA+ modules of its core logic, the TLC runs that check them and
the TLAPS proofs about them. The modules are written from the code; each
definition is tied to its lines in `PROJECT.json` (`map`).

## 1. The system

On the server almost all state lives in PostgreSQL and is changed by short
transactions at READ COMMITTED. Correctness rests on row locks (`FOR UPDATE`,
`SKIP LOCKED`), on guarded `UPDATE ... WHERE ... RETURNING`, on unique indexes and
on advisory locks. What makes it hard is everything between two transactions:
SMTP and POP3 exchanges, worker processes that die, leases that run out, people
and remote servers that act in the meantime.

In the clients a handler runs from one `await` to the next without interruption
and sees the values of the render it was called from. Correctness rests on request
counters, generations, abort controllers and gates that are compared after the
`await`. What makes it hard is everything that happens during it: the answers
overtake each other, fail, or come back to a screen, a form or a session that is
no longer there.

| component | state | operations | correct when |
|---|---|---|---|
| Outbound delivery queue (`mail_delivery_operations`, `mail_delivery_service`, `mail_transports`, `workers/mail_delivery_worker`) | `mail_delivery_queue`, `mail_delivery_attempts` | enqueue, claim, renew, recover, finalize, defer, retry | no copy is sent twice unless someone accepted the risk; every claim ends; the attempt log has no gap |
| Daily quota (`mail_daily_send_quota`) | `mail_engine_daily_send_usage` | reserve | never more than the limit reserved per day |
| DSN feedback (`mail_delivery_feedback`) | `mail_delivery_feedback`, queue status | record | a report does not reopen what only a person may reopen |
| Auto-forwarding (`mail_auto_forwarding_service`) | policies, exceptions, `mail_auto_forward_deliveries` | apply_recipient, reconcile_original_retention | an original is deleted only when, and once, all forwards are delivered |
| External POP3 collection (`mail_external_service`, `workers/mail_external_worker`) | accounts, collection jobs, imports | enqueue, claim, collect, requeue; account create/update/test/delete | a remote message is deleted only after it was imported; imported once |
| Administrator MFA, break-glass access, tokens (`auth_service`, `admin_mfa_service`, `admin_mfa_break_glass_service`, `api/dependencies`) | profiles, challenges, recovery codes, break-glass requests, session version | sign in, verify, enrol, recover, approve, execute | a code is accepted once; the newest enrolment wins; a token does not outlive what it was earned with |
| User portal, mail screen (`user-web/src/App.tsx`) | folder, page, lists, selection, detail, badge, flags | open, page, select, mark, move, star, bulk | the screen shows what it says it shows, whatever order answers come in |
| User portal, compose window (`App.tsx`, `MailRichTextEditor.tsx`) | form, images, object URLs, uploads, submissions | open, edit, upload, undo, send, save | no URL leaks or is revoked in use; a draft is replaced only by its own edit |
| User portal, notification stream (`App.tsx`, `observability_service`) | stream request, timer, retries, cursor | start, reconnect, fall back, stop | one stream at most; what is new is shown |
| Mobile app, session (`mobile-app/auth-session.js`, `App.tsx`) | generation, token | sign in, commit, clear, run protected requests | nothing of a session that is over signs in, signs out or appears |
| Mobile app, actions and personal AI (`App.tsx`, `mail-schedule-ui.js`, `personal-ai-api.js`) | gates, pending flags, forms | send, create, load, save, test, ask | a gate is closed exactly while its action runs |
| Desktop client, API broker (`desktop-client/electron/api-broker.js`) | one credential | login, perform, logout | a credential that was refused is not used again |
| Mail provider (`mail_delivery_operations`, `outbound_provider_resolver`) | `mail_provider_configs` | update, test | delivery opens only for the configuration that was tested |
| SMTP submission intake, inbound ingest | submissions, messages, recipients | accept, ingest | a retried submission is queued once, a redelivered mail stored once per recipient |
| Scheduled mail, out-of-office (`mail_messenger_service`) | `mail_messages`, response log | schedule, dispatch, cancel, reply | dispatched once or cancelled, never both |
| Mailbox and operational backup | jobs, files | request, run, expire | leases, no job run twice, files removed |
| Directory, approvals, workspace, messenger rooms, notifications, translation, organisation import | own tables | CRUD, submit, approve | mostly single-transaction updates |
| Administration portal, other screens of the user portal | section state | load, save, reload | like the mail screen |

Interactions: the composing user, the submission intake, the auto-forwarder and
the out-of-office responder all insert into the delivery queue; the worker
drains it, spends the daily quota, and inside its final transaction updates the
forward records and may delete the forwarded original; the inbound gateway
turns a bounce into a DSN that rewrites the queue row; the POP3 collector feeds
the same auto-forwarder and classifier as the inbound gateway. The clients call
the same API with a token of `auth_service`; nothing else connects them.

The hazards, each at its line, are in `PROJECT.json` (`hazards`); its `components`
say of every part whether it is modelled, partly modelled or not.

## 2. Modules

| module | what it is |
|---|---|
| `AtMostOnceDelivery` | what the delivery queue promises the people who read it (abstract) |
| `MailDelivery` | delivery queue, workers, SMTP exchange, quota, DSN, deletion of forwarded originals; implements `AtMostOnceDelivery` |
| `ExternalCollection` | collection from an external POP3 account: jobs, leases, the POP3 session, imports; the account's edits and connection test |
| `AdminMfa` | the sign-in of an administrator: challenges, enrolment, recovery, break-glass, tokens |
| `UserMailbox` | the mail screen of the user portal |
| `MailCompose` | the compose window and its editor |
| `NotificationStream` | the notification stream and the endpoint it reads |
| `ClientSession` | what a client with a sign-in promises (abstract) |
| `MobileSession` | the session of the mobile app, which implements `ClientSession` |
| `MobileActions`, `MobileAi` | the gated actions and the personal AI of the mobile app |
| `DesktopBroker` | the credential of the desktop client |
| `MailDeliveryProofs`, `ExternalCollectionProofs`, `AdminMfaProofs`, `UserMailboxProofs`, `MailComposeProofs`, `NotificationStreamProofs`, `ClientAppProofs` (mobile app and desktop client), `ClientsProofs` | the theorems |
| `MCMailDelivery`, `MCExternalCollection`, `MCUserMailbox`, `MCMailCompose`, `MCClients` | instances for TLC |

### MailDelivery

One row of the queue is one (mail, recipient). `status`, `attemptCount`,
`claimToken`, `workerId` are its columns; `lease` abstracts `lease_expires_at`
to none/live/expired and `due` abstracts `next_attempt_at <= now`. Time only
appears as the actions `LeaseExpires`, `BecomeDue` and `NewDay`.

A worker (`pc`, `job`, `lost`, `mx`, `result`) follows `run_once`. Each SQL
transaction is one action and so is each point of the SMTP exchange at which a
failure has a different meaning:

    idle -> claimed -> prepare -> reserve -> dial -> session -> data -> payload -> record -> idle
      \-> recover ------------------------------------------------------------------------/

- `Claim`, `FindExpired`/`RecoverExpired`: `claim_next`. Recovery is two
  transactions in the code, so it is two steps here and another worker can act
  between them.
- `CheckOwner`, `KeeperLosesClaim`, `GiveUp`: `renew_claim` from the main thread
  and from the keeper thread, with the shared `lost` event.
- `Prepare`, `Reserve`, `Dial`, `EnterData`, `EnterPayload`, `RefusedBeforeData`,
  `PayloadRefused`, `PayloadAccepted`, `PayloadLost`: `deliver_claimed` and
  `send_smtp_data`, one MX candidate after another.
- `FinalizeClaim`, `DeferForQuota`, `RecordRefused`: the final transaction, with
  its guarded UPDATE, the attempt insert, the forward record and the
  reconciliation of the original.
- `Retry`, `SenderRetry`, `RecordFeedback`, `ProviderChanges`: people and remote
  servers.
- `Abandon`: an exception outside the delivery or the end of the process, at
  any step.

History variables (`copies`, `acceptedBy`, `exposed`, `confirmed`, `manual`,
`dsns`) record what the outside world saw; no guard reads them except the
bounds on requests and the fact that only a server that took a copy reports on
it.

Abstracted: message bodies, attachments and addresses; audit rows; heartbeats;
which provider a row uses (one provider, `ready` = unlocked and tested).
`reconcile_original_retention` runs atomically with the final transaction here;
two final transactions that overlap may each miss the other's status in the code,
which can only leave an original undeleted.

`AtMostOnceDelivery` says what remains of this for the people who read the row.
It knows no claims, leases, workers, MX candidates or crashes, only per recipient
what the row reads (`told`), the copies that servers took, the payloads of which
nobody knows whether one was taken (`underway`), and the confirmations and DSNs
(`granted`). A payload goes out on a permit (`Permitted`); only a refusal by the
server gives it back; the row reads `sent` once there is a copy, and anything that
may lead to another try only while a permit is left; `result_unknown` is left by a
confirmation or a DSN only, `sent` by a DSN only. `MailDelivery` implements it
(`KeepsPromise`): `told` is `status`, `underway` counts the claims exposed and not
accepted, `granted` is `confirmed + dsns`. A worker that dies after the payload
leaves its claim in `underway` for ever, which is why no later step can take its
permit. `dsn_reopens` is no contradiction: the promise counts a DSN as a permit,
because the code does.

### ExternalCollection

One account and its newest job. `jobStatus`, `attempts`, `lease`, `jobDue` are
the job row, `box`, `connection`, `enabled`, `deleteRemote`, `gone` the account
row, `imports` the rows of `mail_external_imports` by UIDL. A `Box` stands for
the connection fields and the password; `drop` is the set of messages the remote
servers hold.
`run` holds the local variables of `run_once` and `session` its POP3 client:

    idle -> [enqueue] -> claim -> context -> open -> loop -> item -> remote -> store -> stored -> loop
                                                      \-> quit -> states -> finalize -> idle
    any step -> abort -> giveup -> idle          loop -> lost -> idle

- `Sweep`, `EnqueueScheduled`, `Claim`: `_enqueue_scheduled` and `_claim`. The
  effects of the sweep are visible at once here; in the code the rows stay locked
  until the same transaction has inserted the new jobs.
- `Heartbeat`, `Lookup`, `Reopen`, `Disappeared`, `DeleteOnly`, `Retrieve`,
  `Store`, `DeleteStored`, `ItemFails`: one message of the loop. Each database
  transaction and each POP3 exchange is a step. A message is addressed by its
  position in `session[w].msgs`, the listing of the client that is open now; a
  server may number its messages differently in every session (`Listings`).
- `Quit`, `RecordStates`, `Finalize`, `LeaseLost`, `Disconnect`, `GiveUp`: the
  end of a run, with QUIT heard and confirmed, heard and not confirmed, or lost.
- `UpdateAccount`, `StartTest`/`EndTest`, `CheckCollect`/`QueueCollect`,
  `CheckDelete`/`DeleteAccount`: the user. The code checks and writes in two
  statements without a lock, so they are two steps.
- `Arrive`, `Expunge`: the world outside.

`lease_owner` is the same constant in every process, so `HoldsLease` asks only
whether the job is still running; nothing tells a stale worker from the current
one. `ItemFails` merges the handler's updates of the import states, which only
move between `pending` and `failed`, and `uidl_action` treats these alike.

Abstracted: sizes and limits, MIME parsing, attachments; what storing a message
triggers (spam, classification, forwarding, replies). POP3 servers that lock a
maildrop for one session have fewer behaviours than the model allows.

### AdminMfa

One administrator, with `ADMIN_MFA_ENFORCEMENT` required. An action is one
transaction; each locks the rows it changes. A handler that runs several
transactions leaves a record in between, and everybody else may act then:
`logins` (the purpose is decided, the challenge not yet issued), `resolved` (the
flow or the actor was found valid), `changing` (an address was verified),
`reenrolling` (a recovery is about to issue its flow), `signing` (a code was
accepted, the user not yet read again). `HandlerDies` drops such a record.

- `challenges` is the sequence of `admin_mfa_challenges` in the order they were
  issued; a place in it names a seed. `profile` is the row of
  `admin_mfa_profiles`, `codes` the recovery codes that are left, `glass` the
  break-glass requests with their approvals, `sessionVersion` the column of the
  user, `tokens` what was issued, `accepted` (history) the steps of the codes of the
  enrolled seed that were accepted, in the order in which they were.
- Sign-in: `AdminLogin`, `IssueLogin`, `VerifyLogin`, `IssueToken`, `StepUp`.
- Enrolment: `Resolve`, `RequestEmail`, `VerifyEmail`, `ChangeEmail`,
  `StartEnrolment`, `ConfirmEnrolment`. A flow challenge or a token stands behind
  each of them.
- Recovery: `RequestRecovery`, `RecoverByMail`, `RecoverByCode`, `IssueReenrolment`.
- Break-glass: `CreateGlass`, `ApproveGlass`, `CancelGlass`, `ExecuteGlass`.
- `Tick` is the next TOTP step, `ChallengeExpires`, `TokenEnds`, `ResetPassword`
  the rest of the world.

`since` is history: it remembers in a signing handler and in a token which seed
the administrator proved to hold, and after how many executed break-glass
requests. No guard reads it or `accepted`. Abstracted: passwords, wrong codes before the
fifth (which cancels its challenge and is a step), rate limits, audit rows, who the custodians are.

### UserMailbox

The mail screen of `App.tsx`: `openFolder` and `offset`, the `lists`, `selected`
with its `detail`, the `checked` mails, the `badge` and the flags. Every handler
runs to its first `await` and each answer runs it on to the next. What it read
before (the folder, the page, the mail) is the render it was called from, so a
request in `pending` carries these values. The request counters of the code are
the field `current`, cleared by every later request of the same kind; `awaited`
is the bulk action that waits for a reload. A handler also keeps the token of its
render, and the next sign-in brings another one, of the same user or not:
`mine` says that the token is still the one of the screen, and a sign-out clears
it. `refreshUnreadCount` does nothing for an old token.

User: `OpenMailFolder`, `TurnPage`, `Refresh`, `SelectMail`, `OpenFromElsewhere`,
`CheckMail`, `RunBulkMailAction`, `ToggleStar`, `ReadAction`, sign-in and sign-out.
Network: `ServerHandles`, then one action per kind of answer, or `Fails` before or
after the server has handled the request. `unheard` is history: a change that no
count follows, since its answer was lost or it carries the token of an earlier
sign-in of the same user. The server changes a mail only for its owner and only from a box
in which it finds it (`Permits`, `Target`); a mail deleted from the spam folder is
in `spamTrash`, the part of the trash from which it goes back to spam.

### MailCompose

The compose window with its editor (`MailRichTextEditor.tsx`): the form (`body`,
`editing`, `retained`, `forwarded`, `newFiles`), the list `images` with object
URLs, and of the editor `registry` (content id to URL), `waiting` (uploaded, not
yet in the text), `reserved` (places given out) and `erased` (what undo brings
back). Uploads and previews on their way compare counters after the `await`, one
of the window (`current`) and one of the editor (`live`). A submission keeps the
`editing` of the render it was started from. `urls` is the set of object URLs that
are not revoked; `opened` is history: how the form was opened, and from what.

### NotificationStream

The stream is a request that the server answers at once with one page; the
client asks again after a pause, from the cursor of the last page. `Create` is
the server, `SignIn`, `SignOut` and `Reload` the user; `TimerFires`,
`StreamAnswers`, `StreamFallsBack`, `StreamFails` the stream;
`NotificationsArrive` and the failure of a load the list with its retries.
`failures` and `gaveUp` are history; `gaveUp` is set where `scheduleReconnect` runs
out of retries, not where a fallback, or a failed load of one, ends the stream.

### ClientSession, MobileSession, DesktopBroker

`ClientSession` is the abstract specification of a client with a sign-in: a
session begins only for the attempt the user started last, ends only because the
user leaves or the server refused that session's credential, and nothing of it
stays on the screen. `MobileSession` models `auth-session.js` and the handlers of
`App.tsx` that use it; a token is named by the generation of the attempt it was
issued for, and a protected request carries the generation and token its handler
captured. It implements `ClientSession`: `KeepsSession` is `Client!ClientSpec`,
where `Client` maps the attempt of the current generation to `wanted`, the active
token to `active` and the token the data was read with to `shown`.

`DesktopBroker` has one credential and no generation: a sign-in that answers
late replaces the credential of a later one. What it keeps nevertheless is that a
credential the server refused is dropped and not used again.

### MobileActions, MobileAi

Gates live in refs and change at once, the pending flags belong to a render. An
action carries its session and compares it after each `await`. `MobileActions`
has the mail dialog, the room translation, creating a room, a direct conversation
or a schedule, and the requests for the people of the room composer. `MobileAi`
has the gate with tickets, the settings form and two sides of the configuration at
the server: `stored`, the row of the user, and `fallback`, the provider of the
administrator's default. `Effective` is `_effective_config`: the row if it can be
used, else the default, else nothing.

A request of `MobileAi` goes through stages. A save reads the row (`AiReads`),
writes it (`SaveWrites`) and is answered with the configuration in force then
(`AiReplies`), which without a key is not what was saved. A test reads the
configuration, calls the provider and records the result (`TestRecords`), whatever
the row has become. `AiFails` opens the gate of a request, but a save or test that
still has something to write stays, marked `lost`: the server goes on with it, and
nobody hears of the result. Three history variables name what the properties
except, and a rival request has to set them: `foreign` (another client, the
administrator, or a request that is no longer waited for changed the server),
`swapped` (a save was answered with another provider) and `overrun` (a load brought
the stored configuration over an unsaved edit when the app resumed).

### MCClients

The client components share no state. Interleaving them would multiply their
states and show nothing, so a behaviour takes steps of one of them, the one in
`focus`; nothing is said about the others in it.

## 3. Runs

| run | instance | checks |
|---|---|---|
| `delivery` | 2 workers, 1 row, 2 MX, 3 claims, 1 manual retry, 1 DSN | `TypeOK`, `AtMostOnce`, `AttemptLogContiguous`, `AcceptedStaysClosed`, `RetryBudget`, `KeepsPromise` (the refinement of `AtMostOnceDelivery`) |
| `forward_quota` | 2 workers, 2 forwards of one mail, limit 1, 2 MX, one midnight | `OriginalDeletedAfterForward`, `DailyLimit` |
| `claims_end` | fair, 2 workers, 1 row | `ClaimsEnd`: no row stays in processing |
| `dsn_reopens` | 1 DSN | expected violation of `UnknownNeedsConfirmation` |
| `collect_two` | 2 workers, 1 message, 1 job | a stale and a current worker: `TypeOK`, `ImportedOnce`, `DeletedWasImported`, `RecordedDeletionHappened`, `AttemptBudget` |
| `collect_one` | 1 worker, 3 messages numbered anew in each session | sessions reopened in the loop: `DeletedWasImported`, `CompletedCollectedAll` |
| `collect_end` | fair, 1 worker, an edited account | `JobsEnd`: every job ends |
| `collect_uidl` | 2 maildrops with the same UIDL | expected violation of `DeletedWasImported` |
| `collect_stale` | 2 workers | expected violation of `StaleOwnerStops` |
| `clients` | one component at a time | the 23 properties below |
| `stream_new` | fair, 2 notifications that fit on one page | expected violation of `NewIsShown` |
| `compose_draft` | a stored draft, a received mail | expected violation of `DraftIsItsOwn` |

The properties of `clients`:

| component | properties |
|---|---|
| mail screen | `LoadedDetailIsSelected`, `ListIsOfFolder`, `BadgeIsTrue`, `BulkBusyIsTrue`, `SelectionIsShown` |
| compose window | `UrlsAreOwned`, `ReservedIsTrue` |
| stream | `OneStream`, `GivesUpOnlyAfterFailures` |
| mobile session | `ScreenIsOfSession`, `KeepsSession` (the refinement) |
| desktop | `RejectedIsDropped` |
| mobile actions | `GateIsHeld`, `SpinnerIsTrue`, `OneAtATime` |
| mobile AI | `AiGateIsHeld`, `ReadyIsStored`, `ModelsAreOfProvider`, `UnsavedIsKept` |
| administrator MFA | `TokensAreCurrent`, `NewestEnrolment`, `CodesAreSpent` |
| all | `ClientsTypeOK` |

Each property is stated in words above its definition. Every property of a
passing run has a mutant: a definition next to the one it replaces, named
`Mut...`, that is the plausible mistake (retrying after a lost reply, an
off-by-one in the retry count, a request counter that is not compared, a gate
opened by whoever comes back, ...).

Bounds of the delivery runs. `MaxToken` bounds the claims in total: three are
needed for a claim, a takeover and a retry after it. `MaxMX` = 2 gives a first and
a last candidate; `MaxManual`, `MaxDsn` = 1 let each request interfere once with
every step of a delivery; `MaxRetry` = 2 has a retried and a final attempt. Rows
interact only through the quota and a common original, so one row suffices for
the other properties and `forward_quota` has two: with a limit of one the second
forward has to wait for the next day, while the first may still fail.

Bounds of the collection runs. A job is tried three times, so one job already
has interrupted runs and their repetition. Three messages are the fewest for
a failure with a deletion pending before it and a session reopened after it;
two suffice for a number of an old session to name another message. Two workers
contend for one message; a second message only adds positions of the loop.
`MaxUpdates` = 1 moves the account once.

Bounds of `clients`. What goes wrong in a client is one answer that comes back
after one or two further steps of the user, so few steps in every order are worth
more than many. The mail screen has 4 user steps with 2 requests on their way, 2
unread mails in an inbox, the trash and the local archive, and a page size of 1
(there is a second page); the compose
window 4 steps with 2 uploads and room for 2 images; the stream 2 notifications,
2 sign-ins and 2 retries; the mobile session 3 attempts (one that fails, one that
is overtaken, one that succeeds) and 2 requests; actions 3 taps in 2 sessions; the
AI 4 steps with 2 providers, one of which needs no key, and either an untouched
server or a row and a default that are ready; the broker 3 sign-ins and 2 requests;
MFA 3 challenges (a sign-in, a verification of the address and an enrolment, or a
recovery with a new enrolment; who is about to issue one begins only while there is
room, and a pending break-glass request keeps a place for its own), two handlers
between two transactions (the second is a sign-in whose code was accepted, or it
entered before the first challenge: `MaxWork`),
one break-glass request with 2 custodians, one password reset, 2 clock steps. Larger
instances of single components were run to the end as well, without an error: the
compose window with 5 steps (517,973 states), actions with 4 taps (333,466), the AI
with 5 steps (about 843,000), MFA with any two handlers at once while there are
fewer than 3 challenges (`MaxWork` = 3: 1,873,210).

Symmetry is used where the sets of workers or messages are interchangeable and no
temporal property is checked under it; `collect_one` checks an action property,
which permutations of messages keep.

Deadlock is checked in the delivery and collection runs: a row can always be
touched by a DSN, the provider or a worker until the bounds are used up, and
`ProviderChanges` stays enabled then. The client runs stop when the user has used
up his steps and nothing is on its way, so they do not check it.

Fairness of `claims_end`: a running worker takes its next step (SMTP and database
calls have timeouts); time passes once nobody renews a lease; an expired row is
found again because the pollers return every few seconds and claim the oldest
row first; a worker does not die at each of infinitely many recoveries. Nothing
is assumed of people, remote servers or the provider.

Fairness of `collect_end`: a living worker goes on (POP3 commands time out after
20 s, a job after 300 s), a queued job becomes due, a lease nobody renews runs
out, and a restarted process does not die in each of infinitely many attempts to
queue or claim. Nothing is assumed of the user or of remote servers.

Fairness of `stream_new` (`StreamLive`): the timer fires, and a request that is on
its way is answered by the server. The property fails even so, without a lost or
failed request.

## 4. Proofs

Every theorem holds for all values of the constants that satisfy the `ASSUME` of
its module (numbers are natural, sets that are counted are finite, keys and
model values are distinct), and for behaviours of any length. All theorems are
listed in `PROJECT.json` with the property each establishes. `MaxToken`,
`MaxTaps` and the other bounds are parameters of the proofs too: none of them
uses how large they are.

`MailDeliveryProofs` proves, for every set of rows, every finite set of workers
and every value of the bounds, all safety properties of the passing runs. The
assumptions are `SetsAssumption` and `BoundsAssumption`. The argument, in order:

1. `Typed`: every variable has its type, and a worker that records has a result.
2. `Fresh`: tokens in use are below the next fresh one; two workers that hold a
   claim hold different ones. This is what fencing by claim token buys.
3. `Snapshot`: while a processing row carries the token a worker knows, the
   `attempt_count` the worker read is still the row's.
4. `Phase`: what the position of a worker says about its claim: before the
   payload and after an explicit refusal the claim has exposed nothing; in the
   payload it is exposed and not accepted.
5. `Backed`: one copy per accepted claim, accepted claims were exposed.
6. `Budget`: exposed claims, plus one in reserve while the row may still be sent
   without anybody's consent, stay within 1 + confirmations + DSNs. At-most-once
   is not inductive by itself: the reserve is what says that a row whose claim was
   exposed without a refusal is closed.
7. `Attempts`, `RetryResult`: the same reserve argument for automatic retries.
8. `ForwardTaken`, `SentWasAccepted`, `AttemptLogContiguous`, `QuotaBudget`.

Their conjunction `IInv` is inductive (`InitIInv`, `NextIInv`); the theorems
follow from it. Steps whose actions touch none of an invariant's variables are
proved together.

`PromiseKept` proves the refinement of `AtMostOnceDelivery`. `ExposedSplit`
splits the exposed claims into those accepted and those under way, so a row's
permits are its confirmations and DSNs plus one, minus its exposed claims; and
`OpenPermitted` turns the reserve of `Budget` into a permit. From there each step
is one of the promise or a stutter (`PromiseStep`): the claim that enters its
payload is not exposed yet (`Phase`), so its row is open and there is a permit
(`ExposeStep`); a refusal or an acceptance ends exactly the claim it belongs to,
which is under way (`RefuseStep`, `AcceptStep`); a worker that records a failure or
another try exposed nothing, so the permit is still there (`FinalizeSettles`,
`OtherSettles`); what people and servers ask for is a `Resend`, a `Confirm` or a
`Report` (`RequestStep`).

`ExternalCollectionProofs` proves the invariants of `collect_two` and the
action property of `collect_one` for every set of workers, every finite set of messages and all
bounds, from `BoxAssumption` and `BoundAssumption`:

1. `Typed`: types and `LocalAt`, what the position of a worker says about its
   local variables: the loop is at a message of its listing, a message found is
   still in the open session, a closed client marks nothing, deletions wait only
   between the loop and QUIT. `OwnStep` shows that each step of a worker keeps
   this and changes no other worker; `ImportStep`, `RemoteStep` and
   `SessionStep` then sum up what a step does to the import rows, to the
   maildrops and to the session, and the invariants below use only these.
2. `Backed`: a message has a copy only if it has an import row, and then one;
   what a worker marks, or is about to delete, has an import row.
   `ImportedOnce` follows (`StoredOnce`).
3. `RowHasCopy`: an import row comes with a copy of *its* message. This needs
   `DistinctUidls`, and with `Backed` it gives `DeletedWasImported`
   (`PersistThenDelete`). The run `collect_uidl` shows the premise is needed.
4. `Settled`: a UIDL in `pending` is marked in the open session until QUIT, and
   its message has left the server when QUIT confirmed it. A closed client has to
   empty `pending` for this to hold. `RecordedDeletionHappened` follows under the
   same premise (`RecordedMeansGone`).
5. `Tries`: the attempts of the job, plus one for each worker that still works on
   an older attempt, stay within `MaxAttempts + Cardinality(Workers)`.
   `AttemptBudget` is not inductive by itself, because a late worker that fails
   puts the job of the current one back into the queue; the count of the late
   workers pays for that (`TriesBounded`, for a finite set of workers that is not
   empty).
6. `Gathered`: for each worker in the loop, `failed` is set or every message
   of the listing before its position has an import row; after the loop that is
   the whole listing. `CompletedIsComplete` follows: a job completes only when
   everything it listed was collected.

`AdminMfaProofs`: `MfaInv` joins `MfaTypeOK` and `NewestEnrolment` with
`SeedWasIssued` (the enrolled seed is one of the challenges) and `VersionsInOrder`
(what a handler or a token remembers of the session version and of the profile is
not ahead of the present, and where both are equal to it, so is `since`). The second
is what `TokensAreCurrent` needs: the versions of a token are read at two times, and
both only grow. `AcceptedInOrder` joins `CodesAreSpent` with the fact that makes it
inductive: no accepted step is later than the `last` of the profile. A sign-in and a
step-up accept a later one only; a confirmation begins the history of another seed.

`NotificationStreamProofs`: at most one request is not aborted, an armed timer
excludes it, neither is there when nobody is signed in or the client has given up,
and the retries are at most one ahead of the failures. `OneStream` and
`GivesUpOnlyAfterFailures` follow.

`StreamTypeCorrect` needs one fact that is not about types: the cursor is the
largest number of a page, so a page that is not empty must have a largest number
(`HasLargest`, from the well-foundedness of the naturals).

`UserMailboxProofs`: `MailboxInv` has six parts, one for each way the answers can
overtake each other, and next to it stands `MineIsOurs`: a request with the token of
the screen is one of the user who is signed in.

1. `MailboxTypeOK`.
2. `NamesOneMail`: the requests that are about one mail name one.
3. `DetailInv`: `LoadedDetailIsSelected` and `SelectionIsShown`, and the newest
   detail request is about the mail that is selected.
4. `LoadInv`: the newest list request, unless a bulk action waits for it, is for the
   folder and page that are open, and a list that was loaded for something else has
   such a request on its way. `ListIsOfFolder` is the case where nothing is.
5. `BulkInv`: there is at most one bulk action with the load it waits for, and the
   flag is set when there is one. `BulkBusyIsTrue` follows.
6. `CountInv`: at most one count will still be shown, and it is of the user who is
   signed in. Unless a request is on its way that has the mails counted again (it
   carries the token of the screen), or `unheard` says that none will, the number is
   true where it is: on the badge, or in the answer on its way.
   `BadgeIsTrue` says this of the moments at rest only and is not inductive: the
   requests that may still change the number have to be in the invariant.

Frame lemmas say for each part which variables and requests it depends on, and
lemmas about renewed requests what an action that adds, replaces or supersedes one
does to it; there is one lemma per action.

`MailComposeProofs`: `ComposeInv` joins the types (`WrittenInv`, `MediaTyped`) with

1. `OneImageEach` and `OwnersApart`: a content id has one image, and the list of
   images and the editor hold different URLs. `UrlsAreOwned` is not inductive
   without the second: what one of them revokes the other must not show.
2. `UploadsAreNew`: an upload on its way is the only one of its content id, and
   neither the list nor the editor has an image of it. Without this, an upload that
   arrives could replace a URL that nobody revokes. It also leaves, by counting,
   two URLs unused (`RoomForTwo`): the bound on the object URLs of the model is
   never what stops an upload.
3. `PlacesAreHeld`: `ReservedIsTrue`, counted by content ids, because clearing the
   list changes every request (`current`) but no content id.

Every way the images change goes through one of three operators of the model
(`UnmountEditor`, `ReplaceBody`, `ChangeDocument`), each with a lemma
(`UnmountKeeps`, `ReplaceKeeps`, `ChangeKeeps`), or is an upload or a preview that
settles.

`ClientAppProofs`, mobile session: the attempts and contexts are not newer than the
current generation and the active token is the one of the current generation or
none. From this `ScreenBelongsToSession`, and that every step of `MobileSession` is
a step or a stutter of `ClientSession` (`MobileKeepsSession`).

Mobile actions: among the actions of the current session there is at most one per
gate; a closed gate has its action, an action has its gate, a flag has its action.
Actions of former sessions are outside all three, and that is the point: they come
back and have to leave everything as it is.

Mobile AI: `AiInv` has a part about the gate (`GateInv`: tickets are fresh, and the
request that holds it is the only one the app waits for) and one about the form
(`FormInv`: what a request on its way was started with still fits the form, since
the form cannot be edited meanwhile; and as long as nobody else has changed the
server, a configuration that was read for it is the one in force). The second needs
the first. Requests that were given up are in neither part: what they write sets
`foreign`, and that is why `ReadyIsStored` has its premise.

Desktop broker: the sign-ins on their way are not among the credentials that were
used or refused; so a refused credential cannot return with a late answer.

`ClientsProofs`: the composition that the run `clients` checks implements the
specification of each component (`ClientsAreComponents`), so all the invariants
and action properties of that run hold of it for every value of the constants
(`ClientsSafe`, `ClientsKeepSessions`, `ClientsTypeCorrect`).

Only model-checked: the liveness properties `ClaimsEnd` and `JobsEnd`, since
liveness under fairness is out of the prover's reach. Every invariant and action
property of a passing run is proved. The violated properties have
counterexamples instead. There is no induction over data and no recursive operator
in the modules.

## 5. What a reader should know

- `dsn_reopens`: the administrator may resend a `result_unknown` mail only after
  confirming the duplicate risk (`mail_delivery_operations.py:153`), but a DSN
  with action `delayed` moves the same row to `retry_pending`, and the worker
  sends it again. `AtMostOnce` therefore grants one extra copy per DSN.
- `collect_uidl`: import states are keyed by account and UIDL and survive a move
  of the account to another maildrop. If the new server uses a UIDL the old one
  used and that import is still `pending` or `failed`, a message that was never
  stored is deleted; with any other state it is never collected. The other
  collection runs assume that servers do not share UIDLs.
- `collect_stale`: a worker that outlives its lease is not fenced. The compose
  files start one process, where this cannot happen; `collect_two` shows what
  holds even so.
- `stream_new`: the stream asks for what is *older* than its cursor, and the
  cursor is the newest row it has seen. What is created after the first page
  does not come through the stream until something else reloads the list.
- `compose_draft`: reply and forward do not reset which stored mail the form
  edits, and opening a folder closes the window without resetting it. Edit a
  draft, open a folder, reply to a mail, save: the reply replaces the draft.

Seen in the code while modelling, without a run of their own:

- `test_account` writes its result to whatever the account has become during the
  test; a version in the WHERE clause would do. (`EndTest` may follow
  `UpdateAccount` in the model.)
- The checks of `delete_account` and `queue_collect` do not see each other
  (`mail_external_service.py:311`). The job then fails three times for want of its
  account.
- A break-glass challenge has no `target_email`, so the enrolment it allows cannot
  be confirmed before an address was verified by mail
  (`docs/manuals/mail-quota-admin-mfa-operations.md:78` describes the procedure as
  one for the time without mail).
- A password reset between the two reads of a token's issue leaves the token valid.
- `start` and `confirm` of an enrolment lock the profile and the challenge in
  opposite orders; the database ends one of them.
- Administration portal: a failed reload after a save leaves its form busy
  (`admin-web/src/App.tsx:1842`, `:1884`).
- User portal: a user who signs out and in again while a mark or a bulk action is
  on its way may keep a stale unread badge: the count of the new sign-in may be
  taken before the change, and the answer of the change finds another token and
  counts nothing (`App.tsx:2154`). The next load or mark counts again.
- Mobile app, personal AI: a test whose answer is lost goes on at the server, and
  `record_test` (`personal_ai_store.py:128`) writes its result over that of a test
  made meanwhile: the form says ready, the row error, and the next question is
  refused with 409. A row version in the WHERE clause would do.
- Mobile app, personal AI: a save without a key (a provider was chosen, or the key
  draft was left empty) is answered with the default of the administrator or with an
  empty configuration (`personal_ai_service.py:70`); the form then shows that
  provider with the models of the one that was saved (`App.tsx:533`).
- User portal: signing out leaves some screens' data in memory (`App.tsx:4137`);
  a preview that arrives late replaces the list of images (`App.tsx:3604`).
- Approval screen of the user portal (not modelled; all in `App.tsx`). Opening a
  document replaces the loaded settings and their version but not the draft
  (`:4576`), and the settings opened from the workspace menu are not loaded again
  (`:2915`): a later save can declare a version its form was not filled from, and
  the version check of the server then lets it overwrite a change made elsewhere.
- There, a document opened in the "reference" menu is marked as read and so leaves
  the menu (`:4567`, `approvalShell.ts:20`), and the effect at `:4942` opens the
  next one: one visit reads them all. If the list becomes empty while a detail
  loads, the sequence is advanced and nobody clears the loading flag (`:4949`).
- There, a draft that was created but whose reload fails leaves the form open as
  unsaved, and a second save creates it again (`:4752`).

Exceptions in the properties of the mail screen say what the code does not keep:
the read button loads the detail of a checked mail whatever is selected, and the
reload of a bulk action names the folder the action was started in; the badge may
be wrong after a change that no count follows. Those of the mobile AI (`foreign`,
`swapped`, `overrun`) do the same: each was checked to be needed, since without it
TLC finds the behaviour described above.

## 6. Not modelled

`PROJECT.json` names every part with its status. What a next step would take up,
in this order:

1. `MailboxBackup`: job leases with an attempt number and an owner per process,
   the archive file next to the row (`complete_job` renames before it commits),
   expiry and downloads.
2. Scheduled mail and out-of-office replies, composed with the queue through
   `Enqueue`; submission and inbound intake (idempotence, content files before
   rows); approvals (parallel decisions, delegation).
3. The races of provider configuration and of the reconciliation of forwards,
   which `MailDelivery` abstracts to one flag and one step.

Left out for good: MIME parsing and building, HTML sanitizing, classification
rules, file storage, metrics and read models (pure functions or I/O: nothing a
small instance tells apart), Postfix and compose files.

The definitions cover the control of what they model, which is a small part of
the repository's lines. The backend modules (`MailDelivery`,
`ExternalCollection`, `AdminMfa`) stand for several thousand lines of Python. Of
the TypeScript and JavaScript, most is JSX, form fields, styles, typed wrappers
of one request each (`api.ts`) and verification scripts that drive a browser;
these have no state that could be wrong in the sense of this project, and a
definition for them would restate their text. The clients' modules therefore take
the handlers that wait for something and whose results meet later state: about
one line in twenty-five of the clients.
