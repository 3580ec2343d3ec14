# Formal model of wabantu-api

wabantu-api is the NestJS backend of a WhatsApp customer-service product: it receives
messages from the Meta Cloud API, keeps them in one Postgres schema per tenant, answers
them with an AI pipeline driven by a BullMQ queue, and lets staff read, answer and take
over conversations. This directory holds TLA+ modules of it, TLC configurations that
check them on small instances, and TLAPS proofs for every size of them.

## The system

| component | state | operations | interacts with |
|---|---|---|---|
| Webhook ingestion (`whatsapp.service.ts` `receiveMetaWebhook`, `ingestInboundMessage`) | none of its own; rows `contact`, `conversation`, `message`, `lead` | one handler per webhook request | tenant DB, AI queue, inbox realtime |
| Staff inbox (`inbox.service.ts`) | none of its own; same rows | `markAsRead`, `handoffToHuman`, `resumeAi`, `sendHumanMessage`, `updateContact`, list and history queries | tenant DB, Meta provider, inbox realtime |
| AI reply queue (`ai-queue.service.ts`, `ai-internal.controller.ts`, external `ai-worker`) | BullMQ jobs in Redis | enqueue, attempt, retry, fallback | ingestion, AI auto-reply |
| AI auto-reply (`ai-auto-reply.service.ts`) | order state, scope counters, FAQ cache in Redis; same rows | `processAutoReply`, `fallbackAutoReply`, `sendAiMessage` | tenant DB, Redis, Anthropic, Meta provider |
| Inbound routing (`resolveTenantByInboundAddress`) | `whatsapp_channel` rows | lookup by phone number id, backfill | ingestion |
| Lead capture and leads (`captureLeadFromMessage`, `leads.service.ts`) | `lead` rows | insert or update from a message, staff update | ingestion |
| WhatsApp onboarding (`initMetaConnect`, `completeMetaConnect`, ...) | OAuth state in Redis, `whatsapp_channel` rows | init, complete, disconnect | Meta Graph API |
| Sessions (`session.service.ts`, `jwt.strategy.ts`) | `sess:<sid>`, `sess:user:<id>` in Redis | create, get, touch, destroy, destroyAllForUser | login, every request |
| Registration and login (`auth.service.ts`) | `tenant`, `tenant_company`, `account` (system DB), schema and first profile (tenant DB) | register, login, logout | sessions, tenant connections, business profile |
| Tenant connections (`tenant-connection.service.ts`) | map of DataSources | `getDataSourceForTenant`, bootstrap, shutdown | everything that touches a tenant |
| Message history and conversation list (`getMessages`, `listConversations`, `inbox-cursor.ts`) | none | keyset pagination | tenant DB |
| Inbox realtime (`inbox-realtime.ts`) | Redis channel, SSE subscribers | publish, subscribe, teardown | ingestion, staff inbox, browser |
| Analytics (`analytics.service.ts`) | none | `overview` | tenant DB |
| Knowledge base and business profile (`knowledge-base.service.ts`, `business.service.ts`) | `knowledge_base_entry`, `business_profile` rows | create, update, remove; `getProfile`, `updateProfile` | tenant DB; registration, AI auto-reply |
| Billing | rows | CRUD | tenant DB |

What makes each correct:

* ingestion: a message Meta will not deliver again is stored once and gets one job;
* inbox: the conversation's owner is the last one a person chose, the unread count is never
  more than what came, the history shows what WhatsApp really sent;
* queue and auto-reply: every job ends, a message is answered once but for faults, nothing but
  the fallback is sent once a person has taken over; an order loses no answer but
  to an overlap, a message answers one question each time it is tried, and the scope counters bound the replies that direct;
* leads: few open leads per conversation, under the contact's name;
* routing and onboarding: a known number reaches a tenant that has it, an id is its number's;
* sessions: what has ended stays ended, logout everywhere leaves nothing usable;
* registration: an answered one is complete, a failed one is undone, a profile is its tenant's;
* tenant connections: a DataSource in use is open, there are few, the shutdown ends;
* history and list: a client that pages sees every message, none twice, and comes to an end; a
  conversation that does not move is listed once;
* realtime: a browser that heard of everything shows everything;
* analytics: the numbers of one answer agree with one another;
* knowledge base and profile: an edit is soon in every generated answer.

What is hard here: every handler reads a row into an entity, awaits other things and saves
the whole entity; deliveries, jobs and staff requests overlap in one Node.js process; Meta
redelivers, BullMQ retries, WhatsApp may accept a text whose answer is lost; and an error in
ingestion is swallowed with a 200, so what was not stored then is never delivered again.
`PROJECT.json` lists every such place under `hazards`.

## Modules

### One conversation (the core)

| module | models |
|---|---|
| `ConversationStore` | the rows of one conversation, its messages in `created_at` order, TypeORM's `save` and `MetaCloudProvider.sendText` |
| `ReplyQueue` | the BullMQ job of each stored message |
| `WebhookIngest` | `receiveMetaWebhook` / `ingestInboundMessage`, one step per await |
| `StaffInbox` | the four inbox requests that change a conversation, one step per await |
| `AutoReply` | `processAutoReply`, `fallbackAutoReply`, `sendAiMessage`, one step per await, as the worker calls them |
| `Conversation` | all of them in one API process, with crashes; the properties |
| `InboundOnce`, `ConversationContract` | abstract specifications: what ingestion promises about messages, and what the operations promise about owner and unread count |
| `MCConversation` | the instances TLC checks |
| `ConversationProofs` | theorems |

State and code. `convo` is the conversation row: `ai` is `ai_handled`, `assignee` is
`assigned_to_user_id`/`_name`, `unread` is `unread_count`, `last` is `last_message_at` as a
position in `message`. A handler's record (`hook[r]`, `call[c]`, `attempt[m]`) holds where it
is (`pc`: the await it is about to do) and its entity (`ent`). `repository.save(entity)` of a
loaded entity is two statements in TypeORM: it selects the row again, compares, and updates
the columns that differ; `SelectForSave` and `Overwrite` are these two, and other handlers run
between them. `accepted` counts the texts WhatsApp really delivered, which the API cannot
see. `acked` are the messages Meta got its 200 for. `queue` is BullMQ. `faults` counts what
went wrong: a rejected database await (`db`), a send that throws before or after WhatsApp
accepted the text (`send`), a failing LLM call (`llm`), a restart of the API (`crash`).

Abstractions. One message per webhook payload (the items of a batch are ingested one after
the other, each in its own `try`). Tenant and channel are already resolved. `aiPausedAt`,
`handoffReason`, `status` and the preview carry no decision and are left out; `status` only
ever becomes `open`. Which reply an attempt sends (canned, cached, LLM, order dialogue) is a
nondeterministic choice between a route that replies and one that also pauses the AI. The
worker and BullMQ are outside the repository and modelled from `README.md` (AI auto-reply
section) and `APP_FLOW_GUIDE.md` (steps 1 to 9): a thrown attempt is retried, the last one is
followed by the fallback call. The worker's own HTTP timeout and BullMQ's stalled jobs, with
which two calls of one job could overlap, are not modelled. Order state, counters and FAQ
cache are in `ReplyRoutes`, the lead row in `LeadCapture`.

### The other components

Each is a module of its own over the state it shares with nobody else, one step per await or
Redis command, and its theorems are in `SessionProofs`, `TenantPoolProofs`, `InboxReadsProofs`,
`RegistrationProofs`, `ChannelsProofs`, `LeadCaptureProofs` and `ReplyRoutesProofs`. The instances
are in `MCSessions`, `MCChannels` and `MCReplyRoutes`, and in `MCRequests` and `MCHandlers`, which run
several components in turn: hence names such as `RegInit`, `LeadNext` and `PoolTypeOK`.

`Sessions` (`session.service.ts`, `jwt.strategy.ts`). `sess` and `index` are the keys
`sess:<sid>` and `sess:user:<id>` of one user with the time they expire at, `token` the expiry
of the session's JWT; `request` is `JwtStrategy.validate` (and `destroy`, for a logout),
`sweep` are calls of `destroyAllForUser`, which nothing in the repository makes yet. `Tick` is the
passing of time. `before`, the sessions usable when a sweep began, and `during`, the logins between
its `SMEMBERS` and its `MULTI`, are history variables.

`TenantPool` (`tenant-connection.service.ts`). `pool` is the map, `ds` every DataSource ever
created with its state, `call` a request or bootstrap, `closing` the shutdown hook with the
position of its iterator. A JavaScript map iterates entries added while it runs; `VisitNext`
is that rule. A rejected `destroy` leaves the DataSource initialised.

`InboxReads` composes what a dashboard reads and no handler shares: `surface` says which of the
four modules below a client of the run uses; the others stay in one initial state.

`MessageHistory` (`getMessages`, `inbox-cursor.ts`). `rows` are the messages' `created_at` in
units finer than a millisecond (`MsTicks` in one), as in a `timestamptz`; the cursor keeps the
millisecond, as a JavaScript Date does. `reader` is a client that pages by cursor or by offset.

`ConversationList` (`listConversations`). `lastMessageAt` is the column, 0 for NULL, `matches`
what the search and the filters select, `lister` the client with its cursor. Messages move a
conversation up, the stale saves of the core move it down, `markAsRead` and the like change
what matches. With a search the query joins other tables, and TypeORM's `take` then selects the
ids of a page first and its rows afterwards, under the same conditions (`SearchIds`,
`SearchRows`, from how `typeorm` 0.3.28 executes such a query). `last_message_at` is written from a JavaScript Date, so this cursor loses nothing.

`InboxRealtime` (`inbox-realtime.ts`). A delivery stores its message, then its conversation,
then publishes. Redis hands an event to who is subscribed at that moment and to nobody else;
ioredis connects and subscribes again by itself. `wire` counts the events under way, as all
say the same; the browser (outside the repository, from `APP_FLOW_GUIDE.md:139`) reads the
inbox upon each and when its window comes to the front.

`Overview` (`AnalyticsService.overview`). `messages` are the rows of any author in any number:
an attempt that failed after its row is repeated, the fallback and people add replies of their own.
`overview` is the request: its queries are sent together and answered in any order, on connections
of their own, then the time to the first reply is queried. `known` counts the rows at its begin.

`Registration` (`auth.service.ts` `register`, `login`, and `BusinessService.getProfile`).
`tenants`, `companies`, `accounts` are system rows, `schemas` the tenant database with the
profile rows of each schema, named by the request that inserted them; the transaction is one
step, everything after it is one step per statement, with rejected statements, rejected deletes
of the clean-up, a seed whose answer is lost and restarts. A login goes on to the first page,
whose `getProfile` inserts a placeholder where it finds no profile, also while the registration
is still seeding. `early` is a history variable.

`Channels` (`initMetaConnect`, `completeMetaConnect`, `disconnect`,
`resolveTenantByInboundAddress`). `row` are the `whatsapp_channel` rows of all tenants, `oauth`
the states in Redis, `callback`, `clerk` and `hook` the handlers with the entities they hold.
A number stands for its `phone_number_id` too. `misled` marks rows whose discovery fell back
on another number of the account, which the code does when no number matches. A look-up first
awaits the list of the tenants: when that is rejected (`ListRejected`) the webhook answers 200 and
the message is lost. The ids that a callback's body may bring are left out.

`LeadCapture` (`captureLeadFromMessage`, `leads.service.ts`, `updateContact`). `contact` is the
contact's display name, `lead` the leads of one conversation in the order of `created_at`,
`capture` and `clerk` the handlers. Only messages with a lead signal are there; statuses are
`new` and the rest. A save of an entity is one step here: the columns it writes are those of
the entity it read.

`ReplyRoutes` (`processAutoReply` after its guards). `said` is what each message is classified
as, `order`, `counter` and `cache` the Redis keys `ai:order`, `ai:counter`, `ai:faqcache`,
`attempt` the attempts of each message. An answer in an order is the message that gave it; `beside`,
a history variable, are the attempts that overlap another of their conversation. Every attempt may
fail at every step; what it wrote to Redis stays. `edited` is when the profile or the knowledge base
was edited, and `basis` in an attempt and in a cached answer which edits it was made of: a number
stands for the content.

### Runs

| run | instance | checks |
|---|---|---|
| `ConversationConcurrent` | 2 messages of an unknown contact, 2 webhook slots, 1 staff request, 2 handlers at a time, no faults | `TypeOK`, `UnreadNeverOvercounts`, `StoredIsQueued`, `TakeoverHolds`, refinement of `InboundOnce` |
| `ConversationSettles` | 1 message of a known contact delivered again and again, 2 slots, 1 staff request, 3 handlers at a time, up to 2 of: crash, failing or unanswered send, failing LLM call | `InboxMatchesPhone`, `RepliesBoundedByFaults`, `AckedImpliesStored`; liveness `EveryInboundIsStored`, `EveryJobSettles` |
| `ConversationSerial` | 2 messages (one not a text), 2 staff requests, 1 database fault, handlers never overlap | refinement of `ConversationContract` |
| `ConversationStaleSave` | 1 message, a takeover, 2 handlers at a time | violated: `OnlyResumeReenablesAi` |
| `ConversationFirstContact` | 2 first messages of an unknown contact | violated: `AckedImpliesStored` |
| `SessionsLogout` | 2 sessions, 2 requests, 2 sweeps, session TTL 3, token TTL 2, clock to 4 | `SessionTypeOK`, `LogoutEverywhere`, `NoResurrection` |
| `SessionsSecondSweep` | 2 sessions, 2 sweeps | violated: `LogoutReachesAll` |
| `ChannelsRouting` | 2 tenants, 2 numbers, 2 rows, 2 OAuth states and a third to connect a number again, 2 callbacks that overlap, 1 disconnect, 1 look-up at a time | `TypeOK`, `KnownNumberIsRouted`, `RoutedToItsNumber`, `ChannelsAreBounded` |
| `ChannelsDiscovery` | 2 numbers, 1 callback | violated: `DiscoveryFillsOwnId` |
| `Requests` | `InboxReads`: 5 messages, pages of 2, 2 clock units in a millisecond; 3 conversations, 1 a page, 2 milliseconds; 3 deliveries and 1 stream; an overview of 2 messages of any author in 2 conversations, window 1 of 3 ticks | `InboxTypeOK`, `NothingTwice`, `SkipsOnlyWithinMs`, `QuietIsListed`, `ListedOnce`, `StaleOnlyIfMissed`, `OverviewAddsUp`; liveness `HistoryEnds` |
| | `TenantPool`: 2 schemas, 2 requests at a time, 3 DataSources, 1 bootstrap per schema | `PoolTypeOK`, `NoUseAfterClose`, `PoolsAreBounded`; liveness `ShutdownFinishes` |
| `Handlers` | `Registration`: 3 registrations of 2 e-mails and 1 business name, 1 login with its first page, 2 faults | `TypeOK` (of all three), `RegisteredIsComplete`, `FailedLeavesNothing`, `ProfilesAreOwn` |
| | `LeadCapture`: 3 messages, 1 member of the staff, 2 handlers at a time, 1 rename | `OpenLeadsAreBounded`, `NamesInSync` |
| | `ReplyRoutes`: 3 messages, at most one of them a canned greeting or refusal, 2 attempts each with one message retried (all, where all are about an order), 2 at a time; where all are questions, 1 edit, cached answers that live 2 of 5 ticks | `OneAnswerPerTry`, `AnswersStay`, `AtMostTwoDirected`, `EditsComeThrough` |
| `ReplyRoutesOrder` | 2 messages, one at a time, 1 attempt each | violated: `OrderIsPursued` |

`Requests` and `Handlers` are runs of several components that share no state. Their `MC` modules
choose in `Init` which one runs (`component`); the others stay in an initial state, so that the run
has the states of its components side by side and not their product. The fairness of `Requests` is
that of each component.

Bounds. `MaxAttempts` is 2 where the code has 4: one retry and the exhausted job are all the
cases there are. Two messages and two slots give every overlap of two deliveries, of the same
message and of two; a third adds no new pair. `MaxInFlight` bounds how many handlers overlap;
the stale saves need two. In `SessionsLogout` two sweeps overlap or follow one another; the token is shorter-lived than the session, as
by default, and the clock passes both. For `TenantPool` the third DataSource is the one that
replaces another; for `InboxReads` five messages are two full pages and an odd one, and
two units let several messages share a millisecond; three registrations let one retry what a
second cleaned up and a third holds. Two milliseconds let conversations share a
`last_message_at` or differ, with NULL for a third, and a bump or a stale save cross the cursor
of a client that is on its second of three pages. Three deliveries are one that is shown, one
under way and one lost. Two messages of the
overview are one from before the window and its answer in it, or one stored between two counts. Three
OAuth states are two callbacks that overlap and one that connects the number again. Two constraints keep
`ChannelsRouting` within minutes: both callbacks are at work only before a webhook has looked up a
number and, with two numbers or tenants, with no disconnect at work (`CallbacksOverlapEarly`); after
that one of them is, as often as it likes. The third OAuth state is handed out only where one number
of one tenant is connected, before any look-up (`ThirdStateReconnects`). Three messages of
`ReplyRoutes`, one of them with a second attempt (`FewRetries`), pass the counter's limit of two by
retries and by messages; where all three are about an order each may be retried, which makes the
five tries that complete it. At most one is a greeting or a sensitive question, whose fixed answers
touch neither the order nor the cache, and injections, which are answered as off-scope texts are,
are left out. Its clock runs only where all
customers ask questions, as nothing else depends on it; an attempt crosses one tick at most,
which stands for it being short beside a day, and 5 ticks are an edit, a cached answer's life
after it, and what must be fresh then. For `LeadCapture` two messages overlap
while a third follows. The theorems below have no bound at all.

Symmetry. Messages, webhook slots, sessions, requests, registrations, e-mails, tenants,
numbers, rows and states are interchangeable where no constant or initial choice tells them
apart; the runs with liveness use none. Calls and messages are the same values in `Handlers`, as only
one of its components runs in a behaviour. Components whose clients may simply have nothing more
to do are checked without deadlock.

Fairness. A promise chain in a live process runs on (weak fairness of each handler's steps);
the worker takes jobs and calls the fallback (weak fairness); Meta redelivers until it gets a
200 (strong fairness, because other deliveries can take the slot in between). The shutdown
hook awaits one `destroy` after the other, each of which settles (`CloseStep`); a client that
pages asks for the next page (`NextPage`). No fairness for staff requests or new messages to
begin, nor for faults.

`StoredIsQueued` speaks of the states before anything failed: with a crash or a failing lead
insert between the insert of the message and the enqueue a message stays without a job,
because the redelivery returns at the lookup of `external_id`. Nothing in the repository
promises otherwise. `AckedImpliesStored` and `EveryInboundIsStored` need a known contact, for
the reason `ConversationFirstContact` shows, and a database that answers, for `IngestThrows`
ends in a 200 as well.

### What the code does not do

The five violated runs are real disagreements with what the repository says (`findings` in
`PROJECT.json`):

* a stale save gives a conversation that a person has taken over back to the AI
  (`ConversationStaleSave`);
* of two first messages of a contact one may be acknowledged and lost (`ConversationFirstContact`);
* a login between the `SMEMBERS` and the `MULTI` of `destroyAllForUser` loses its place in the set:
  a later call returns with that session usable (`SessionsSecondSweep`; `LogoutEverywhere` says that
  nothing else escapes);
* discovery gives a row the id of another number of the account when none matches
  (`ChannelsDiscovery`; `RoutedToItsNumber` says that the mistake stays with that row);
* an order does not advance by plain answers, which have no order keyword, and the reply to them
  does not lead back to it (`ReplyRoutesOrder`).

Other limits are in the properties, which hold only up to them, or in the notes of the hazards:

* a takeover makes the waiting job fail until its fallback text goes into the conversation of
  that person (`TakeoverHolds` excepts the fallback);
* the cursor jumps over a message stored in the same millisecond as the oldest of a page
  (`SkipsOnlyWithinMs` says it skips nothing else);
* concurrent first requests open several pools of a schema (`PoolsAreBounded` says how many)
  and the shutdown closes only those in the map;
* overlapping messages leave several open leads (`OpenLeadsAreBounded`), and a message found
  before a rename may file a lead under the old name (`NamesInSync` excepts the overlap);
* two callbacks for a number leave two channel rows (`ChannelsAreBounded`: no more, however often
  it is connected again), and a stale save may remove a stored `phone_number_id` or connect what
  was disconnected (`RoutedToItsNumber` says that no message goes to another number's row thereby);
* a rejected list of tenants loses a message whose tenant is in reach (`KnownNumberIsRouted` says
  that nothing else does);
* a clean-up of a registration that fails twice leaves rows (`FailedLeavesNothing`), it keeps
  the schema, and a login in between may insert the deleted account again;
* `getProfile` beside the seed of `register` leaves two profiles of a tenant, where the entity
  says "Single row per tenant" (`business-profile.entity.ts:11`); `ProfilesAreOwn` says where any
  further row comes from. The AI takes either, as its `findOne` has no order
  (`ai-auto-reply.service.ts:306`);
* a conversation that moves down while a client pages may be listed again, and one that moves up
  may be missed (`QuietIsListed` and `ListedOnce` speak of the others); a search also misses
  conversations that did not change, when one of the page did between the selection of its id
  and that of its row: the page is then short, which the code takes for the last one;
* an event published before the SUBSCRIBE is acknowledged, or on a broken connection, is lost,
  until the browser reads for another reason (`StaleOnlyIfMissed`);
* the coverage of the AI may exceed 100 %: retries, the fallback and people add replies, as do
  messages from before the window and what is stored between two counts (`OverviewAddsUp` bounds
  only what must agree); the average time to the first reply drops
  a conversation whose first message in the window is outbound; no code under `src/` writes the
  status `read`, so that `openRatePct` is 0 or null, although the comment at
  `analytics.service.ts:212` names the read receipts of WhatsApp;
* a cached answer is sent for a day after an edit, and in other conversations than the one whose
  history it was made of (`EditsComeThrough` bounds the former);
* attempts of one message count as messages (`AtMostTwoDirected` holds all the same) and move an
  order on: a message tried twice may answer two of its questions (`OneAnswerPerTry`), and of two
  attempts of a conversation that overlap the later SET takes back the other's answer
  (`AnswersStay` says that one that is alone does not);
* a session outlives its JWT.

## Proofs

Every safety invariant and every action property of the runs that hold is a theorem (the `TypeOK` of
`Handlers` part by part), and so are both refinements. The theorems are about arbitrary sets of messages, requests, staff calls, users,
slots, sessions, registrations, tenants, numbers, rows and conversations, any number of attempts,
handlers and faults, and any page size, lifetime or fineness of a clock. They rest on the named
assumptions on the constants, which TLC evaluates in the runs, and on nothing else: which sets are
finite, not empty or apart from one another, which bounds are positive, and that `None`
(`Nobody`, `Null`) is none of the names it stands beside. `AccessTtl <= SessionTtl` is the only assumption about the configuration.

### The core (`ConversationProofs`)

* `TypeCorrect`: `TypeOK` is inductive.
* `UnreadIsBounded`: `UnreadNeverOvercounts` is not inductive, an entity in some handler could
  hold any number. `UnreadInv` adds that no entity holds more than the stored messages;
  the insert of a message raises the bound and the entity's count together, which is where the
  unique index is needed.
* `RepliesAreBounded`: `ReplyInv` counts `accepted[m] <= faults` while a job is not answered
  and one more once it is; `JobInv` says that a call is in the API exactly while its job is
  active or in fallback, so that no second attempt runs beside the first.
* `TakeoverIsKept`: an action property; needs from `JobInv` that an attempt past the guard
  holds an entity in which the AI owns the conversation. Once no such entity is left
  (`~AiClaims`), no save can raise the flag.
* `ImplementsInboundOnce`: step simulation of `InboundOnce`; `IngestInv` says that a handler
  past the insert has its message in the table.
* `KnownContactLosesNothing`: with both rows there and a database that answers, the only ways
  to a 200 are a message found in the table and the end of the handler.
* `StoredGetsQueued`: `StoredIsQueued` is inductive with `IngestInv`: only the insert makes a
  handler owe a job, that handler keeps its message until it pays, and no part of the system
  takes a job away.
* `InboxFollowsPhone`: the debt `accepted - recorded - pending` of every originator changes
  only with a fault, by at most one.
* `SerialHandlersKeepTheContract`, for `MaxInFlight = 1`: step simulation of
  `ConversationContract`. `SerialInv` says that at most one handler is at work, that its entity is
  the row but for what its operation changes, and that its save writes every column that differs;
  a save is then one step of the contract. `ConversationStaleSave` shows that two handlers at a time
  break it.

### Sessions (`SessionProofs`)

* `SessionTypes`: `SessionTypeOK` is inductive.
* `EndedStaysEnded`: an action property; a token is set once, by the login, and a touch of a
  key that is gone does nothing.
* `SweepReachesAll`, for any number of sweeps: `SweepInv` says that the set knows every usable
  session, and outlives its token, but for the logins that a finished sweep has missed
  (`SetCoversUsable`), although requests never extend the set, and that what a sweep at work does
  not have was created since its `SMEMBERS` or missed before (`SweepKnows`). This is where the
  relation of the two TTLs is needed.

### Tenant connections (`TenantPoolProofs`)

* `PoolTypes`, `RequestsKeepTheirs`, `PoolsStayBounded` follow from `PoolInv`. Its `Structure` says
  who a DataSource belongs to: what is in the map is open, one that opens has one call waiting for
  it, a call that uses one uses an open one, and none is open for a schema without an entry. Then
  the DataSources of a schema are, before its first entry, one to one with the calls that open them;
  `EntryBounds` says that afterwards only bootstraps that have yet to construct theirs add to them.
  Once the shutdown hook runs, only the types are claimed.

### Registration (`RegistrationProofs`)

* `RegistrationTypes`, `RegistrationIsComplete`, `RegistrationProfiles`,
  `RegistrationLeavesNothing` follow from `RegistrationInv`. `RowsFollowTheCall` says which rows
  there are for a registration at each of its steps, `SlugsAreUnique` that no two tenants and no two
  companies share a slug, `OneSeedPerSchema` and `PlaceholdersAreEarly` where each profile of a
  schema comes from, and `FaultsCoverTheDebt` that every clean-up, and every row that one leaves
  behind, has a fault of its own.

### Channels (`ChannelsProofs`)

* `ChannelTypes`, `MessagesReachTheirNumber`, `KnownNumbersAreRouted` follow from `ChannelsInv`: the
  entities that callbacks, disconnects and look-ups hold (`CallbacksHoldCopies`,
  `ClerksHoldCopies`, `HooksHoldCopies`) are of the row they will save, with its number, and with
  no wrong id but of a row that was misled (`IdIsItsNumbers`); `HookOK` says that a look-up still
  has to scan, or has skipped, every tenant that had the number when it began.
* `ChannelsStayFew`: an insert turns a callback that was about to insert into a row, and a callback
  decides to insert only where it finds no row of the number, so that rows and insertions together
  are then no more than the callbacks.

### Lead capture (`LeadCaptureProofs`)

* `LeadTypes`, `LeadsStayFew`, `NamesStayInSync` follow from `LeadInv`. `FewAtWork` and `FewOpen`
  count together: the leads that are open or that a handler will write as open, and the handlers that
  will insert one, are no more than the handlers that may overlap. `CapturesHoldTheirs` and `ClerksHoldTheirs` bound what the entities hold.

### Reply routes (`ReplyRoutesProofs`)

* `RoutesTypes`, `OneAnswerForATry`, `AloneNothingIsLost`, `FewAreDirected` and
  `EditsReachCustomers` follow from `RoutesInv`. `Spent` is the set of attempts past their route;
  every counter is at most its size, which bounds the counters in spite of retries.
  `DirectedAreCounted` relates what was sent to the counter, `CacheIsOK` and `AttemptsAreOK` say how
  old the edits are that an answer may be made of. `AnswersAreTried` is `OneAnswerPerTry` of every
  order that is stored or was read, as a state read long ago may come back. `OverlapsAreNoted` says
  that two attempts of a conversation at work know of each other, and so `ReadsAreCurrent`: one that
  was alone read the order as it is, unless it expired.

### What the dashboard reads (`InboxReadsProofs`)

The four parts have invariants of their own, and each surface leaves the others' variables alone.

* `NothingComesTwice`, `CursorSkipsOnlyWithinMs` (`HistoryInv`): a cursor client has seen nothing
  older than its cursor; of what was there at the start it has the rest, but for messages that share
  the millisecond of a cursor's row. For offsets, an insert moves a message one rank down and never
  up, so that what was not seen stays at the offset or after it. `SmallestExists`, `RankOrders`,
  `FirstAreMany` and `RankExists` are what they need to know about a page of an ordered set: ranks
  are distinct, the first n have the ranks below n and are n, if there are as many.
* `QuietConversationsAreListed`, `ConversationsAreListedOnce` (`ListInv`): what was listed is not
  behind the cursor unless a stale save moved it; what is quiet was listed, is among the ids a search
  has selected, or is behind the cursor, and behind a full selection of ids if there is one. `Touch`
  is what a message, a stale save and a changed filter have in common.
* `BrowserIsToldOrKnows` (`StreamInv`): inductive with the types.
* `CountsAddUp` (`OverviewInv`): what a query counted lies between what it selects of the rows
  known at the begin and of all rows now, which differ by the messages stored since; a conversation
  with a time to the first reply has an inbound row and a reply of its own among those counted.
* `InboxReadTypes`: the types of all four.

### What is only model-checked

* The liveness properties `EveryInboundIsStored`, `EveryJobSettles`, `HistoryEnds` and
  `ShutdownFinishes`: fairness and ENABLED are out of the prover's reach.
* Nothing else of the runs. Two limits of the prover shape the proofs. Induction over data is out of
  its reach, as the induction theorems take an operator as a parameter: where a proof needs one (the
  ranks of a page, the newest lead, the minimum of the overview's times), it takes a smallest
  counterexample instead, whose existence is the library's `WFMin` on the naturals
  (`SmallestExists`). And no module that is proved about has a recursive operator.

## Not modelled

* Read-only queries and DTO building, the AI prompts and string filters (`ai-safety.service.ts`:
  pure functions of a text, whose outcome is a choice in the models), the wiring of the
  application and its configuration.
* Billing, whose requests end at a `findOne` without a where clause that the TypeORM release of
  `package-lock.json` rejects.
* Of the overview: the counts of the calendar day, the leads, the sum of the unread counts, the
  open rate and the top questions, further single queries beside those that `Overview` has.
* Two overlapping edits of the same profile or FAQ, of which the later takes back what the
  earlier changed, and an update that inserts a removed FAQ again: they are saves of a loaded
  entity, which `ConversationStore` models for the conversation.
* The ping of the stream, which carries no state, and `getUnreadSummary` and `getContact`.
* The worker's HTTP timeout and stalled jobs, which are outside the repository.

## Plan

1. Overlapping calls of one job (worker timeout, stalled jobs) in `ReplyQueue`, and which of
   `RepliesBoundedByFaults` survives them.
2. Abstract specifications for `Channels` (a number has one route) and `LeadCapture` (one open
   lead), with the serial instances shown to implement them, as `SerialHandlersKeepTheContract` does
   for the conversation.
