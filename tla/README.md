# TalkZen in TLA+

Specifications of the parts of TalkZen whose correctness depends on what happens
*between* two database statements: several API processes, several visitors and agents,
webhooks that are posted again, processes that die. Each module is a translation of the
code under `src/`, checked on small instances by TLC; where it says so below, its
properties are proved for every instance by TLAPS.

```
tlc -workers 2 -config MCConversation.cfg MCConversation.tla
tlapm ConversationProofs.tla
```

Paths below are relative to `src/apps/api/src/` unless they start with `docs/` or
`packages/`. `PROJECT.json` names the lines of code every definition stands for.

## 1. The system and its parts

TalkZen is a live-chat service: a NestJS API over Postgres (Prisma), a socket.io gateway,
a script that shops embed in their pages, and a Next.js dashboard for agents. All state is
in Postgres, except the sockets' rooms and what the embedded script remembers. The API may
run as several processes. Prisma's default isolation is Postgres' READ COMMITTED: a
handler's reads are not protected against what others commit before it writes.

| Part | State | Operations | What is hard | What makes it correct |
|---|---|---|---|---|
| **Conversations** `conversations/` | the chat row (status, agent in charge, first response, last message), messages, participants, assignments | open, send (with key), file, assign, set status, tag, mark read | rows read before a transaction and used in it, retries, four-table assignment | a key stores one message, the first response is an agent's public reply, assignments are whole |
| **Widget API** `widgets/` | sessions, page views, the visitor's chat | start session, first message (routing), text, attachment, heartbeat, rating, sale | counting then creating, stale status write-back | a visitor who writes is not left in a finished chat, limits of agents |
| **Widget script** (in `widgets/widgets.service.ts`) | conversation id, rendered messages | connect, join, send, load history, adopt an invitation | pushes that are missed, late answers | each message is shown once, an invitation reaches the visitor, internal notes never do |
| **Gateway** `conversations/conversations.gateway.ts` | rooms | join, leave, typing, emit | a push after a commit, join racing history | internal notes go to the organization's room only |
| **Channels** `channels/` | connections, chats with a thread, messages with the provider's id | webhook in, outbound, connect, disconnect | at-least-once webhooks, no transaction around a message | stored once, one chat per customer, accepted means kept |
| **Visitors** `visitors/` | visitors, visits | list, start a chat | two agents start one | as many proactive chats as racing clicks at most, and the visitor gets to one |
| **Automation, AI, bot flows** `automation/`, `ai/` | rules, flows, state in the chat's metadata | evaluate a message, answer, pause, run a flow | read-modify-write of one JSON column, late answers of the model | one voice answers a message, a pause for a human is kept, the bots are silent after it |
| **Tickets, contacts** `tickets/`, `contacts/` | tickets, contacts | create from chat, update, link | a resolve that races the visitor | chat and ticket agree |
| **Campaigns, goals** `campaigns/` | conversions, counters | record progress | row and counter are two statements | a conversion counts once |
| **Billing, entitlements** `billing/` | subscription, add-ons, invoices | subscribe, cancel, seats, gateway webhooks | late and repeated webhooks, external charges | no charge that no row knows of, who pays is served, the charge is that of the team |
| **Accounts** `auth/`, and the dashboard's session (`lib/api.ts`) | users, refresh tokens, one-time links, recovery codes; localStorage shared by tabs | sign in, refresh, reset, log out | lookup then revoke, tabs that refresh at once, lost answers | a token, link or code works once, what was ended stays so, nobody is thrown out for nothing |
| **Organizations, members** `organizations/`, `members/`, `sso/` | memberships, roles, invitations | invite, accept, sign on, change, remove | counting then changing | an Owner remains, ownership is the Owners' affair, who was removed stays out |
| **Departments, schedules, knowledge, canned responses, notifications, integrations, apps, reports, admin, storage, mail, audit, encryption** | their own rows | CRUD, reads, one outgoing call | nothing that depends on order | — |

How they interact. The widget API and the channels create chats and call automation, which
posts messages into the same chat; tickets post into it as well; agents work it through
`conversations/`. All of them write the same row of `conversations` with no lock held
between read and write. After a commit the gateway pushes the message to the rooms.
Every unique index that the handlers lean on is in `packages/database/prisma/`.

`PROJECT.json` lists each part with its status, and under "hazards" each place where an
order of steps that no test covers decides whether the code is right.

## 2. The modules

| Module | Models | Run | Proofs |
|---|---|---|---|
| `Conversation` | one chat and the requests that work on it | `conversation`, `transfer` | `ConversationProofs` |
| `SendOnce` | what a chat promises to clients that use idempotency keys (abstract) | refined by `Conversation` in `conversation` | step by step in `ConversationProofs` |
| `ChannelInbound` | webhooks of WhatsApp, Messenger, Instagram, email | `channel`, `channel_thread` | `ChannelInboundProofs` |
| `Routing` | the agent a new chat is given to | `routing` | `WidgetProofs` |
| `ProactiveChat` | chats an agent opens with a visitor, and which chat the widget shows | `proactive`, `duplicates` | `ProactiveChatProofs` |
| `BotTurns` | what answers a visitor's message: chatbot, rules, AI; the chat's metadata | `bot_turns` | `BotTurnsProofs` |
| `WidgetDelivery` | how a chat's messages reach the visitor's page | `delivery` | `WidgetProofs` |
| `Subscription` | subscriptions, seats, add-ons and the payment gateway | `billing` | `SubscriptionProofs` |
| `Membership` | members, roles, invitations, single sign-on | `membership` | `MembershipProofs` |
| `Sessions` | refresh tokens, one-time links, recovery codes, the dashboard's tabs | `sessions` | `SessionsProofs` |

Conventions. A handler is split where it awaits the database; a step between two awaits is
one action named for the statement. `None` is SQL NULL, `NoKey` a field that was left out.
`Lose`, `Fail` is a process that dies or an answer that gets lost at any step: what was
committed stays, an open transaction is rolled back. An operator commented "MUTANT of X" is not
used by the specification: it is X with a plausible mistake, and the property
named in `PROJECT.json` is violated when it takes X's place.

### Conversation

State: the `conversations` row (`conv`), its `messages`, the rows of `assignments` (an agent
and when, none of them ever closed), `participants`, and per request the parameters and columns the
handler keeps across its awaits. Ids of messages are their order of insertion and stand for
`createdAt`.

| Action | Code |
|---|---|
| `Receive`, `FindExisting`, `FindNothing` | the reads of `sendMessage` and `createFileMessage` (conversations.service.ts:492, 573), of the widget's `sendMessage` and `sendVisitorAttachment` (widgets.service.ts:810, 736) |
| `Insert`, `Commit`, `InsertRefused` | their `$transaction`; the unique index on (conversation, key) |
| `PostLoose`, `TouchConversation` | `postBotReplyText` (automation.service.ts:336) and `postSystemReply` (tickets.service.ts:178), which use no transaction |
| `ResolveForTicket` | `createFromConversation` with `resolveConversation` (tickets.service.ts:122) |
| `Respond`, `Lose` | the HTTP answer, or none |
| `Assign` | the transaction of `assignConversation` (conversations.service.ts:331), which holds the row lock of the chat from its first statement on |
| `UpdateStatus` | `updateConversation` (conversations.service.ts:276) |

`Init` has each way a chat begins: by a visitor (routed or queued), by an agent with and
without a first message, by an agent for a visitor who is browsing.

Abstractions: bodies, attachments and read receipts are left out; an agent's client may send TEXT or EVENT
(conversations.service.ts:526 stores the type it names), and the other types it may choose are told apart by nothing; an
assignment's event is one of the system, an agent's EVENT is none; a menu reply of the widget writes as a bot's text does; pushes,
notifications and what a finished chat triggers elsewhere do not come back into this chat.

### ChannelInbound

State: the chats with a thread and the message rows in order of creation, the one
connection, per post of a webhook its place and what it keeps, and what the provider still has
to deliver (`due`). `Handle(p)` is `handleWebhook` and `storeInbound`
(channels.service.ts:175-400, the email webhook alike), one action per statement: the order is
connection, lookup of the provider's id, lookup of the chat, `conversation.create`,
participant, `message.create`, then the transaction on chat and connection. The indexes
`conversations_channel_thread_key` and `messages_channel_message_id_key` are the guards of
`Open` and `Store`. Outside: `Write` (customers), `Deliver` (the provider posts a
webhook, again until it is accepted, two posts at a time), `SetStatus` (agents), `Connect` and
`Disconnect` (settings).

Abstractions: upserts of visitor and contact, signatures (a rejected post changes nothing),
texts and attachments. An email without Message-ID gets a new random id on each post
(email-channel.service.ts:77): the set `Unnamed`, which `StoredOnce` has to except.

### Routing

State: who is online and on shift, how many unfinished chats each agent has — apart those he
got by routing and kept, which the limit is about — how many finished ones, and what each
first message has counted. `ReadAgents`, `Count`, `Create` are `pickAgentForRouting`
(widgets.service.ts:1417) and the creation of the chat in `createConversation`
(widgets.service.ts:359). The counts run under `Promise.all`, so they come in any order. The
environment opens, assigns, finishes and reopens chats, and agents come and go. Chats are
only counted, limits are constant, and reading ONLINE and the schedules is one step. `free` is a
history variable: the agents with room at every moment since the request read them.

### ProactiveChat

State: one visitor's chats in order of creation (`chats`), the chat his widget shows (`shown`, the script's
`state.conversationId`, which is also in localStorage), whether its socket is in the session's room, and what is under way:
clicks of agents, first messages, pushes, heartbeats.

| Action | Code |
|---|---|
| `Look`, `Create`, `Push` | `startChat` (visitors.service.ts:203): the lookup, the transaction, `emitConversationInvited` |
| `Write`, `CreateFirst`, `ReceiveFirst` | the script's `sendMessage` without a chat (widgets.service.ts:2478) and `createConversation` (359) |
| `Connect`, `ReceivePush` | `handleVisitorConnection` (conversations.gateway.ts:290); the script's `conversation.invited` (widgets.service.ts:2443) |
| `AnswerBeat`, `ReceiveBeat` | `recordHeartbeat` (widgets.service.ts:882); the script's `sendHeartbeat` and `adoptInvitedConversation` (2386) |
| `Finish`, `Reopen` | a chat is resolved or closed; an agent or the visitor brings it back |
| `Disconnect`, `Reload`, `LoseStart`, `LoseFirst`, `LoseBeat` | dropped sockets, a reloaded page, a dying process, a lost answer |

Abstractions: a chat is unfinished since an agent opened it for the visitor (`proactive`), unfinished otherwise (`open`) or
finished. The visitor's last session is within the live window, and the page is in view.
An answer to a heartbeat that names no chat changes nothing and is left out. Messages and the panel are left out.

### BotTurns

State: the chatbots that are switched on and the steps that are drawn, the chat's metadata (where a chatbot waits, and
`aiPaused`), and per visitor message a turn: its place, the metadata it read, and who has spoken in it. `overlapped` is a
history variable: who had read the metadata before the last pause and has not written since.

| Action | Code |
|---|---|
| `Arrive`, `TurnIsLost` | the visitor's `sendMessage` and `createConversation`, which call automation and swallow what it throws (widgets.service.ts:822, 875) |
| `Disclaim`, `Rules`, `Count`, `CountOnly`, `Check`, `Answer`, `Analyse` | `evaluateAndReply`, `isWithinAiBudget`, `maybeAiOrKbReply` (automation.service.ts:100-233) |
| `Read`, `NoFlow`, `StartFlow`, `ResumeFlow`, `NotUnderstood` | `handleVisitorMessage`, `resolveAnswer` (bot-flow.service.ts:176-255, 366) |
| `Pass`, `Halt`, `Stop` | the loop of `run` (bot-flow.service.ts:274), over the steps as they were read when it began |
| `Save`, `Clear` | `saveState`, `clearState` (446, 458): the metadata the turn began with, but for the position |
| `ReadToPause`, `Pause` | `pauseAiForHuman` (automation.service.ts:315) |
| `UpdateTags`, `ReadAnalysed`, `WriteBack` | `updateTags` (conversations.service.ts:305) and, in the same way, the rating, the summary and `analyzeIntake` (ai.service.ts:432) |
| `SwitchOthersOff`, `SwitchOn`, `SwitchOff`, `Redraw`, `Remove` | `BotFlowService.update`, `remove` |
| `FlowFails`, `AnswerFails` | the two `catch` of `evaluateAndReply` (131, 172) |

Turns overlap from the first message on: the answer to it waits for its turn, but its chat is committed before
(widgets.service.ts:394-443) and a heartbeat's answer may give it to the widget meanwhile (922, 2386).

Abstractions: what is said, and whether an answer fits a choice, a rule or the AI's confidence, is left open; the edges
of a step are the possible next ones. Tags and ratings are no field of the model, only what their writers write back.

### WidgetDelivery

State: the stored messages in order, each with its event due, sent or lost; the page's socket (off, on, in the chat's
room), the events on their way, how often the page has rendered each message (`panel`), the visitor's own message under
way, and the histories asked for and under way.

| Action | Code |
|---|---|
| `Store`, `StorePost`, `Emit`, `LoseEvent` | a message is inserted; `emitMessageCreated` (conversations.gateway.ts:268) is a later step, and notes go to the organization only |
| `Connect`, `Join`, `ReceiveEvent` | `handleVisitorConnection`, `handleConversationJoin` (gateway:290, 113); the script's `message.created` (widgets.service.ts:2429) |
| `SendFirst`, `Send`, `ReceiveFirst`, `ReceivePost`, `LosePost` | the script's `sendMessage` (2478-2522), which loads the history before it sends and, for a new chat, three times after |
| `AnswerLoad`, `ReceiveLoad`, `LoseLoad`, `Refetch` | `listMessages` of the API (541), the script's `loadHistory` (2525) |
| `StartChat`, `Adopt`, `Invited`, `OpenPanel` | `startChat`, `adoptInvitedConversation` (2386), `conversation.invited` (2443), `openPanel` (1743) |
| `Disconnect`, `Reload` | the network; the visitor's browser |

Abstractions: one chat and one page, which has one message of its own under way; texts, receipts and typing are left out.

### Subscription

State: the subscriptions at the gateway with what they charge, the workspace's `billing_subscriptions` rows,
`organizations.status` and add-on, the number of active members, requests and webhook posts under way. `Steps` lists the
statements and gateway calls of `subscribe`, `cancel`, `setAddon` and `syncSeats` (billing.service.ts:324, 648, 113,
487) in their order; a request does one at a time, and each may be the last (`Die`), be refused by the gateway
(`Decline`, `GatewayFails`) or done without an answer (`LoseAnswer`). `ReadHook`, `ApplyHook` are
`handleAuthorizeNetWebhook` (267): events of `Suspend` and `Expire` come late and in any order. `MayBe` is
`billing_subscriptions_one_current_idx`. `ChangeTeam` is a change of the team that calls `syncSeats`, `SetMemberStatus` one
that does not (organizations.service.ts:308).

Abstractions: an amount is what it is the price of (seats and add-on), there is one flat and one per-agent plan, and the
gateway is configured. Invoices, trials that run out, and refunds are left out. `overtaken` and `disturbed` are history: a
fault or an overlapping request lost hold of a subscription; seats changed without `syncSeats`.

### Membership

State: each person's membership and roles, the names of the custom roles, the newest invitation of each, and requests with the
context they began with (the access token and `getContextOrThrow` are read once). `ContextOf` is what
organization-access.service.ts:49 makes of a member's roles: their *labels*, which are keys, or names where a role has no
key (`Label`, :52), and all their permissions. Who has the label OWNER `IsOwner` (:164). `Contexts` are those the permissions guard
lets through. `UpdateRole`, `CheckName`, `Rename` are the renaming of a custom role (roles.service.ts:68).
`Look`, `ReadActive`, `CountOwners` are the reads of
`assertCanManageMember` (organization-access.service.ts:118), `CountMembers` those of `removeMember`; `WriteStatus`, `Delete`,
`Assign`, `Revoke` the writes of organizations.service.ts:308, members.service.ts:177, roles.service.ts:136, 181.
`CheckSeats`, `CheckPending`, `CheckMember`, `Insert` are `createInvitation` (organizations.service.ts:349), `ReadInvitation`,
`FindPlace`, `MarkAccepted`, `Join` are `acceptInvitation` (members.service.ts:90), `FindPlace`, `Revive`, `CreateMember`,
`CreateRole` are `ensureMembership` (sso.service.ts:257). `Delete` may be refused: the messages of a member would lose
their sender, which `messages_sender_identity_check` forbids.

Abstractions: the roles of the system are OWNER and AGENT. Custom roles are there from the start, one of them perhaps with the
name OWNER, and keep their permissions; their names are told apart by whether they are OWNER. Of the permissions four
are told apart: to manage members, to manage roles, what agents may do, and the rest of what Owners may do. `raced`: two requests
that may take an Owner away overlapped. `promoted`: a request's target became an Owner after it began. `out`: who was removed and is neither invited nor signing on.

### Sessions

State: one account's `refresh_tokens` in order of creation, each with its *line* (a sign-in and all the tokens exchanged
since), the recovery codes, the newest challenge and reset link, requests under way, and in one browser the stored token
and per tab the refresh it is at.

| Action | Code |
|---|---|
| `FindToken`, `Revoke`, `Create` | `refresh` (auth.service.ts:250): the lookup, the update, `createSession` (676) |
| `EndLine` | `logout` of the API (286), or the token expires |
| `SignIn`, `IssueChallenge` | `login` (172), Google, single sign-on, an accepted invitation; with a second step, only a challenge |
| `LookAtLink`, `UseLink`, `LinkExpires`, `NewLink` | `consumeUserToken` (505), `issueUserToken` (480) |
| `CheckCode`, `SpendCode` | `verifySecondFactor` (account-security.service.ts:187) |
| `RequestPasswordReset`, `SetPassword`, `RefusePassword` | `requestPasswordReset`, `resetPassword` (351, 377) |
| `Refresh`, `Retry`, `GiveUp`, `Receive` | the dashboard's `refreshAccessToken` (apps/web/src/lib/api.ts:133) in each tab |
| `LogOut` | `handleLogout` (dashboard-shell.tsx:3413), which does not ask the API |
| `Die`, `LoseAnswer` | a dying process; a lost answer, while the request may go on |

Abstractions: whether a password or an app's code is right is left open, and so is whether the account has a second step.
History variables: lines that have `ended`, tokens that are `doubted` (two tabs asked at once, or an answer was lost),
what was `spent`, spent `again`, and looked at by two requests at once (`crossed`).

## 3. What the runs check

| Run | Checks | Shows |
|---|---|---|
| `conversation` | `TypeOK`, `OneMessagePerKey`, `FirstResponseIsAgentReply`, `AssignmentsAreWhole`, `LastMessageIsStored`, `SendsOnce`, `FirstResponseSettles`, `VisitorTextLeavesChatActive` | two requests of all kinds, retries and losses, beside assignments and status changes |
| `transfer` | `AnyOtherAgentCanBeAssigned` — **violated** | an agent who had the chat earlier cannot be given it again: the earlier assignment row is never closed (conversations.service.ts:349), and `conversation_assignments_one_open_idx` refuses another |
| `channel` | `TypeOK`, `StoredOnce`, `AcceptedIsKept`, `OneChatPerCustomer`, `ChatsAreComplete`, `WebhooksAreAccepted` (liveness) | two customers, a webhook with a message of each, one with a reply; two posts at once, one fault: and every webhook is accepted in the end, unless the customer's chat is finished |
| `channel_thread` | `InboundIsStored` — **violated** | when the customer's chat is finished, his next message is refused by the thread index at every retry and is never stored (channels.service.ts:325) |
| `routing` | `TypeOK`, `OverrunIsBounded`, `NobodyFreeIsOverlooked` | two first messages beside everything agents do |
| `proactive` | `TypeOK`, `DuplicatesAreBounded`, `ComesToRest` (liveness) | clicks, a first message, overlapping heartbeats, reloads and losses: duplicates stay within the clicks that race, and the widget comes to rest on the newest unfinished chat, also when the push was missed |
| `duplicates` | `SecondClickIsRefused` — **violated** | visitors.service.ts:200 says that a second click racing the first is refused rather than silently creating a duplicate; both clicks look before either creates, nothing in the database refuses the second chat (:228), and there are two |
| `bot_turns` | `TypeOK`, `OneVoice`, `SilentAfterPause`, `PauseIsKept` | two messages handled at once beside another writer of the metadata, an editor and failures: a pause is lost only to a write that overlapped it |
| `delivery` | `TypeOK`, `NotesStayInside`, `RenderedOnce`, `UpToDate` | drops, reloads, dead processes and late histories: once a whole history read from within the room is rendered, no public message is missing that still has an event |
| `billing` | `TypeOK`, `NobodyPaysTwice`, `PaidIsServed`, `ChargedAsUsed` | plans taken, changed and cancelled, add-ons, seats, late events, one fault |
| `membership` | `TypeOK`, `OwnerIsKept`, `RemovedStaysOut`, `OwnersAnswerToOwners` | three requests of every kind among an Owner, a second Owner or manager, and a newcomer, with a custom role that may be named OWNER |
| `sessions` | `TypeOK`, `SpentOnce`, `EndedStaysEnded`, `RefusedForAReason` | two tabs, two requests, recovery codes, a reset and two faults |

What the last runs except, and what a reader of the code should know. The properties say what the code keeps; where a comment
promises more, this is what happens:
- A retry that overlaps its first attempt gets a unique violation instead of the stored message (conversations.service.ts:519);
  the next retry gets the message. Two first messages counted at once give an agent one chat more than his limit
  (widgets.service.ts:1442), and two clicks open two chats with one visitor (run `duplicates`): `OverrunIsBounded` and
  `DuplicatesAreBounded` state how far this goes.
- An agent's EVENT stands in the transcript beside those of assignments (conversations.service.ts:526).
- Two overlapping `subscribe`, or a fault between the gateway's answer and the row, leave a charge that no row names
  (`overtaken`). A cancelled plan leaves its add-on active, though billing.service.ts:106 says an add-on is never active
  without being billed. `updateMember` and single sign-on change the team without `syncSeats`.
- Who holds a custom role named OWNER counts as an Owner where Owners are changed (organization-access.service.ts:52, 164), though
  the comment at :115 speaks of Owners; he can give the role of Owner only with all its permissions.
  `OwnersAnswerToOwners` is stated of those the API takes for Owners.
- Two overlapping removals or demotions may leave no Owner (`raced`). An invitation that expired still blocks a new one
  (organizations.service.ts:375); single sign-on makes a suspended member active (sso.service.ts:266); the number of seats is
  looked at when inviting, not when accepting; a member who has written cannot be removed.
- After a lost answer the tab asks again with the token that was exchanged (api.ts:142), is refused, and removes the stored session,
  even a newer one of another tab; the comment says a hiccup does not do so. Logging out leaves the refresh token
  alive, and a refresh under way stores a session again. A challenge outlives a reset of the password. Two sign-ins with different
  recovery codes bring one of them back. A weak password uses up the reset link.
- Two chatbots switched on at once may both stay on (bot-flow.service.ts:152).

Bounds and why they are enough.
- `conversation`: 2 requests race pairwise, 1 key (two keys never meet in a guard), 2
  agents (one assigned, another), `MaxMessages` = 3: a stored message, one being written and a third that
  moves the row. One settable status, RESOLVED: guards only tell finished from
  unfinished, and `Assign` and visitors bring it back.
- `channel`: 2 posts, webhooks `<<m1, m2>>` and `<<m3>>` with m1 and m3 of one customer, so that
  the chat is looked for by two posts, a post fails in its middle, and a reply lands in
  another chat. `MaxFaults` = 1: one fault at any step, a post that dies or whose answer is lost, or a disconnection, after
  which the connection may be made again. Agents finish chats for good (`Settable`), which is what the thread
  index depends on. All messages have an id here (`Unnamed` is empty); the theorems have any. Symmetry is not used, for the
  temporal property. Deadlock is not checked: once all webhooks are delivered and the bounds are used up, nothing is left to do.
- `routing`: limits 1 and 2, so that the least busy agent is not always one with room;
  `MaxChats` = 4 fills both and leaves one for the overrun.
- `proactive`: 2 clicks race pairwise, 2 heartbeats so that an old answer arrives after a newer one, 1 first message.
  `MaxChats` = 3 is one more than the duplicates the property allows, and lets the newest chat change twice. Losses are
  not bounded.
- `bot_turns`: 2 turns race pairwise beside 1 other writer; one chatbot with a question, a circle and a hand-over;
  `MaxSteps` = 2 so that a walk is cut off, `MaxAsking` = 2 below `MaxMessages` = 3 so that the budget runs out.
- `delivery`: `HistoryLimit` = 2 below `MaxMessages` = 3, so that a history may be whole or not; 2 histories under way overtake
  each other; 2 losses, drops or reloads.
- `billing`: 2 subscriptions (an old and a new one), 2 requests at a time of 3, 1 fault; the flat plan includes 1
  agent, the team has 1 or 2. States after a subscription was lost hold of are not explored: every property but the type excepts them.
- `duplicates`: 2 clicks; `proactive` has the same instance with a second heartbeat.
- `membership`: an invitation may be renewed once; 3 requests suffice for two that race and a third that set the stage, so that a
  newcomer with a custom role named OWNER meets two Owners. The one custom role lacks one permission of an Owner.
- `sessions`: 2 tabs, 2 requests, 2 recovery codes; each kind of link is issued twice and a tab asks twice. `Few` stops where the number of
  tokens, links and faults together passes 4: two challenges and a refresh, a reset beside two refreshes, two faults.

Fairness. `ChannelInbound`: a post that has begun goes on (`WF` of `Handle(p)`: nothing
in the handler waits for anyone; a dying process is `Fail`, of which there are finitely
many), and the provider posts each unaccepted webhook again and again (`SF` of delivering it: strong, because a
post slot can be busy in between). Customers, agents and settings owe nothing. `ProactiveChat`: the API answers some heartbeat again and again (`WF`: the
script sends one every 25 seconds while the page is in view, widgets.service.ts:2404), and of the answers under way not every
one is lost (`SF`: losses interrupt it). The socket, the agents and the visitor owe nothing. The other modules have
safety properties only.

## 4. What is proved

TLAPS proves the following for any number of requests, agents, keys, messages and chats, from the
named assumptions on the constants in the modules they are about.

`ConversationProofs`
- `Typing`: `Spec => []TypeOK`. The type alone is not inductive: `Commit` stores a row it
  was handed earlier, so `RowsAreKept` says that a request with a row in hand has one
  that agrees with its key and kind.
- `Invariance`: the inductive invariant `IInv`. For `OneMessagePerKey` it says of open
  transactions that no key of theirs is stored and no two share one
  (`KeysOfOpenTransactions`, which the unique index establishes at the insert, and a commit needs),
  and that messages without a transaction have no key (`LooseHasNoKey`).
- `OneMessage`, `FirstResponse`, `LastMessage`: the three invariants.
- `Sending`: `Conversation` implements `SendOnce`. `RepliesAreStored` maps an answer to
  `Answer`, `KeysOfOpenTransactions` maps a commit with a key to `Store`; all other steps stutter.
- `FirstResponseIsSettled`, `VisitorTextReopens`: the two action properties.
- `Assignments`: `AssignmentsAreWhole`, from an invariant of its own (`AssignInv`): no message's id and no assignment's
  time is above the clock. So the row of an assignment is newer than every other and the agent in charge is the one it names;
  and no message that is written meanwhile is an event of the system.

`WidgetProofs`, about `Routing` (whose `RoutingInit`, `RoutingNext`, `RoutingSpec`, `RoutingTypeOK` have names of their
own so that one module can extend it and `WidgetDelivery`)
- `RoutingTyping`, `Invariance`, `Overrun`: a request that has counted agent a and found room is
  a *promise* of one more chat. Chats alone are not inductive; chats plus promises
  below limit plus requests are: `Create` turns a promise into a chat, and `Count` makes
  one only while the chats are below the limit.
- `Queueing`: `NobodyFreeIsOverlooked`, from `Remembered`: an agent with room
  ever since the request began is either still to be counted or was counted with room.

`ProactiveChatProofs`
- `Typing`, `Invariance`, `Duplicates`: the bound on unfinished chats that agents opened is not inductive, for a
  request that has looked still creates one. With such requests counted as well it is: `Look` adds one to the sum only where
  there is no chat at all, so that requests alone remain and they are at most `Starts`; `Create` turns a request into a chat;
  everything else keeps the sum or lowers it. `Reopen` adds nothing, since what it brings back is no longer proactive.

`ChannelInboundProofs`
- `Typing`: a post's references are to rows that are there, from `Fits`: what a post keeps at each of its places.
- `OneChat`: from `Placed`: a thread has one chat (the index), and the chat a post holds is the one its message answers or the one
  of its thread, which stays so since neither threads nor answers change.
- `Once`: rows with an id are unique because `Store` is guarded by the index and rows are only added.
- `Accepted`: from `Dealt`: each message of a webhook is still left in the post, stored or ignored, so that none is when the
  post answers.
- `Complete`: `ChatsAreComplete`, from `Tended`: what a chat still lacks, a post that holds it is about to do. A post whose row the
  index refuses leaves its chat to the post that stored the row, and by `Placed` that is the same chat.

`MembershipProofs`
- `Typing`, with `OnCourse`: a request is at a place of its operation.
- `OwnerStays`: from `Kept`. A request that has passed the check knows of an active Owner other than its target, and while no
  other such request runs nothing takes that one away; the reads before the check see at most the active members there are.
- `StaysOut`: from `Locked`: for a removed person no invitation is open and no request is under way past its first read.
- `OwnersAnswer`: from `GivenByOwners`: the role of Owner is only carried by requests and invitations of who has the label OWNER and all
  permissions (`Entitled`), and a request against an Owner has the label or had found him without the role. For any custom
  roles, whatever their permissions and names.

`WidgetProofs`, about `WidgetDelivery`
- `Typing`, `Inside`, `OnceOnly`, `NoGap`: one invariant, `Delivered`. `Clean`: no note is among the events, answers and
  histories under way. `RenderedOnce` holds since what is rendered is looked for first. `Promised`: what a history read from
  within the room leaves out is a message whose event is still to come. The page stays in the room until `Disconnect` or
  `Reload`, and both take the promise back.

`BotTurnsProofs`
- `Typing`, `OneAnswers`, `Silence`: from `IInv`, which adds to the type what a turn may have said at its place (`Spoken`)
  and that, while the bots are paused, whoever acts on older metadata is in `overlapped` (`Noticed`).
- `StayBack`: `PauseIsKept`, step by step: only `Save`, `Clear` and `WriteBack` write the metadata back as it was read.

`SessionsProofs`
- `Typing`, from `Typed`: a request is at a place of its operation (`Sound`).
- `StaysEnded`, from `Over`: a request that has a token of an ended line in hand is late, and what it creates is excepted.
- `WorksOnce`, from `Used` and `Known`: what was used is neither usable nor in the hand of another request, unless two had
  looked at it at once; a token that is made is new.
- `NotThrownOut`, from `TabsAsk` and `TokensGood`: a waiting tab asks with the token of its request, or it is in doubt;
  the stored token works, or a tab is exchanging it, or there is a reason why not; a token on its way to a tab is nobody else's.

`SubscriptionProofs`
- `Typing`, from `Typed` and `Told`. The type alone is not inductive: that a row may be written needs that a request with a
  subscription or a row in hand is at a place of its operation (`Placed`), and that an event may be applied needs that the
  gateway's events are about its subscriptions.
- `PaysOnce`, `PaidAreServed`, from `Accounted`, which holds until something is lost hold of (`overtaken`): there is one row
  at most; a subscription that lives is its or in a request's hands (`NoneLost`); what a row or a request past its call
  of `cancelSubscription` calls ended has ended; and a row that is paid for is ACTIVE (`Served`). A late event writes a row
  only if the row names the event's subscription, and by `Told` that one is not paid, and will not be again.
- `ChargesAsUsed`, from `Exact`, which holds until requests overlap, seats change without `syncSeats`, or a fault keeps
  a charge from being made (`disturbed`): one request at most is under way, and `Sound` relates what it has read, what it has had the gateway charge,
  what the row shows and what it has still to write. Seats differ from the charge only while `syncSeats` recomputes, the add-on
  only between setAddon's call of the gateway and its write of the workspace.
- `LosesOnlySo`: with requests one after the other, `overtaken` is only set by a fault, or by a webhook that had read its
  row before the row was written for another subscription. So the two exceptions of the theorems above are no wider than
  faults, overlapping requests and such webhooks. No run checks it under this name; it is an action property of the
  proofs' own (`LostForAReason`).

Only model-checked: liveness (`WebhooksAreAccepted`, `ComesToRest`). Liveness under fairness and ENABLED are beyond
the prover, as is induction over data; no module uses RECURSIVE operators. Every other property of a passing run is stated
by a theorem.

## 5. Plan

The order follows how much of the product's daily work depends on a part.

1. `Conversation`, `SendOnce`, `ChannelInbound`, `Routing`, `ProactiveChat`, `Membership`, with their proofs — done.
2. `BotTurns`, `WidgetDelivery`, `Sessions`, `Subscription`, with their proofs — done.
3. Left for later modules: read receipts, campaigns' counters, the failed-login counter and switching the second step on
   and off, contacts' tags.

## 6. What is not modelled, and why

Reports, exports, health, admin, storage, mail, audit, encryption and monitoring are I/O and formatting. CRUD of
departments, schedules, canned responses, knowledge and notifications has no order of steps to get wrong. Identity
providers, Authorize.Net, the language model, the redis adapter and the messaging providers are external; they appear as what
the modelled code sees of them. Most of the dashboard displays what the API returns. Campaigns keep a counter nothing else
reads. Creating, deleting and redefining custom roles are left out of `Membership`. Registering, the failed-login counter and two-factor set-up are one request on one row each.
