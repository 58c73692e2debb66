# MIBO, specified in TLA+

MIBO is a chat assistant that answers with generated user interfaces. This directory is a verification
development of its code: TLA+ modules that model the parts whose correctness depends on the order in which
things happen, or on lookups and derivations that several pieces of code do each in their own way; configurations
with which TLC checks them; and proofs that TLAPS checks. Paths below are relative to `src/src/` unless they
begin with `src/`; `client/` is `MIBO.Client/client/src/`.

Check a run with `tlc -config <run>.cfg <module>` and the proofs with `tlapm <module>Proofs.tla`, for each of the
modules of section 4. `PROJECT.json` lists the components, the runs, for each definition the lines of code it stands for,
for each property a mutant of the code that violates it, and the hazards the properties are aimed at.

## 1. Inventory

### How the parts interact

    browser  --HTTP, SSE-->  ApiGateway  -->  ConversationService  --HTTP, SSE-->  LangChainService --> Groq
    (tabs share              (Ocelot)         | MongoDB: conversations,            | reads and compacts the same
     localStorage)              |             | messages, status, audit            | conversation documents
                                |
                                +-->  ActionService  --> Spotify, weather, news, bank ...
                                |        | RabbitMQ: retry, execute and dead-letter queues
                                |        | MongoDB: audit log and status   | Redis: Spotify tokens
                                +-->  IdentityService  (PostgreSQL: users; Redis: Spotify tokens)
    status page --polls--> ActionService's summary of the monitor store

Nothing spans two stores with a transaction. Services share MongoDB documents (a conversation is written by
ConversationService and by the agent; a status document by every process that records an outcome), Redis keys
(Spotify tokens, by two services), RabbitMQ queues, and the browser's localStorage (by all tabs). Within a tab of the
browser, parts share React's state, which each of them reads as of the render it was made in.

### Components: services

Each entry: its state, its operations, what is hard about it, what makes it correct, and the module.

1. **External call retry pipeline** (`MIBO.ActionService/RetryPolicy`). State: a delay queue, an execute queue
   and a dead-letter queue in RabbitMQ, an audit log and a status document per service, the locals of calls
   and message handlers. Operations: an interactive call with its immediate attempts, scheduling the next
   attempt, the expiry of a delay, delivery, a queued attempt, recording, dead-lettering, acknowledgement.
   Hard: at-least-once delivery, crashes between any two of these, publishes without confirmation,
   unsynchronised read-modify-write of the status, redeployment with other limits. Correct if: no promised retry is
   silently lost, chains of attempts are bounded and not forked, log, status and queues agree, and every
   promised retry ends. `RetryPipeline`, `RetryContract`.
2. **Monitor store** (`MIBO.Storage.Mongo/Integrations`). Audit rows and status documents; its writes are steps
   of `RetryPipeline`, the summary made of its queries is `StatusSummary`'s.
3. **Chat stream** (`MIBO.ConversationService/Controllers/ChatController.cs`, `MIBO.LangChainService/main.py`).
   State: a request's buffer, the agent's task and event queue, the connection. Operations: validating, storing
   the prompt, calling the agent, forwarding events, recording outcomes, storing the reply. Hard: the client may
   leave at every await, the agent may die, the network cuts the stream anywhere, also within a character, and each read is decoded on its own. Correct if: events arrive
   in order and as they were read, each request has one recorded outcome and it is true, a stored reply was shown, streams end. `ChatStream`.
4. **Conversation store** (`MIBO.Storage.Mongo/Store/Conversation/MongoConversationStore.cs`). State: documents
   and messages in two collections. Operations: create, rename, delete, append a prompt or a reply, set a title. Hard: each is several
   database operations and requests overlap; a client may choose the id of a conversation. Correct if: counts, messages, titles
   and owners stay consistent. `ConversationStore`.
5. **Agent memory** (`MIBO.LangChainService/agent/memory.py`, `agents/intent_agent.py`). State: summary, cutoff
   and legacy messages of a document, the window of a chat. Operations: load, compact, trim. Hard: a model call of several seconds
   between reading and writing the document, two kinds of compaction, a text that is cut before it is summarised, times in milliseconds. Correct if: nothing else is forgotten or shown twice. `ContextMemory`.
6. **Groq keys** (`MIBO.LangChainService/agent/groq_provider.py`). State: the index of a shared pool. Operations: draw
   a key, rotate after a rate limit. Hard: requests interleave. Correct if: a request tries different keys before it gives up. `GroqRotation`.
7. **Spotify tokens** (`MIBO.Cache.Redis/Spotify`, `MIBO.IdentityService/Controllers/SpotifyAuthController.cs`).
   State: one Redis key per user with a time to live. Operations: connect, disconnect, get, refresh, save. Hard: refreshes overlap
   with each other, with a reconnection and with the clock. Correct if: tokens taken from the store work. `SpotifyTokens`.
8. **Identity tokens** (`MIBO.IdentityService/Services/AuthService.cs`, `Controllers/AuthController.cs`). State: one
   refresh token per user, a cookie per browser. Operations: login, refresh. Hard: several browsers, optimistic concurrency
   whose failures are ignored. Correct if: browsers do not log each other out. `AuthTokens`.
9. **Platform activity monitor** (`MIBO.ConversationService/Monitoring/PlatformActivityMonitor.cs`). State: the audit log and the status
   of two pseudo services. Operation: recording an outcome, in a read, an insert and a replacement. Hard: recordings overlap, each step may fail and
   its failure is swallowed. Correct if: the status counts nothing that was not recorded, and all of it when recordings do not overlap. `PlatformMonitor`.
10. **Action router and external handlers** (`MIBO.ActionService/Services/ActionRouter.cs`, `ExternalServices`). Stateless: queries, their
    transforms, actions and the sources an action refreshes. Correct if: the transforms compute what the plan declared, and what the client shows is
    the answer to what it asked. `LiveData`, `UiSources`.
11. **Composer, planner, executor agents; tools; prompts** (`MIBO.LangChainService/agent`). One straight line per
    request; what they compute comes from a model. Only their failures and model calls matter here (3 and 6).
12. **Gateway, application host, deployment, finance flag, indexes, UI stores**. Stateless, static,
    single operations or unused; not modelled. The deployment tells the models that each service has one replica and is restarted.

### Components: the browser

13. **Client session** (`client/axios/axios-provider.tsx`). State: the access
    token in localStorage and, per tab, in a ref, a React state and a refresh promise. Operations: send, refresh, send again, abort,
    log in and out, synchronise. Hard: three copies that change at different times, tabs, requests that fail together. Correct if: one
    refresh at a time, newer tokens on the second try, every request settles. `ClientSession`.
14. **Page access and login** (`client/auth`, `routes`, `pages/Login.tsx`, `pages/IntroPage.tsx`, `app/App.tsx`). State: the user in the auth context, what
    each guard remembers, the location with its `returnTo`, the queued intro. Operations: a check of the session, redirects, a login, an intro. Hard: each
    effect acts on the state of its render while logins, refreshes and other tabs change it. Correct if: the tab comes to rest on a page its user may
    see, the one he asked for. `Access`.
15. **Chat view** (`client/hooks/useChat.ts`, `components/chat`). State: the list of conversations, the active one, which are loaded, the
    typing flag, the abort controller, the shown messages. Operations: select, create, rename, delete, send, stop, and the answers to each. Hard: streams, stops
    and fetches overlap. Correct if: the stop button stops the running stream, and no answer hides what was sent. `ChatView`.
16. **Generated UIs and their sources** (`client/utils/agent-chat.ts`, `useChat.ts`, `components/sandbox`). State: the UI of each message with its data, the arguments
    remembered of each source, refreshes under way. Operations: build, page, search, act, patch an answer in, refresh on opening. Hard: answers come after other
    answers and messages; components share sources; an action may have a handler and arguments of its own, or no source; client and router each look its source up in their way. Correct if: what is shown answers what is remembered, and past messages stay. `UiSources`; the rows
    behind it, from the plan's projections to where a component looks for them: `LiveData`; paths and bindings: `UiValues`.
17. **Charts, table, forms, timer** (`client/components/sandbox/registry`). State: picked colours, hover; search, sort, page; a draft;
    a phase, a session, an interval. Hard: each keeps state across renders with other data; effects and timeouts of earlier renders. Correct if: colours and
    rows are those asked for, input is not lost, seconds and sessions are counted once. `Charts`, `DataTable`, `Forms`, `Pomodoro`.
18. **Settings page** (`client/pages/SettingsPage.tsx`). State: what is shown of a connection, whether its button is disabled. Hard: checks, changes and the redirect of
    Spotify answer in any order; the browser may not leave for Spotify's page, or come back from it. Correct if: it ends up showing what the server has, and its button comes back. `Connections`.
19. **Status page** (`MIBO.Client/status`). State: the last summary, its requests. Derives components, bars, incidents and a log from statuses
    and records that were read at different times, while recordings overlap and statuses lose updates. Correct if: these do not contradict each other, and a refresh brings news. `StatusSummary`, `StatusPolling`.
20. **Image viewer of the documentation** (`MIBO.Client/docs/src/components/mdx/ImageLightbox.tsx`). State: zoom, offset, pointers, a drag, a pinch. Correct if: the image stays
    in its frame and no gesture outlives its pointers. `Lightbox`.
21. **Documentation, landing page, intro animation, other widgets**. Layout and texts; not modelled.

## 2. Modules

| Module | What it is | Composed by |
|---|---|---|
| `RetryContract` | what the retry pipeline promises of one call, without queues or documents | implemented by `RetryPipeline` |
| `RetryPipeline` | calls, queues, handlers, audit log, status document, faults | `MCRetryPipeline` |
| `ChatStream` | controller, agent, network and client of one request | |
| `ConversationStore` | overlapping requests on the two collections | `MCServices` |
| `ContextMemory` | overlapping chats on one conversation document | `MCServices` |
| `GroqRotation` | the shared key pool | `MCServices` |
| `SpotifyTokens` | the store, the refresher, Spotify, the clock | `MCServices` |
| `AuthTokens` | the user's row, browsers' cookies, the clock | `MCServices` |
| `PlatformMonitor` | overlapping recordings of outcomes | `MCServices` |
| `ClientSession` | tabs, requests, refreshes, React's renders | `MCClientSession` |
| `Access` | one tab's user, pages, guards, logins and intros | `MCClientPages` |
| `ChatView` | the hook's state, its requests and the server's conversations | |
| `UiSources` | two messages with UIs, their sources, actions and refreshes | `MCUiSources` |
| `LiveData` | rows from the plan's projections to the components | `MCClientPages` |
| `UiValues` | paths, bindings and the lookups of rows | `MCClientPages` |
| `Charts`, `DataTable`, `Forms`, `Pomodoro` | components of generated UIs | `MCClientPages` |
| `Connections`, `Lightbox` | settings page; image viewer | `MCClientPages` |
| `StatusSummary`, `StatusPolling` | the status page: one summary; one after the other | `MCClientPages` |
| `<Module>Proofs` | the theorems of a module (section 4) | extends the module |
| `ServicesProofs` | the theorems of the six services of `MCServices` | extends `MCServices` |
| `ClientPagesProofs` | the theorems of the eleven parts of `MCClientPages` | extends `MCClientPages` |

`MCServices` and `MCClientPages` hold several small instances that share nothing: `Init` chooses the component of a behaviour and the variables of
the others stay `Off`. Some of their variables serve two components that give them the same name.

Conventions. An action is what the code does between two awaits (two database or network operations, two entries
of the event loop, a render and its effects); `pc` holds the await a process is at, and other processes run between. Variables and actions have the
names of the code. History variables are declared as such and no guard of the code reads them. An operator whose comment begins with "Mutant of" is a
plausible wrong version of the next definition; no specification uses it.

### RetryPipeline

`ExecuteAsync`, `TryExecuteOperation`, `ScheduleNextAttempt`, `AppendAudit`, `GetStatus`, `UpsertStatus` are the
awaits of `ExternalServiceExecutor` shared by interactive calls and the consumer's handlers;
`Deliver`, `PublishDeadLetter`, `Ack` are the consumer's; `Expire` moves the head of the delay queue through the dead-letter exchange.
A message carries its attempt and the limit it was started with, as `QueuedRetryMessage` does. Faults are counted and bounded by
`MaxFaults`, and `FaultKinds` selects them: a failing store, a publish that throws, a publish the
broker never stored (there are no publisher confirms), a lost connection, a crash, a failed start.

- RabbitMQ.Client 6.8.1 dispatches to one handler at a time per channel. After a lost connection the library recovers
  it and the broker delivers the message again while the old handler is still running; its acknowledgement is void
  (`acked = TRUE`). This is why there are two handlers.
- `Requeued` puts unacknowledged messages back at the front of the queue, as the broker does.
- A handler whose store throws still acknowledges; the call then counts as `lost`, and so does a dead letter that could not be published.
  `NoSilentLoss` says these are the only ways in which a promised retry goes away.
- A crash loses the handlers' locals and the interactive calls; a restart may choose another configuration of `Configs`.
- A repeated delivery forks a chain of attempts, which the contract forbids and `ForksOnlyByRedelivery` measures; `ImplementsContract` therefore speaks
  of a behaviour until a delivery is repeated.
- Left out: Polly's retries inside an attempt, the lengths of delays and HTTP timeouts (an attempt ends with a success or a failure),
  the audit store that does nothing, malformed messages, configuration reloads without a restart.

### ChatStream

`Controller` is `StreamChatAsync`, `Agent` is `event_stream` and `run_pipeline`, joined by `wire`. Each event travels as two
pieces so that a read may end inside an event. The agent sends text beyond ASCII as it is (`main.py:38`) and the controller decodes each read on its own
(`ChatController.cs:287`): a read that ends within an event may end within a character, and then a piece of that event is no longer `intact`; `cuts` records
these events. `ShownAsSent` says that the client is shown exactly those damaged, and a stored reply in the form it was shown. Between the accepted answer and the `try` block are
four awaits that take the request's token (steps `start`, `session`, `flush`, `open`; lines 255 to 269): a cancellation at any of them records nothing, though the client may
have been sent the session event. `OutcomeIsTrue` excepts just this: nothing is recorded only if none of the agent's answer was read and nothing was stored. `Leave` may happen at any time; from then on awaits that take the request's token
may throw (`NoticeCancellation`). Outcomes are recorded one component at a time; what recording does is `PlatformMonitor`.

### ConversationStore, ContextMemory

A request of the store is a program over database operations: find, upsert, insert, touch, find the title, set the title. `Abort` ends it after
any of them. `InitialDocs` includes a document of the earlier schema, without a user, which the first user to write claims. The
history variables name the situations in which a property cannot hold: `raced` (a deletion in the middle of an append, or a
deletion that ended half-way) and `Contested` (two users sent a first message at once). The properties say that these are the only ones.

In the memory a summary is the set of messages it tells. `CutTo` is the cut to a number of tokens of the text that is summarised, the old summary before the older messages: what is left
may be any beginning of it (`memory.py:203`, `:214`, `:242`, `:275`). Messages embedded in a document of the earlier schema are compacted by replacing their list, stored ones by moving the cutoff; the two kinds
know nothing of each other. `excused` collects what the code loses by design of its steps (a message inserted after a later cutoff was chosen, or left out of a half that ends in its
millisecond, or cut off), `mixed` what lies between overlapping compactions of different kinds: the properties say that nothing else is lost, and that only the latter may be
twice in a history. `CreateMessage` and `StoreMessage` are two steps because the creation time is taken
before the insert; `Tick` is the clock in milliseconds, the precision MongoDB keeps. `CompactFrom` (4), `ReadLimit` (400)
and the token budgets are scaled down with the number of messages.

### GroqRotation, SpotifyTokens, AuthTokens, PlatformMonitor

In `GroqRotation` drawing a key and reacting to an error are one step, since asyncio runs a task alone between two awaits. In
`SpotifyTokens` an access token is the time it ends and a refresh token a number; Spotify replaces refresh tokens always or never
(`rotates`). `Tick` does not pass the moment by which an answer must have been saved (`MaxDelay`). In `AuthTokens` an update of the row succeeds only if its stamp
has not changed since it was read, and the service answers in either case. In `PlatformMonitor` each of the three steps may fail or be cancelled; a failed
read or insert ends the recording, because one `try` surrounds all three.

### ClientSession, Access

In `ClientSession` a render, its effect, a storage event and a promise reaction are steps of their own; the reactions to one refresh run together, in
one turn of the event loop. `Access` takes the session as a token that may expire, a refresh that succeeds or fails and other tabs that log in and out, and models what
is drawn from it: the check of the session, `AuthGuard` and `GuestGuard` with the state of their last render, `returnTo`, the login form, the intro. `isChecking` of
`AuthGuard` never becomes true again; a logout by `logoutAndRedirect` forgets the page; an intro queued while somebody is already logged in waits for the next
change. A refresh brings a token and a cookie of the account whose cookie it was sent with (`carried`), whoever logged in meanwhile. Up to four redirects follow one event (`RedirectsEnd`). `wanted` collects the pages that may be meant when events overlap.

### ChatView, UiSources

Both are one tab. A step of `ChatView` is what `useChat` does between two awaits; effects run after a render, before the next input. `disturbed` marks turns during
which another one ended (its `finally` clears the controller and the flag of the running one), `overtaken` a conversation that was sent to before its details came
(it is marked as loaded, and its older messages are never fetched): the properties say that nothing else has these effects. `Server` operations and the arrival of a creation's
answer are one step.

`UiSources` has a message with a UI and a second one that arrives while the first is used. Arguments are functions from names to values, a datum is the handler that answered and the
arguments it answered. What is sent follows `sendAction`: the source of the component's action, else the component's own, else the first with the id that the component says; a query of it,
or the action with a source, its own or none. What is answered follows `ExecuteAsync` of the action router: the action's handler before the source's, its arguments over the source's defaults. `Responses` of the
instance cover a pager, a search bar and a button on one source, two views of a source with different arguments, sources refreshed on load, when opened or when stale, buttons whose
action has a handler of its own or no source, a search bar that only says its source, and a text without UI. `ShownIsAnswered` asks for equality of what is shown and what will be asked again; `strays` records, of the
last answer patched in, why it was not one of this source: of another UI, of another view of it, or of an action with a handler or with arguments of its own, which are sent (`agent-chat.ts:866`) and not remembered.

### LiveData, UiValues, Charts, DataTable, Forms, Pomodoro

`LiveData` follows rows from `project_rows` of the action router (expressions included) through the patching of a source to the list each component takes. An
expression is the sequence of its nodes, operands first; of a quotient the whole number below it is kept. It
shows, and its properties except, that components which share a source overwrite each other's given data, that a missing
subtrahend counts as zero, and that a projection without an output path is hidden from charts by a hint that names `items`. `UiValues` compares three lookups of one
path: the renderer's, the table adapter's and the table's own. In `Charts` values are matched to labels by index, and a colour picked for the line of a series that has its
own, or was given one as one of several series, has no effect. `DataTable` sorts numbers and texts as `compare` does, which is no order when a column has both (`Comparable`); a row is its place in the data,
so that two rows may be alike, and the engine's sort is the one of short arrays, which puts each row into those before it by bisection. `Forms` is `FormCard` and
`EmailComposerCard`: an effect is pending whenever a render made a new object of what is given. A form with only one of its two sources makes one at each render, so every keystroke
is undone; this is the case `EditsLostOnlyToRenders` excepts. `Pomodoro` has the timeout that starts the next phase, which nothing cancels (`overtaken`: the
user paused or reset the timer before it started).

### Connections, Lightbox, StatusSummary, StatusPolling

`Connections` is the page of one service; calls belong to the mount that made them. `astray` (a change that had not been made when the
page closed, a user who acts while a status answer is on its way, such as a disconnect right after Spotify's redirect, or a connection made on Spotify's page that the browser left backwards) and `failed` name when it
may stay wrong. The button for Spotify is disabled when it is clicked and only a failure enables it again (`SettingsPage.tsx:49`, `:54`): `Return` is the browser that does not leave, or comes back to the page as it was, and finds it disabled until the page is loaded
anew (`asked`). `Lightbox` has one axis and whole zooms; with a third finger (`three`) a pinch goes on with other pointers than it began with.
In `StatusSummary` any number of recordings overlap while a summary reads statuses and then records. Each takes the time (`Begin`), stores its record, reads the status of its service and replaces it; `PlatformActivityMonitor` reads the
status before it stores the record, the executor and the retry consumer after it. So a status may be made of one that was replaced meanwhile, and an earlier recording may write last: `told` keeps the recordings whose status
was stored and not replaced by an earlier one's, and `StatusFollowsLog` and `QuietBannerMissesNothing` except the others. Of what the page derives, the bars and the filters of the platform and the agent are always empty
if the page makes these two up, all
resolved incidents of a service that is down are said to have begun with the current one, and the agent stays degraded while a queued interactive failure is listed: the properties
are stated of what remains. In `StatusPolling` a late answer to an older poll may replace a newer one of the same effect; `RefreshIsFresh` is about clicks.

## 3. Runs

A listed property is a conjunction of named parts, each with its own comment; the type invariant of a module is part of one of them.

| Run | Shows | Bounds, and why they are enough |
|---|---|---|
| `retry_faults` | limits, losses, forks, audit log and dead letters under every fault; the contract; that every promised retry ends | one call, two handlers (the old and the new one after a redelivery), two faults, four configurations between which a restart may change |
| `retry_interleavings` | the status document and the audit log with overlapping calls | two calls of one service and two handlers: four read-modify-write cycles; one fault; two attempts |
| `chat_stream` | order, outcomes, stored replies, and that requests end | three events in six pieces: several reads per event and several events per read |
| `services` | the six components of `MCServices` | store: three requests of two users on one conversation, of which two overlap while a third deletes or renames; keys: zero to four, fewer than, as many as and more than the attempts, two requests; Spotify: three calls, tokens kept or replaced, a life of 3 and a margin equal to the delay of saving, four ticks; identity: two browsers, three tokens, two ticks, so that tokens expire and are replaced; memory: two chats, two embedded messages and three others in two milliseconds, cuts to one or three messages, so compactions of both kinds, one of them stale, with and without loss; monitor: three recordings |
| `client_session` | one refresh per tab, newer tokens, requests settle | two tabs, three kinds of request of which two share a tab, two tokens |
| `client_logout` | *violation*: aborting a stream logs the user out | as `client_session` |
| `chat_view` | control of the stream, nothing sent disappears, sends end | one stored and one new conversation, two sends (a send that ends while the other runs), one rename or deletion |
| `ui_sources` | shown and remembered agree, pages exist, history, refreshes | five responses, two uses of components, two openings: answers in either order, before and after the second message |
| `ui_refreshes` | *violation*: named sources are not refreshed | a button on one source that names another |
| `client_pages` | the eleven parts of `MCClientPages` | summary: a service and the platform, three recordings (two that overlap, and one before or after them), two per hour, one hour of bars; polling: three requests, two clicks; tables of up to five rows on pages of two; forms: two fields, one required; timer: three sessions of one or two seconds; settings: three openings, so a call of a page that is gone and one of the page before; viewer: two fingers and the mouse at three places, zoom to 3; live data: two components, two queries; access: two accounts, four events of the user, the server or another tab |
| `form_edits` | *violation*: the composer loses the draft | one field of two, one text |
| `table_rows` | *violation*: a table shows the service's rows, not the derived ones | as `client_pages` |

No run needs deadlock checking: every model may stop where its requests are done or a bound is reached.
Symmetry is used for sets of requests, calls, handlers and users in `services` and `retry_interleavings`, and never in a run with a liveness property.

### What the violations show

- `client_logout`, `AbortIsNormalCancel`: `fetchWithAuth` awaits the second fetch inside the `try` whose `catch` logs the user out
  (`axios-provider.tsx:212-220`). A stream that got a 401, waited for the refresh and is then aborted by the user
  removes the good token from all tabs, though the comment at line 353 says an abort is a normal cancel.
- `ui_refreshes`, `NamedSourcesAreRefreshed`: the client sends its sources keyed by the names its UI gave them, and the action router looks the
  sources to refresh up by their ids (`ActionRouter.cs:1076`), so that it skips each of them. The documentation promises the refresh, and the router's test keys its dictionary by id.
- `form_edits`, `AllFieldsPreserved`: each render of the parent gives the composer new props, and its effect puts what was given over what the user
  typed (`EmailComposerCard.tsx:95`), though nothing given has changed. The documentation says that all fields are preserved.
- `table_rows`, `TablesShowDerived`: after a query the table's adapter takes the first list of the source's data and the table ignores its `rowsKey`
  (`UiRenderer.tsx:234`, `DataTableCard.tsx:243`), though the planner is told to name the derived rows by it (`prompts.py:188`).

### Fairness

- `RetryPipeline!Fairness`: the deployment restarts a stopped process and the hosted service starts its consumer; the broker expires
  delays and delivers to a listening consumer; a handler goes on, since each of its awaits has a timeout or fails. Nothing makes faults
  happen, and no fairness is assumed of interactive calls. A consumer whose start failed stays stopped until the process restarts; the property says so.
- `ChatStream!FairSpec`: the controller and the agent go on, because each awaits an operation that is answered or fails. The client need not leave.
- `ClientSession!Fairness`: the browser ends every request, with an answer or an error. Renders and storage events are not assumed: settling does not depend on them.
- `ChatView!Fairness`: the browser settles every request of a turn, and React runs the effects of a render. That a stream makes progress, that the
  server answers a fetch and that the user goes on is not assumed: a send ends because its request does.
- `UiSources!Fairness`: React runs an effect that is due, and the loop that refreshes an opened message gets an answer or a failure for each of its sources. One weak
  fairness condition on both (`Going`) says this: an effect cancels the loops before it, so that one or the other goes on. Other answers may stay away.
- The other modules have no liveness property and no fairness: what they say of the end of an activity is an invariant of the states in which nothing is
  under way any more.

## 4. Proofs

TLC checks the small instances above; the theorems hold for every value of the constants that meet the stated assumptions. Each proof
module has an inductive invariant (a conjunction of named parts), one lemma or step per action, and theorems whose names say what they establish.

`RetryPipelineProofs`, from `ConstantsAssumption` alone (any number of calls, handlers, services, attempts, faults and configurations):

- `TypeCorrect`: types, and that a busy process has a job.
- `StatusStaysCoherent` (`CoherentInv`): the document and every snapshot a process holds of it are coherent. A snapshot is stale, but what
  is computed of a coherent one is coherent.
- `StatusNeverAhead` (`CountInv`): the audit log is ahead of the document, and of each snapshot, by at least the number of processes of that service that have
  appended a row and not yet written the status. The number is needed because several cycles overlap.
- `NeverSilentlyLost` (`LossInv`): each unacknowledged delivery belongs to one handler (`OneUnacked`), and each open promise is accounted for by a message, by a
  handler, or by a reason to give it up (`Accounted`).
- `AttemptsStayBounded` (`BoundedInv`): messages in queues and in hands are within the limit they carry.
- `CallersAreTold` (`CallerInv`): an interactive call is at attempt 1 of itself, and a process past its append has its row in the log.
- `ForksAreRepetitions` (`ForkInv`): a call's messages in queues and hands number at most one more than the repeated deliveries. The lemmas on
  `InQueue` say what an append, a take and a putting back do to the count; `ShiftedCardinality` what happens to the handlers that hold the call.

And, for `RetryContract`:

- `PipelineImplementsContract`: the refinement. The mapping reads the fate of a call off several variables, so that each action of the pipeline must be shown to be
  one step of the contract or none. The lemmas `QuietStep`, `SettleStep` and `GrantStep` do this for the three kinds of action. The
  invariant is `OneChain`: while no delivery was repeated, an open call is in one place, once in a queue or with the one busy handler, and what is there carries the last
  promised attempt. Assumption `LimitsBounded`: among the configurations one has the highest limit (the contract's `Limit` is chosen so).
- `LogsAlwaysExplained` (`LogInv`): the log, the dead letters and the queues explain each other. `ProcessStep` says once what any step of the system may do to a process, `QueueSteps`,
  `PromiseSteps` and `RecordSteps` where messages, promises and rows come from; from these each part is shown to stay. `RetriedAsBefore` says that without a fault the
  configuration is the one that queued the messages, and `RowsArePast`, while no delivery was repeated, that a row is of an attempt which nothing in a queue or with a process repeats. It uses
  `OneChain`, `AttemptsBounded` and `CallsAreFirst`.

`ChatStreamProofs`, from `MaxEventsAssumption` (any contents of answers, any number of events in a reply):

- `AlwaysShownAsSent` and `OutcomeAlwaysRecorded`, by one invariant. `Progress(taken)` follows every event: what was taken from the agent's queue is a prefix of what the agent
  produced, what travels in `wire` and `rawBuffer` are two pieces of each of the next ones, in order, and what the client was sent is what was taken. `DamageFollows` ties
  the pieces that a read cut within a character to the events on record for it, so that a damaged event is the one that was cut and no other. The number `taken` is in no variable of the
  code, so the invariant says that there is one. `PlaceIsTrue` and `RecordIsTrue` tie the controller's place to the agent's state, the stored reply and the outcomes recorded by then (`NothingRead`: before the
  `try` block the client has at most the session event);
  `DoneIsLast`, that nothing follows a final event, makes the stored reply the last one. The lemmas on `Travelling` say what a read, a write and a cut of the buffer do to the pieces.

`ChatViewProofs`, from `ConstantsAssumption` (finitely many conversations): `StreamAlwaysUnderControl` and `NothingSentEverDisappears`. The first is inductive but for types. The second
needs what the hook relies on and never checks: a conversation that something was sent in counts as loaded until it is deleted (`TurnsAreLoaded`), what counts as loaded is in the list until the
request for the list is over (`LoadedAreListed`: otherwise the answer would drop its messages), and answered details that will still be shown are all that is stored (`DetailsAreComplete`).
The lemmas on the list say what moving, adding and removing an entry and replacing the whole do to what is listed.

`ServicesProofs`, from the assumptions of `MCServices` (numbers are numbers, margins cover delays, `None` is nothing else). A behaviour of `MCServices` is one component's: each component has an inductive
invariant of its own, stated of the instance, and `StartIsOwn` and `StepIsOwn` carry it over to the whole. The theorems are all the properties of the run `services`:

- `SessionsAlwaysHold`: `AuthReadsAreTrue` says that a row whose stamp is unchanged is the row that was read; `AuthAnswersAreCurrent` and `AuthCookiesAreCurrent`, that what a browser is given and keeps
  is the row's token unless that one was replaced after it expired.
- `AccountAlwaysUsable` and `CachedTokenAlwaysValid` (an action property): the invariant ties a token in a caller's hands (`SpotifyNewTokensWork`, `SpotifyKeptTokensWork`) and the one stored
  to what Spotify still accepts, and the stored expiry to the true one (`SpotifyExpiryNearTruth`).
- `StatusAlwaysTrue`: a status, stored or read, is backed by as many records and failures (`MonitorBacked`), counting the record that a recording has yet to write; and until a recording is disturbed, the status
  is exactly what the records tell, or what they told before the last one (`MonitorExact`, `MonitorInTurn`).
- `RotationIsAlwaysFair`: the draws of a request are as many as its attempts and lie between its first and its last one (`GroqDrawsAreAttempts`, `GroqDrawsHaveEnds`). The rest is arithmetic on
  `index % size`, proved here because the provers do not do it: as many consecutive indices as there are keys take each key once (`ModInjective`, `GroqKeysCover`).
- `MemoryIsAlwaysAccountedFor`, for any documents, budgets and cuts. The invariant: every document a chat read, and so every summary it may save over a newer one, tells, but for what is `excused` or `mixed`, exactly
  the messages up to its own cutoff and those it does not embed (`MemoryTellsAll`), and what is about to be summarised is all there is up to the last of it, or embedded (`MemoryOlderIsAll`). What a save does to it is one
  lemma for each kind of compaction (`MemorySavedLive`, `MemorySavedLegacy`). `MaxIsLast` is proved with the well-foundedness of the numbers.
- `HistoryAlwaysHolds`, `CountsAndDeletionsAlwaysHold`: the theorems of `ConversationStoreProofs`, carried over.

`ConversationStoreProofs`, from `Parameters`, `OwnedByUsers` (initial documents belong to users or to nobody) and, for the last, `FreshDocs` (initial documents count no messages):

- `RepliesAlwaysHavePrompts`, `ChosenTitlesAlwaysStay`, by `Types`, `MessagesAreOfChats`, `PromptsAreStored`, `ReplyHasPrompt`, `TitlesAreSafe`, `ChosenTitleStays`:
  what a request remembers of its earlier operations (that its prompt is stored, that the title it read is still a default one or was replaced) stays true while others run.
- `HistoryFollows` (`ForeignInv`) adds that a message of a user in somebody else's conversation stems from two overlapping first uses. The invariant follows the overlap
  from the find of one request over the upsert of the other to the insert: `FirstUsesBegan`, `GoneIsUnowned`, `MessagesAreExplained`,
  `InsertsAreExplained`, `UpsertsAreFirstUses`, `OverlapsAreRaced`.
- `CountsAndDeletionsAlwaysHold` (`CountInv`): a counted message is counted by its own request and only once (`AppendsMatch`, `CountedOnce`), the count is that of the counted messages (`CountsAreTrue`), and a message not
  yet counted, or left in a deleted conversation, has a request that is still to count or to delete it, or one that broke off (`RestIsUnderWay`, `PendingAreGone`). The proof showed that
  an exception which `CountMatchesMessages` used to make, for messages of overlapping first uses, never applies, and the property no longer makes it.

`ClientSessionProofs`: `TypesHold`, `NeverASecondRefresh` (`OnePromise`: the requests that wait in a tab wait for its one refresh) and `NewerTokenEveryTime`, an action property.

`ClientPagesProofs`, from the assumptions of `MCClientPages` (numbers are numbers, the image's width is even, required fields are fields, no service is called "all", `None` is nothing else; of charts, that their labels and names have keys,
their values are numbers or none, the palette is not empty, and a picked colour is told apart from all others; of tables, that cells have numbers or none and ranks; of documents, that what is in a JSON value
is one, and paths are not empty; of live data, that lists are sequences under different names, that the agent gives rows only to components that show some, and that operands stand before their
operation). As with the services, each of the eleven parts of
`MCClientPages` has an invariant of its own that `Spec` carries over (`PollingInv`, ..., `LiveInv`). The theorems are all the properties of the run `client_pages`:

- `SummaryAlwaysTellsTheLog`: every status, stored or read by a recording that has yet to replace it, explains itself by the log: it is down exactly if it says since when, and since then is a failure of its service
  (`SummaryExplains`). It need not be of the last record, since updates get lost; but after a recording whose status was stored and not replaced by an earlier one's, the status is that of this record or of a later one
  (`SummaryFollows`). A summary read these before it read the records (`SummaryRead`). What the timeline makes of the log is a loop, written as a recursive function: `SummaryTold` says what its first `n` turns have told of each
  service, and is proved by a least counterexample (`LeastNumber`), since the induction theorems of the library cannot be cited.
- `RefreshAlwaysHonest`: what a request of the current effect read was there after the click (`PollingFreshRequests`); requests of earlier effects may have read less and do not count.
- `TimerAlwaysCounts`: the interval that the ref knows is the only one, and a deferred advance that finds the timer running without one finds it in the phase it was made for (`TimerClockKnown`);
  unless the user interfered, the session follows from the phases of work that are over (`TimerPhaseEarned`).
- `SettingsAlwaysTrue`: a page has at most one check and one call of a button under way, and its button is disabled by that call or since it led to Spotify's page (`AccountOneEach`); unless a call failed or went astray only the present page's calls change the account,
  so that what they were answered is still so (`AccountAnswersAreTrue`).
- `ChartsAlwaysHold`, `ChartsAlwaysObey`: the editor's last pick is what the maps of picks hold while nothing else happened (`ChartEditIsStored`). What is drawn is a source without
  the points and series that have no numbers, and stacks are sums: loops, written as recursive functions. `RecursiveFunction` shows once that such a function exists, `CountUp` carries a fact
  from each turn of a loop to the next; then a stack of the first series is no longer than the whole (`ChartStackGrows`) and the longest bar is the largest of a finite set (`ChartLargest`). That the point
  shown is the nearest is arithmetic with products (`ChartNearest`). Preparing the proof showed that the exception which `PickedColorShows` made for lines was too narrow: with a second source
  TLC then found the line that `HasOwnColor` now describes.
- `FormAlwaysKeepsInput`: in a form with both sources no effect is due before the parent renders (`FormWaitsForRender`).
- `ViewerAlwaysHolds`: arithmetic on the offset that zooming, dragging and pinching leave, for any width and zoom (`ViewerReach`), and the order of the pointers as one of them is lifted (`ViewerCountsPointers`).
- `AccessAlwaysSettles`: the last check was of the present token, or one is under way or to come (`AccessChecked`); a guard whose effect ran let the user in or led elsewhere (`AccessGuarded`); each page is on
  the way to the one asked for (`AccessOnTheWay`); requests are refused on protected pages only (`AccessRefused`). That at most four redirects follow an event
  is shown with a potential: `AccessLeft` is how many redirects may yet follow in a state, and redirects and `AccessLeft` together never exceed four (`AccessBounded`).
  It counts how often the session may yet change (`AccessChanges`): a refresh sent with a cookie settles the session for its account, one sent without is refused.

`UiSourcesProofs`, from `ConstantsAssumption` and `PagingAssumption`: `SourcesAlwaysAgree` and `HistoryAlwaysStays`, for any responses, any numbers of components, queries, uses and openings.
`PagingAssumption` is about what the agent answers: a response begins with the first page, only search bars search, a pager has a source, and the action of a component bound to a source is about that source;
`ConstantsAssumption` says that the services of its sources have entries. (`NamesAssumption`, that the agent does not name its sources `source_1` and so on, as the client names their keys, is why `Handler` looks nothing up; no proof needs it.)
The code checks none of this, and without the first `PageExists` is false: the first page would be the agent's. Every response of the run `ui_sources` meets them.

- The invariant follows answers that are still to come. `RequestsFit` and `LoopsFit` say, of each request and each loop of the present UI, that the source it was sent with is still there with its handler and
  defaults, and that what it will patch in is a page that exists, unless its action has a handler of its own; requests and loops of an earlier UI and such actions need no such promise, because the source they are patched into is
  marked (`mixed`). `strays` marks the last answer only, so that a source shows again exactly what it will be asked once its own answer came (`Answered`).
- `ConversationUiIsShown` and `InstancesInTurn` say which UI is the present one, in each phase of the second message; `Good` holds of every UI and `SameShape` says what patching never changes about it.
- `BuiltIsGood`: what `buildUiFromAgentResponse` builds of any response. Sources are numbered by counting first components, so that this needs no induction over a fold: `NumbersAscend`,
  `KeysAreSignatures`, `ComponentsHaveKeys`, `ActionsAreDeclaredOrInferred`.
- `SentFits`: what `sendAction` sends for a page, a search or a button. A search starts at the first entry; what a pager sends searches only if what it shows does (`ComponentFits`), so that there are
  at least as many entries as the pager counted (`OwnTargetFits`, `PageOkBelow`).
- `HistoryAlwaysStays` follows from where each action writes; only that the latest message is the second one needs the phase.
- `TableAlwaysShowsRows`: that the rows shown have the right types is all that is invariant (`TableTypes`); the rest holds in each such state. The bisection keeps the place of a row between
  its bounds and halves what is left, so that as many turns as there are rows are enough (`TablePlace`); what it returns is where the order changes, and putting the row there keeps a stably sorted
  sequence of the rows so far stably sorted, without loss or repetition (`TablePut`, `TableSortedRows`). A place in the sorted rows is a place on exactly one page (`TableSlotOf`), and places on
  pages are ordered as places in the rows (`TableSlotsInTurn`).
- `DataAlwaysFound`, of two parts. Paths: each round of the loop takes the longest key that is there, and never leads to a value that no reading of the path leads to (`ValuesFoundIsReached`);
  if no key on the way begins like another, every reading is the one of the loop (`ValuesReachedIsFound`); a table's adapter and the table itself extract the same rows if there is
  one list (`ValuesRowsAgree`). Live data: the data are what `SourceData` makes of the response until the first query, and what the transforms make of the last answer afterwards (`LiveIInv`). Replacing
  a list changes no other and keeps its place (`LiveSetNode`), so that contributions spread over each other leave each list with the rows of a component that contributed (`LiveBuilt`), and
  transforms leave the first list, which a table shows, in its place (`LiveTransformed`); a chart goes by the hints, which follow the last projection (`LiveChartsShowDerived`). The loops over operands are unrolled for two (`LiveSumOfTwo` and its like, `LiveComputed`); that the nodes of an expression have
  values at all is shown by counting them up, since each refers only to earlier ones (`LiveNodeValue`).

Checked by TLC only:

- liveness (`EveryRetrySettles`, that streams, requests, sends and refreshes of opened messages end): the proof system has no rule for
  fairness that its backends can apply.

Every safety property that a passing run checks is proved. Facts about loops (sums, sorted rows, paths, timelines) are proved by counting: loops are recursive functions over a range of numbers,
`RecursiveFunction` and its like show that they exist, and `CountUp` and `LeastNumber` carry a fact along, in place of the library's induction theorems, which take an operator as parameter.

## 5. Limits of the models

- The store, the memory and the stream are separate modules: that a reply is appended while a deletion runs is in `ConversationStore`, that the memory reads between the two
  messages of a turn in `ContextMemory`, but no module has both.
- Texts, formats, layout, HTTP headers, token counts and the lengths of delays are abstracted to what the properties tell apart.
- `ChatStream` cuts an event in two pieces, so that at most one character of it is damaged; that more may be changes nothing.
- `ContextMemory` assumes that a model's summary tells all of the text it was given. Messages dropped because a window is full are no loss of the memory, and embedded messages are not loaded while there are messages after the
  cutoff: `HistoryHasNoGap` speaks of stored messages.
- `UiSources` counts entries per handler, and leaves out that a payload template carries the ids of its source and action.
- In `StatusSummary` two recordings do not take the same time, and one whose process dies is one that goes no further. It leaves out daylight saving, the grouping of the log by day, the limit of 1000 records, and services that are
  switched off.
- `LiveData` leaves out rounding, concatenation and the other functions of one argument in expressions, and nested paths there (`UiValues` has paths).
- `Charts` leaves out properties that are given by name of a series; `DataTable` the columns' formats; `Lightbox` a mouse released outside the window and an offset
  that is too large after the window shrank.
- `ClientSession` and `Access` have a logout as an event, though no button of the client calls it.

Met in the code, and modelled by no property:

- `client/components/layout/Sidebar.tsx:75`: a rename that loses focus saves the value of the render it was opened in.
- `useChat.ts`: an answer with the details of a conversation brings back an older title; the client's own title of a new conversation (60 characters and an ellipsis) differs from
  the server's (80) until the list is fetched again.
- `LineChartCard.tsx:100`: a colour picked for the line is shown only if its series has no colour; when the source goes from several series to one, the colour given to that series keeps the
  editor's new field for the line without effect.
- `ProductDetailCard` keeps its quantity and picture when it is given another product; `DataTableCard`'s "Înapoi" has no effect on a page past the last one.
- `agent-chat.ts:255`, `actionResolver.ts:98`: a payload template holds the arguments of the component's source and overrides what the component says, so that a source with a `skip` among its
  arguments has a pager that asks for the same page each time.
- `groq_provider.py:148`: the comment says that a stream changes keys only before its first chunk, the code changes them at any time; a consumer would see two answers, one after the other.
- `SpotifyApiClient.cs:38`: the token is put into the default headers of a client object that calls share.

Why much of the TypeScript has no model: of its 23,600 lines most are JSX with its classes, pages and metadata of the documentation, a generated navigation, copies of
client components under `docs/`, the landing page and the intro animation, and texts. They keep no state that outlives an event. The components not modelled, each with its
reason, are in `PROJECT.json`.

## 6. Plan

Done: the services' core (retry pipeline and its contract, stream, store, memory, keys, tokens, monitor), the client's core (session, access, chat view, sources), the components of
generated UIs that keep state, the settings and status pages, and the theorems above.

Next, in this order:

1. Runs for behaviours the models have and no run states: chunks of an answer come from one attempt (`GroqRotation` records the attempt of each chunk); messages that the cutoff
   excludes are in the summary, also those of its millisecond and of the legacy list; a disconnection removes the tokens although a refresh is under way; tabs agree on the session
   after storage events. Where the documentation promises these they are findings, otherwise decisions to take.
2. `SpotifyApiClient` with the action router: overlapping calls of two users on one client object.
3. The composition of `ConversationStore` and `ContextMemory` on one document, with `ChatStream` as their environment.
4. Abstract specifications of a token store (a lookup gives a token that works, or none) and of a conversation (a list of turns), implemented by `SpotifyTokens` and `ConversationStore`.
5. Theorems: what a refusal of Spotify means for the account; a projection of several transforms in turn, whose values `DerivedIsComputed` states of one.
