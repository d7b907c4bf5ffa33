# TLA+ models of backend-world-wide

The repository is a NestJS backend for study-abroad applications: clients and
partner agencies apply to universities, administrators review, and the two
sides talk in a chat. State lives in one Postgres database behind Prisma; the
service is a single Node process. There is no lock and, but for three
`$transaction` calls, no transaction: a request is a chain of awaited queries, and
requests interleave at every `await`. What can go wrong is what happens
between a check and the write it was made for, when a query in the middle
fails, and when two clients act at once. That is what the modules model.

Paths below are relative to `src/` of the application (`src/src/` here).

## Inventory

| part | state | operations | hard behaviour |
|---|---|---|---|
| Chat service (`chat/chat.service.ts`) | tables Chat and Message | create, send, assign, close, read, edit, delete, clear | check-then-write everywhere; side effects caught and logged; broadcasts after the write; unawaited alert |
| Chat gateway (`chat/chat.gateway.ts`, `auth/guards/ws-jwt.guard.ts`) | userSockets, chatRooms, socket.io rooms | connect, disconnect, join, leave, message handlers | handlers overtake one another and outlive their socket |
| Authentication (`auth/`) | RefreshToken table | login, refresh, revoke | rotation is delete then insert; errors delete the presented token |
| Partner organizations and members | organization, member, permission tables | create on first login, add and remove members, permissions, disable | two-query creations, visibility derived from membership |
| Client applications (`applications/`) | Application table | create, update, submit, review, remove | DRAFT checked, then written unconditionally |
| Partner applications and students | their tables | submit, update, review, remove | duplicate check and insert apart; any status from any status |
| Application process, documents | templates, steps, document types, documents | default template, clone, upload | clear-then-set of the default; clone without transaction |
| Files (`files/`, `digital-ocean/`) | File table and object storage | upload, batch, delete | two stores, no transaction; compensation that forgets rows |
| Users and profiles | User, Profile tables | create, update, bulk create with retry, delete | user and profile are two queries; retry after partial success |
| Reviews | Review table | feature on homepage (at most 3) | count, then update |
| Currencies | one snapshot row | boot, cron, first read, forced refresh | concurrent fetches |
| Intakes | Intake, UniversityProgramIntake tables | create, find or create, update, remove, link; daily expiry and rollover | the job works from a list it read at the start of its transaction; dates |
| Catalogue (universities, programs, countries, cities) | their tables, and one cache in memory they share | create, update, delete, cached reads | clear after write against query and set; limits by count; foreign keys |
| Tables that hang on it (campuses, rankings, requirements, ...) | their tables | create, update, delete | they are part of cached answers, and clear nothing |
| Scholarships | Scholarship table, two flags of University | create, update, move, remove | flags recomputed from two counts in a third query |
| Statistics | the same cache | counts, dashboards put together of kept counts, growth by month | age of kept answers; date arithmetic |
| Site content, settings, notifications, validity | single rows, counts | read, edit | but for the logo, none |

How they interact: controllers call services; `ChatService` and `ChatGateway`
call each other (the gateway's handlers call the service, the service asks the
gateway to broadcast); `AuthService` asks `PartnerOrganizationsService` for a
partner's organization, creating it on first login; `createMessage` asks
`FilesService` for an attachment, and the services of documents and settings ask it for
deletions and uploads; `UsersService` makes profiles through `ProfilesService`; statistics
and the catalogue share the cache; everything else meets in the database.

For each part, what makes it correct:

- Chat service: messages and replies never dangle; a closed chat stays closed and
  an owner keeps a chat, but for requests already past their checks; the
  room agrees with the tables; read flags mean what they say; clients
  nobody looks after are announced to the administrators.
- Chat gateway: only members hear a chat; a join misses no message;
  presence is right.
- Authentication: no more valid refresh tokens of a user than overlapping
  requests, a revoked one stays revoked, only a login starts a session, the
  claims of an access token are its user's.
- Partner organizations: one organization per partner; no one sees another
  organization's students; a disabled one's users are not admitted.
- Applications: a submitted application is not lost or changed by its
  owner; no two active ones for the same student, program and intake.
- Process templates: at most one default, complete clones, checklists that keep
  what was uploaded.
- Files: a row has its object, an object its row.
- Reviews: never more than three on the homepage. Currencies: the latest rates,
  one row.
- Intakes: a program whose intake closes goes on with the next cycle.
- Catalogue: what is cached is what the tables hold; never more than three main
  rows; references hold. Scholarships: the flags say what the table says.
- Users: a user made with a profile has it.
- Statistics: no figure is older than what it is kept for; no month is missing.

`PROJECT.json` lists the hazards, each at its line, with the properties that
cover it or the reason why none does.

## Modules

### ChatService

`chats` and `msgs` are the two tables: functions from the ids of existing rows.
Ids are numbers in creation order (uuids ordered by `createdAt` in the code).
`req` holds the requests in flight. A request is a record of a program counter and
the local variables that survive an `await`; the action its pc names is the
next database call or the continuation that broadcasts. The action that starts a
request does its first read too: before that read it shares nothing, so
nothing is lost. A request refused there (404, 403) is no step.

Four variables are observations. `roomStatus` and `roomView` are what a client sees
who has been in the chat's room from the start and applies every broadcast;
`alerted` is what the administrators' room was told; `readers` records, at each
read, the reader's role. No guard uses them. Of a message's text the model keeps whether an edit
has replaced it: `text` turns with every edit.

| code | actions |
|---|---|
| `createChat` | `CreateChat`, `InsertChat`, `LoadGreeting` and then `createMessage` |
| `createMessage` | `SendMessage` (`LoadChat`), `Activate` or `AutoAssign`, `EmitClaimed` or `ClaimFails`, `GetFile`, `CheckReply`, `InsertMessage`, `TouchChat`, `EmitNew`, `AlertAdmins` |
| `assignAdminToChat`, `updateChatStatus` | `AssignSelf`, `ApplyAssign`; `UpdateStatus`, `ApplyStatus`; `EmitStatus` |
| `getChatMessages`, `markMessagesAsRead` | `GetMessages`, `FetchPage`, `MarkRead`; `ReadMessages` for the socket |
| `updateMessageStatus` | `UpdateMessageStatus`, `ApplyMessageStatus` |
| `deleteMessage`, `editMessage` | `DeleteMessage`, `ApplyDelete`, `TouchChat`, `EmitDeleted`; `EditMessage`, `ApplyEdit`, `TouchChat`, `EmitEdited` |
| `clearChatMessages`, `deleteChat` | `ClearMessages`, `CountClear`, `ApplyClear`, `TouchChat`, `EmitCleared`; `DeleteChat`, `ApplyDeleteChat`, `EmitCleared` |
| a rejected query, the process ending | `Abort`; `ClaimFails` where the code catches |

Details that look odd in the model and are in the code:

- `createMessage` tests the status of the chat object it read, to which it has
  applied its own updates, not the row (`chat.service.ts:859`).
- The try block around the auto-assignment also covers a later query, so the
  row can be claimed and the code still go on as if it were not (`ClaimFails` at
  `emitAutoAssigned`): the chat is active and owned, the message is refused, and
  nobody is told.
- `message.create` connects the chat and the message replied to, and fails when
  one is gone; that, and the foreign keys (`ON DELETE CASCADE` to the chat,
  `ON DELETE SET NULL` to the message replied to), is all that keeps references
  sound. `RemoveMsgs` is the database's part.
- PARTNER and ADMIN share the flag `readByAdmin`.

### ChatGateway

`userSockets` and `chatRooms` are the gateway's maps (an absent key is an empty set),
`adminRoom` and `joined` socket.io's rooms. `handleConnection` has two steps,
before and after the user's row arrives. A message handler has one per await:
the guard's query, the chat's query, `getChatMessages`, the answer. `Close` is
what a closing socket does to the rooms and what `handleDisconnect` does to
the maps; it can come between any two steps of the socket's own handlers. Messages
come from `ChatService` in its two steps, the insert and the broadcast; of the
rest of the service only the deletion of a chat matters here. That an
assigned administrator may enter is covered by the role.

### PartnerAccess

Who is logged on, and for which organization. `users`, `orgs`, `members` and
`tokens` are the tables; `issued` and `access` are what clients hold: the refresh tokens
they were ever given and the claims of unexpired access tokens. `now` counts seconds, since
a refresh token's string is determined by its user and the second it was signed in.
Requests are records as in `ChatService`.

| code | actions |
|---|---|
| `login` | `Login`; for partners `FindMember`, then `FindOrg`, `CreateOrg` (`getOrCreateForOwner`), `CheckOwned`, `CheckMember`, `CheckActive` (`isUserOrgActive`); `Cleanup`, `Sign`, `Store` (`generateRefreshToken`) |
| `refreshAccessToken` | `Refresh`, then the same; its catch block is `Fail` and `Discard` |
| `revokeRefreshToken` (logout) | `Logout` |
| `PartnerMembersService.create` | `Invite`, `InviteUser`, `InviteMember` |
| `PartnerMembersService.remove`, `UsersService.remove` | `Remove`, `DeleteUser` (the database's part: `Cascade`) |
| `setPermissions`, `setMemberPermissions`, `updateMemberRole` | `SetPermissions`, `UpdateMemberRole`, `ApplyChange` |
| `setActive` | `SetActive` |
| `resolveVisiblePartnerIds` | the operator `Visible`, of one state of the tables: between its queries it keeps only the organization's id |
| time, a rejected query | `Tick`, `ExpireAccess`; `Reject` |

Details that look odd in the model and are in the code:

- `login` looks for a membership first and for an owned organization second;
  `findOrgIdForUser`, on which `isUserOrgActive` and visibility rest, looks the other way
  round. For a user who has both (`Dual`) they disagree. He comes into this state if
  he logs in between the two inserts of his invitation: at that moment
  he is a partner without a membership, so login makes him an owner.
- The access token is signed before `generateRefreshToken` and handed out after it; `Store` does
  both, since nobody can use it earlier.
- Permissions are reduced to VIEW_STUDENTS, the one visibility reads. An organization is
  named by its owner.

### The services: Backend and twelve modules

`Backend` holds what they share: requests in flight as records with a `pc`, as in
`ChatService`, and tables as functions from ids. Every awaited query whose place among
others matters is an action; a `…Reject` action is any of them failing.

| code | module | actions |
|---|---|---|
| `applications/` | `ClientApplications` | `Create`, `Insert`; `Find…` (the row), `Check…` (profile, ownership, status), `Apply…` for update, status, submit, remove |
| `partner-applications/`, `partner-students/` | `PartnerApplications` | `Submit`, `FindOffer`, `Dedupe`, `InsertApplication`; `Update`, `AdminUpdate`, `UpdateStatus`, `RemoveApplication` with their writes; `AddStudent`, `FindStudent`, `DeleteStudent` |
| `application-process/` | `ProcessTemplates` | `CreateTemplate`, `UpdateTemplate`, `ClearDefault`, `InsertTemplate`, `WriteTemplate`, `FindToDelete`, `DeleteTemplate`; `StartClone`, `CheckProgram`, `InsertClone`, `CopyStep`, `CopyTypes`; steps, document types, `DeleteProgram` |
| `application-documents/` (rows and checklist) | `ProcessTemplates` | `CreateDocument`, `UpdateDocumentStatus`, `RemoveDocument`; the operators `TemplateFor` and `Listed` |
| `files/`, `digital-ocean/`, the logo of `site-settings/`, the files of documents | `FileStore` | `Upload`, `StoreObject`, `InsertFile`, `Sign`, `FailUpload`, `Cleanup`; `DeleteFile`, `DeleteFileByUrl`, `DeleteObject`, `DeleteRow`; `FindDocument`, `DeleteDocument`, `FindFile`; `UploadLogo`, `ClearLogo`, `ReadSettings`, `RemoveOld`, `WriteSettings` |
| `reviews/` | `Reviews` | `CreateReview`, `UpdateReview`, `CheckCap`, `Hide`, `Show`, `CountShown`, `FindReplaced`, `WriteReview`, `Swap`, `RemoveReview`, `DeleteReview` |
| `currencies/` | `ExchangeRates` | `RefreshIfStale` (boot and cron), `GetRates`, `ForceRefresh`, `FetchAnswers`, `DeleteMany`, `CommitRates`, `RefreshFails` |
| `intakes/`, the intakes of a university's programs | `Intakes` | `CreateIntake`, `FindIntake`, `UpdateIntake`, `RemoveIntake`, `LinkOffer`, `LinkCycle`, `UnlinkOffer`; the job: `StartExpiry`, `FinishExpiry` |
| `universities/`, `programs/`, `countries/`, `cities/` and the tables that hang on them | `Catalogue` | create, update and remove of each, `CheckMain`, `WriteRow`, `SyncRecommended`, `ClearCache`; `QueryDb`, `SetCache`, `Expire`, `Restart`; the services that write what cached answers embed and clear nothing: `ScholarshipsService`, `IntakesService`, `CampusesService`, ... (`Quietly`, `TurnsOver`); `ExpireIntakes` |
| `scholarships/` | `Scholarships` | `InsertScholarship`, `WriteScholarship`, `DeleteScholarship`, `CountScholarships`, `WriteFlags`; `SetFlags` (the university's own update) |
| `users/`, `profiles/` | `Accounts` | the four creations, `FindExisting`, `InsertUsers`, `ReadBack`, `InsertProfile`; `UpdateUser`, `WriteUser`, `FindProfile`, `RemoveUser`, `CreateProfile`, `RemoveProfile` |
| `statistics/` | `Statistics` | `Ask`, `TakePart`, `QueryPart`, `KeepPart`, `KeepWhole`; `CatalogueClears` |
| the months of `getGrowthStats` | `GrowthSeries` | `GetGrowthStats`, `PushMonth`, `AnswerGrowth` |

A module's `…Next`, and the operators named `…Controller` that some are divided into, say what may
be called: they stand for the controllers, whose roles and DTOs bound the arguments.

`ApplicationLifecycle` is the abstract specification of a client's application: rows with an owner,
a status and a wish, and decisions about them, each of which somebody was allowed to take when he took it
(`May`: submit and remove one's own DRAFT, edit one's own DRAFT or REJECTED application, review as an
administrator) and which is carried out later, once, or dropped. Nothing changes a row but carrying out a decision.
`ClientApplications` implements it (`Lifecycle`): a decision is a request from its query of the row,
if its tests will pass on what it has read, to its write (`DecidedNow`).

Some variables are observations, read by no guard: `disturbed`, `late`, `edited`, `troubled`,
`retired`, `outpaced`, `overtaken`, `moved`, `outdated`, `raced`, `tainted`, `outgrown`, `bare`. Each
names the requests or rows for which the code is known not to keep a promise, and why (a
comment where it is declared); a property then says that the promise is kept for all
others. They are as narrow as TLC allows: an exception that was wider than the races that
cause it would leave the property's mutant undetected or the property itself silent.

Details that look odd in the model and are in the code:

- An administrator's `update` or `remove` of a client's application passes the same test of
  ownership as a client's (`applications.service.ts:158-180`): without a profile that owns it he is refused.
- `CreateReview` counts nothing: a new review may ask for the homepage.
- `KeyOf`: the path of a file's URL is taken for its key as it is, so a key with characters that
  a URL escapes is not found again (`files.service.ts:213-228`, `site-settings.service.ts:100-114`;
  `getStorageKey` of `digital-ocean.service.ts`, which decodes it, is not what they call).
- `AttachDocument`: a document's key is what the client says (`application-documents.service.ts:163-195`);
  nobody tests that there is such an object.
- `Catalogue` keeps two bits of a row's contents: what its own service writes, which is followed by a clear, and
  `aside`, what others write of it or beside it (a university's scholarship flags, an offer's scholarships and
  intakes, references that a deletion sets to null), which is not.
- The rows of a failed batch of files stay, while its objects are removed.
- `RefreshIfStale` and the others share no lock; `deleteMany` deletes what was
  committed when it began, so two refreshes at once may leave two rows until the next.
- The job of intakes deletes every link of a closed intake, and links again only the programs
  it had read.
- `universities.update` puts the agency services into its data after the row was written
  (`universities.service.ts:425-429`): they are not stored, and the model has no such write.
- `ReadBack`: the users of a batch are looked up by email, and may be others by then.

### The MC modules

Instances for TLC: the users and sockets, the endpoints a run calls (`Ops`), the
symmetry sets and the view. `MCGrowth` has the dates. `MCServices` puts the service modules into one state
machine of fifteen parts. They share no rows, so a product would multiply their
states and show nothing more; instead `part`, chosen at first, says which goes on, and
the others stand still. A module whose two requests and every kind of row together are too many
is two or three parts: `templates` (two requests, templates of one step), `clones` (two steps,
one request, with edits by hand between its queries) and `documents`; `accounts` (two requests about one email) and
`batches` (one request at a time, of two users).

### Mutants

An operator with an underscore in its name (`Claims_Takeover`) is a plausible mistake in the
operator it is named after. The specifications use none; each
shows that a property can fail, as `PROJECT.json` pairs them.

## Runs

| run | instance | checks |
|---|---|---|
| ChatConcurrent | 1 client, 2 administrators, 2 requests at once, 1 chat, 2 messages, any query may fail | `TypeOK`, `Integrity`, `ClosedForGood`, `OwnershipStable` |
| ChatReplies | 1 client, 1 administrator, 1 application, 2 chats, 2 messages, 2 requests at once that send, reply, edit, delete, clear | `RefIntegrity`, `ContextKept`, `DuplicatesNeedOverlap` |
| ChatSerial | the same users, one request at a time, all writing endpoints, attachments and greetings | `RoomMirrorsDb`, `AssignedOnce` |
| ChatReading | 1 client, 1 partner, 1 administrator, 1 chat, 2 messages, 2 requests at once that write, assign, read and delete the chat | `ReadStatusPerSide`, `AlertDelivered` (liveness) |
| ChatTwins | 2 `createChat` at once | violates `OneChatPerApplication` |
| ChatReopened | one request at a time | violates `NeverReopened` |
| GatewayRooms | an administrator's two sockets and an outsider's one, 2 handlers, 2 messages, pages of 1 | `TypeOK`, `OnlyMembersHear`, `ConnectionTables`, `SoleSocketListed`, `NoMessageMissed` |
| GatewayRecent | one client's socket, 2 messages, pages of 1 | violates `JoinShowsRecent` |
| PartnerAgency | an owner, a user he may invite, 2 requests at once, one second, 1 access token, any query may fail | `TypeOK`, `AgencyClaim`, `VisibleWithinAgency`, `DisabledStaysOut` |
| PartnerSessions | a client, 3 requests at once, 3 seconds, 2 access tokens, any query may fail | `TokensBounded`, `SessionNeedsLogin`, `RevokedForGood` |
| Services | each service in turn, 2 requests at once, one to three rows of each table, any call may fail | `TypeOK`, `Lifecycle` (refinement), `OneActivePerIntake`, `OneDefaultTemplate`, `ChecklistsWhole`, `StoresAgree`, `HomepageCap`, `MainCap`, `LatestRates`, `NoProgramDropped`, `CacheFresh`, `FlagsAgree`, `ProfilesFollow`, `FiguresAge` |
| Growth | the growth statistics asked for on the last days of a month | violates `AllMonths` |

What they show:

- *Integrity.* Whatever is deleted under a sender's feet, no message is without
  its chat and no reply names a missing or foreign message.
- *Admission.* The checks of `createMessage`, `assignAdminToChat` and
  `updateChatStatus` are complete but not atomic: `ClosedForGood` and
  `OwnershipStable` say that once every request past its check has finished, nothing
  reopens a closed chat that has an administrator, and nothing replaces an
  administrator. The unconditional statements hold only one request at a time
  (`ChatSerial`: `AssignedOnce`); with two they do not: two administrators who both pass
  "Chat already assigned" are assigned one after the other, both told they succeeded.
- *Edits.* Likewise a reply inserted between `editMessage`'s check and its update
  stays under a changed text. `ContextKept` says that nothing else does: a message with a reply keeps its text
  unless a request that edits it is in flight which was admitted before the reply was there. It holds with
  overlapping edits, replies and deletions in two chats.
- *Room.* With one request at a time every write reaches the room. With two,
  broadcasts of different requests may arrive in an order other than that of their
  writes; nothing documents an order.
- *Reading.* There are two flags and three roles: clients are one side, partners and
  administrators the other (`Side`). Per side the unread count is right, through pages and reads that
  overlap with writes and the chat's deletion (`ReadStatusPerSide`). Within the second side it is not: an
  administrator's reading clears a message from the partner's unread count, and a
  partner's sets the flag documented to mean the administrator's.
- *Claims.* Login resolves the organization in up to five queries; none of what may
  happen between them (invitations, removals, creation by another login) puts
  a foreign organization into an access token, unless the user is `Dual`.
- *Disabling.* Once `isActive` is false no request admits a user of the
  organization but those already past the test. Access tokens issued before
  live on until they expire; nothing in the code reads `isActive` for them.
- *Tokens.* "Clean up old refresh tokens" does not leave one token per user, but as many as
  the requests that overlap (`TokensBounded`; one request at a time would give one).
  What was revoked stays so, and refreshing alone starts no session for a user who has none
  (`SessionNeedsLogin`), with one exception: a token signed again in the second of its
  own `iat` is the same string, so `RevokedForGood` begins when that second is over.
- *Duplicates.* Chats per application and creator multiply only through
  overlapping creations.
- *Applications of clients.* Every submission, deletion and edit of a client was decided when the row's
  status allowed it and the row was his, every review by an administrator, and each is carried out once. Its effect may come late: an application that was submitted, or even
  approved, after the decision is deleted or set back. `Lifecycle` has exactly that freedom.
- *Applications of partners.* A submission makes a duplicate only if another
  request wrote in between; whatever made the earlier application active (a new one, an edit of
  its intake, a reviewer's change of mind), the search finds it.
- *Templates.* Making a template the default leaves it the only one, unless another was made so after the others were
  cleared. A clone that ends is whole. What a checklist has shown it goes on showing: that is the work of
  `ON DELETE SET NULL`, which turns the uploads of a deleted type into untyped ones.
- *Files.* Bucket and table agree on every key that no failed request had in hand and that
  is not a replaced logo. The site's logo is an object, so long as it is a row.
- *Limits.* Reviews on the homepage, main countries and main universities exceed their limits
  only by requests whose count another write has outrun (and by new reviews).
- *Rates.* Once there are rates readers are never without; a refresh leaves one row with rates no older,
  unless another was stored after the provider had answered it.
- *Intakes.* The programs that the job read go on to an open intake of the same month, or to one that already
  existed and has closed. (One linked while it runs is dropped: see the hazard.) No link to an open intake is lost.
- *Cache.* When nothing waits to clear it, the cache agrees with countries, cities, programs, universities and offers in
  what the services that clear it write. In everything else it embeds - scholarship flags, scholarships and intakes of
  offers, campuses, requirements and the like - it agrees until a service that clears nothing writes it
  (`outgrown`). Two exceptions (`tainted`): a key that a reader set after the clear, having queried before it,
  and, when the recommendations of a country fail after the country itself was written, which ends the request before its
  clear, every key. Both stay stale until they are set again, cleared or expire after ten minutes.
- *Flags.* A university's flags agree with its scholarships unless they were last written from
  counts that another write had overtaken, by hand, or not at all for a failure.
- *Profiles.* A user lacks the profile due to him only if the request that made him failed. A
  batch that is repeated after a lost connection finds its own users and stops (`bare`).
- *Figures.* A figure served was true no longer ago than the time answers are kept; on a
  dashboard, which is kept itself, twice that.
- *Months.* `setMonth` on a date after the 28th runs over a shorter month, so the
  growth statistics leave it out, with its counts.

Four disagreements between the code and its comments or documents are runs of their own and
`findings`: duplicate chats (`chat.service.ts:131`), reopening
(`docs/CHAT_UPDATES.md:19`), joinChat's "recent messages", which are the
oldest (`chat.gateway.ts:225`), and the growth statistics' "all months in the range"
(`statistics.service.ts:341`). Two more are plain from the code and have no
run: `message-response.dto.ts:62` says of `readByAdmin` that it tells whether the message has been read by the
admin, while every role but CLIENT sets it; the comment at `chat.service.ts:1149` says replies are deleted by
cascade, while the migration says `SET NULL`, which is what `RemoveMsgs` does.

### Bounds

`Reqs` (or `Tasks`) is the number of requests that can overlap, `MaxChats` and
`MaxMsgs` the rows ever created. Every race here is between two requests on one
chat, so two and one suffice (a reply to another chat's message needs two chats: `ChatReplies`); two messages give a reply and what it replies to, and a
page and what is beyond it (`PageSize` is 1 in the instances, 20 in the code: only
whether a chat exceeds a page matters). Duplicates need
two chats as well. `ChatReading` has one user of each role, and two messages so that a page
leaves one unread. `GatewayRooms`: two
sockets of one user are what tells a table of users from one of sockets; one
outsider is enough to overhear. `PartnerAgency`: one owner and one invited user have every relation to an
organization there is (own, member, both, deleted); tokens have one second, as
times are the matter of `PartnerSessions`. There a client is enough, since rotation does
not depend on roles; a third request matters for `TokensBounded`, which counts them.
`MaxAccess` bounds the access tokens held; one that is held
longer adds nothing, for what is claimed in it does not change.

`Services`: the races are between a check and a write of one request and a write of another, so `Reqs` has two;
where one row is enough for a race there is one, and a second where a property compares two (templates,
intakes, universities, users, files of a batch). `MaxHomepage` and `MaxMain` are 1 for the code's 3: a limit
is reached and outrun by two requests in the same way, and `Reviews` has three reviews so that it can be exceeded further.
`RateRows` has three rows: two refreshes at once leave two, and the next one mends it. `MaxRetries` is 2 for the
code's 3 (a first attempt and a repetition). `MaxWrites` bounds the requests that write to the catalogue: one that makes an answer
stale and one that clears. `CachedKeys` has the reads of one university and of the main ones: the former is made of the most tables,
the latter of cached kinds alone, so a service that writes only what the former embeds is told from one that writes both. `STATS_CACHE_TTL` is 1 in units that a request stays below, and `MaxTime` is long enough
for a dashboard to keep a part that was about to expire. Intakes begin in one month, in the year asked for or those the job goes on to, up to `MaxYear`; the job
runs before and after, and a deadline taken back closes an intake again. `Growth` asks on the 27th to the 31st of the months around two Februaries.

Symmetry: administrators, accounts, requests and handlers are interchangeable in the safety
runs, in `Services` the two requests; `ChatReading` checks liveness and uses none. `ChatConcurrent` and `ChatReplies` use the
view `TablesAndRequests`, which drops `roomStatus`, `roomView` and `alerted`: no guard
reads them, and none of their properties but the type invariant mentions them.
`CHECK_DEADLOCK FALSE` everywhere: with all ids used up and no request in flight
there may be nothing left to call.

### Fairness

`Fairness` is weak fairness of `Proceed(r)`: a request that has started takes its
next step. The justification is the event loop: a promise that is pending
settles, and its continuation runs. There is none for `Call` (nobody must call) or `Abort`, and
`AlertDelivered` is checked with `Faults = FALSE`: with a failing query the alert may be
lost, which the code accepts (it logs). The other modules promise nothing that must happen: their
services answer or fail, and their jobs are repeated by the clock; they have safety properties only.

## Proofs

Eight modules hold theorems. Each is about the specifications of the modules it extends (`Spec`,
`CASpec`, `PASpec`, ...), and so about any sets of users,
rows and requests and any bounds, where a run has two or three of each; `MCServices_proofs` is about the
services put together, `MCSpec`, again for any values of the constants. What is assumed of the
constants is a named `ASSUME` in the module that declares them, which TLC evaluates on every run:
`ChatAssumption` and `AccessAssumption` (the roles are disjoint, `Null` is no user, the bounds are numbers),
`GatewayAssumption` (every socket has an owner, no client is an administrator), `BackendAssumption`
(finitely many requests), `ApplicantsAssumption` (who has a profile or is an administrator is a user),
`StudentsAssumption` (students and applications have different ids), `DayAssumption`,
`TemplatesAssumption`, `HomepageAssumption` (finitely many reviews), `FilesAssumption` (`Null` is no key of an object),
`DatesAssumption` (the days asked on are days of their month), `IntakesAssumption` (months and years are numbers, `Null`
is no intake and no deadline), and `CatalogueAssumption`, which says of the rows
what the schema says of their kinds: universities, programs, countries, cities and offers, which are cached, refer to
one another only, nothing refers to what is deleted along with another row, an offer joins one university to programs,
and what the table starts with refers to what it starts with.

| module | theorem | states |
|---|---|---|
| `ChatService_proofs` | `IntegrityHolds`, `TypeCorrect`, `ReferencesHold` | `[]Integrity`, `[]TypeOK`, `[]RefIntegrity` |
| | `ClosedStaysClosed` | `ClosedForGood` |
| | `OwnershipKept` | `OwnershipStable` |
| | `DuplicatesOnlyByOverlap` | `DuplicatesNeedOverlap` |
| | `RepliedToKept` | `ContextKept` |
| | `UnreadBySide` | `[]ReadStatusPerSide` |
| | `SerialOwnership` | `AssignedOnce`, for a single request at a time |
| | `SerialRoom` | `[]RoomMirrorsDb`, for a single request at a time, and no failing query |
| `ChatGateway_proofs` | `ConfinedHolds`, `GatewayTypes` | `[]Confined`, `[]TypeOK` |
| | `OnlyMembersHearHolds` | `[]OnlyMembersHear` |
| | `TablesHold`, `ListedHolds` | `[]ConnectionTables`, `[]SoleSocketListed` |
| | `NothingMissed` | `[]NoMessageMissed` |
| `PartnerAccess_proofs` | `InvHolds`, `AccessTypes` | `[]Inv`, `[]TypeOK` |
| | `AgencyClaimHolds`, `VisibleWithinAgencyHolds` | `[]AgencyClaim`, `[]VisibleWithinAgency` |
| | `SessionNeedsLoginHolds`, `RevokedForGoodHolds` | `SessionNeedsLogin`, `RevokedForGood` |
| | `TokensBoundedHolds` | `[]TokensBounded` |
| | `DisabledStaysOutHolds` | `DisabledStaysOut` |
| `Applications_proofs` | `ClientTypes` | `CASpec => []CAInv` |
| | `ClientRowsTyped` | `CASpec => []CATypeOK` |
| | `LifecycleHolds` | `CASpec => Lifecycle`: it implements `ApplicationLifecycle` |
| | `PartnerInvHolds`, `PartnerTypes` | `PASpec => []PAInv`, `[]PATypeOK` |
| | `OneActiveHolds` | `PASpec => OneActivePerIntake` |
| | `AccountsInvHolds`, `AccountsTypes`, `ProfilesFollowHolds` | `ACSpec => []AccountsInv`, `[]ACTypeOK`, `[]ProfilesFollow` |
| | `IntakesInvHolds`, `IntakesTypes` | `ITSpec => []IntakesInv`, `[]ITTypeOK` |
| | `NobodyDropped` | `ITSpec => NoProgramDropped`, if no deadline or year is asked for that lies `MAX_SHIFT` years before any month looked at |
| `ProcessTemplates_proofs` | `DefaultInvHolds`, `OneDefaultHolds` | `PTSpec => []DefaultInv`, `OneDefaultTemplate` |
| | `WholeInvHolds`, `TemplatesTyped` | `PTSpec => []WholeInv`, `[]PTTypeOK` |
| | `ChecklistsHold` | `PTSpec => ChecklistsWhole` |
| | `FilesInvHolds`, `FilesTypes`, `StoresAgreeHolds` | `FSSpec => []FilesInv`, `[]FSTypeOK`, `[]StoresAgree` |
| `Catalogue_proofs` | `CacheInvHolds`, `CacheFreshHolds` | `CTSpec => []CacheInv`, `[]CacheFresh` |
| | `MainInvHolds`, `MainCapHolds` | `CTSpec => []MainInv`, `MainCap` |
| | `SoundInvHolds`, `CatalogueTypes` | `CTSpec => []SoundInv`, `[]CTTypeOK` |
| `Services_proofs` | `RatesInvHolds`, `RatesTypes`, `LatestRatesHolds` | `ERSpec => []ERInv`, `[]ERTypeOK`, `LatestRates` |
| | `ReviewsInvHolds`, `ReviewsTypes`, `HomepageCapHolds` | `RvSpec => []RvInv`, `[]RvTypeOK`, `HomepageCap` |
| | `ScholarInvHolds`, `FlagsAgreeHolds`, `ScholarshipsTypes` | `SCSpec => []ScholarInv`, `[]FlagsAgree`, `[]SCTypeOK` |
| | `StatInvHolds`, `FiguresAgeHolds`, `StatisticsTypes` | `STSpec => []StatInv`, `[]FiguresAge`, `[]STTypeOK` |
| | `GrowthInvHolds`, `GrowthTypes` | `GSSpec => []GrowthInv`, `[]GSTypeOK` |
| `MCServices_proofs` | `ServicesTogether` | `MCSpec => CASpec /\ PASpec /\ PTSpec /\ ...`, all twelve |
| | `ServicesTypes` | `MCSpec => []TypeOK` |

Nearly every one is about a write that relies on a query of an earlier step, and none is
inductive by itself: at the write, the table no longer is what was queried. The invariants
add what remains of the query for a request that nothing has come between. The proof that a
step keeps them has a lemma per action or group of actions, over a lemma that says what a step of one request
owes to the others (`StepPreserves`, `RequestStep`, `QuietFileStep`, ...).

### The chat

`RefIntegrity` is not inductive, since `InsertMessage` stores what the request
remembers. `CanConnect` says that the chat and the message replied to exist at
that moment, not that they belong together; that was established by
`CheckReply`, a step earlier, and must have stayed true. `Integrity` adds exactly this:
`ReplyKnown` (at "insertMessage" the message replied to is an earlier id and, if it is still there,
in the request's chat: rows never change their chat and ids are never reused),
ids below `nextMsg`, and `Admitted` (who a request's user may be at each step),
without which an update could store an ill-typed row.

The proof splits `Integrity` into what concerns the tables and what concerns a single
request (`IntegrityParts`), so that a step needs to show the tables sound, its own new
record sound, and that the records of others stay so, for which it is enough that
ids grow and rows keep their chat (`StepPreserves`); steps that write no table
need only their own record (`LocalStep`).

The action properties follow from two facts about a step. `StepEntry`: a request comes to a step
that writes to a chat only through a check of the chat as it is then, or from a step of the same kind.
`ChatWriters` and its like: which steps write what. So a chat that is quiet stays quiet, for nobody
can come to a write to it (`ClosedStep`, `OwnedStep`, `CreationStep`, and `SettledStep` for a message that has a reply).
`UnreadBySide` needs that the two flags of a message are those of the sides that have read it
(`FlagsTell`). For a single request
`ChecksHold` says that the chat which it found free is free when it claims it, for there is nobody to change that, and `Mirrors` what the room
lacks at each step between a write and its broadcast.

`OnlyMembersHear` is about rooms and screens, while a `joinChat` handler answers with
a page it fetched earlier, for a user it checked earlier still. `Confined` adds what
such a handler has established (`Cleared`: past its check its user is a member; the page
it holds is of its chat) and that what is on a screen is a message that was stored.
`Wired` adds who may be in the maps and the rooms at all, and `Informed` is
`NoMessageMissed` from the moment the page is read: what the socket has not been shown is
still to be broadcast or on the page it will be shown.

### Accounts

`AgencyClaim` is about tokens already issued, which a request signs from what it
read several queries before. `Inv` therefore adds `Established`: what a request has
found at each step (the organization it will claim is `Claimable`) is still true when it
signs. `Claimable` survives every step because organizations are not
deleted, a membership is not moved, and a membership or an organization that a user gains
besides makes him `Dual`, whom the property excepts. `Grows` names the steps that
need only this argument. `SessionNeedsLogin` and `RevokedForGood` follow from `StepEffect`, which
says of a step only how it may move a request (`Moves`) and where a new token
comes from; they do not look into the tables. `TokensBounded` is inductive per user once it is
known that his tokens are finitely many (`Counted`): a request that comes to insert one has deleted
all there were. `DisabledStaysOut` rests on `BarredRequest`, which a request of a disabled
organization's user keeps by any step: the organization that the user has is never another
(`OrgStays`), whichever of the queries finds it.

### The services

- `CAInv`: what each request has read and tested (`Established`). The refinement
  maps a request, from the query on which its tests will pass to its write, to a decision of
  `ApplicationLifecycle`; `StepDecisions` shows that a step of one request changes only its own
  decision (`DecisionOf`), so that queries map to decisions that `May` allows, writes to what was
  decided (`ApplyStep`), and everything else to a stutter (`ApplicationQuiet`).
- `PAInv`: a request past its search whom nobody has disturbed still finds no
  duplicate (`NoneFound`); a write of an application disturbs all other requests, a change
  of students only removes rows.
- `DefaultInv`: a request that is about to set a default has left no other
  (`Cleared`), since deletions and clones only remove defaults and everyone who sets one
  makes the others late.
- `WholeInv`: a template under a clone that nobody else has edited holds what of its source is not left to
  copy (`Copied`); no two requests clone into the same template (`Apart`); a typed upload names a type of a
  template that is there (`Typed`), and a program has one template, so that a
  checklist's template is lost only with it (`OneEach`).
- `CacheInv`: unless a write has yet to clear the cache, what is kept and what a reader is to keep that no clear ran past
  is what the tables answer about what the services that clear write, and about everything while it is not `outgrown`. `MainInv`: a request past its count still has room.
  `SoundInv`: what a row refers to is there (`Sound`), although a write uses what an earlier query found: the foreign
  keys refuse the write or the deletion, and what goes along with a deleted row is referred to by none.
- `ERInv`: nothing is newer than what the provider has published (`Published`), so an
  answer is at least as new as the rates, and stays so until another is stored
  (`Answered`); then `deleteMany` has seen every row there is.
- `RvInv`: a request past its count still has room, or its review is shown, or the one
  it replaces is (`ReviewRoom`); with `OneMore` and `Exchange`, which bound the cardinality of the
  home page after a pin and a swap.
- `ScholarInv`: what a request has counted is what the table holds, unless a write overtook it (`Tallied`), and
  ids under insertion are nobody else's (`OwnId`).
- `StatInv`: how old is what the cache and each request hold (`EntryFresh`, `RequestFresh`): a part taken from the cache may
  be a `STATS_CACHE_TTL` old before it is kept for another.
- `GrowthInv`: the day of the loop's date never grows, so that it cannot step over the present month, and is the day asked on
  while that is one that every month has (`Dated`); then the months pushed are one after another (`MonthsListed`).
- `AccountsInv`: who lacks a profile without a reason is in the hands of a request that is to make it
  (`ProfilesDue`); emails are unique, so a batch finds its own users.
- `FilesInv`: a key in only one of bucket and table is in the hands of a request between its two
  writes (`Explained`), which needs that nobody else deletes, cleans up or takes for a logo what a request has
  uploaded (`KeysApart`); a replaced logo is still in the settings only until who replaced it writes (`LogoKept`).
- `IntakesInv`: a cycle has one intake, no link is to one that is gone (`IntakesWhole`), and what the job has read is
  still typed (`ListRead`), whatever has been edited since. The job's loop is a recursive function of the number of
  intakes it has been through (`RolloverUnfolds`), and what holds before every turn is shown by an induction over that number
  (`NumbersAll`, for a set of numbers, which needs no operator as a parameter). `RolloverStep` is one turn: an intake it
  creates or finds open is not among those it has read, so a later turn neither deletes it nor
  its links, and a program that was carried on stays so (`CarriedOn`, `Extends`). The search for the
  next cycle gives up after `MAX_SHIFT` years, with whatever it has; `Reaching` says that no intake is that
  old, and is kept by every step: who updates an intake writes one of the deadlines and years asked for, or those it had.
- `ServicesTogether`: a step of one part is a stutter of the others (`StepOfPart`), so that a theorem
  about a service is one about it among the others. Nothing the instance leaves out is relied on.

### Only model-checked

`AlertDelivered`, which is liveness and out of the prover's reach. `AssignedOnce` and `RoomMirrorsDb` are
proved for a single request at a time, as the run `ChatSerial` checks them: with two they do not hold.
The four disagreements are violations, and nothing is to be proved of them. `CatalogueAssumption` and its like are evaluated
by TLC for the instances and follow from the schema for others.

## Not modelled

In the chat: the text of messages (only whether an edit replaced it) and its validation, the 15-minute limit of edits (it only
refuses), file contents, user profiles in the payloads, typing indicators, times other than the
creation order, and the read-only views of chats, of which only the unread
count is modelled. Users are not deleted and do not change role. `Abort` stands for a crash
too, one request at a time; a restart, which would also clear the gateway's
maps, adds nothing to the tables.

Of accounts: credentials and signatures (a login is that of a user who exists), registration and
profiles, `revokeAllRefreshTokens` (called by nothing), the audit trail (its failures are
swallowed), the descriptive columns of organizations, and foreign keys from other tables that
may refuse a user's deletion, which is covered by `Reject`.

Of the other parts:

- What only reads and keeps nothing: notifications (two counts), validity (a constant answer), the
  catalogue's facade, lists, filters, sorting, pages and languages, and the SQL of the statistics, of which only the tables it
  counts matter here.
- What one query writes and nothing depends on: the page about the agency, the title of the site, the mini-applications,
  a student's or a profile's descriptive columns, a partner's company page. There is no order in which that goes wrong.
- The audit trail: rows that are only ever added, after the action they record; its failures are swallowed.
- Rewriting a university's intakes and requirements along with its programs (in the same transaction as the
  rest of its update): the links are `LinkOffer` and `UnlinkOffer` of `Intakes`, taken one at a time.
- The passwords and texts that the DTOs check, and seed scripts, which are not part of the running service.
- Guards, pipes and filters of `common/` are modelled by what reaches a service: roles and DTOs bound the arguments of the actions.
- A second server process: caches and maps are per process, and the code runs one. `Restart` of `Catalogue` is the end of
  that process; elsewhere it is the failure of all requests.

## Plan

To model next: an abstract chat (a room with a status, an owner and a
set of messages) that `ChatService` implements, and the proof that it does.
