# Verification of VaryoCMS in TLA+

VaryoCMS is a multi-tenant headless CMS: ASP.NET Core controllers call
application services, services call Dapper repositories over SQL Server, and a
public REST API serves the content the admin panel edits.  This directory holds
TLA+ models of its stateful parts, TLC configurations that check them on small
instances, and proofs, checked by TLAPS, for instances of any size.

Paths below are relative to the repository; `App` is
`src/VaryoCms.Application`, `Infra` is `src/VaryoCms.Infrastructure`, `Web` is
`src/VaryoCms.Web`.

## 1. How the system runs, and what that means for a model

* **Every repository call is a connection of its own.**  `BaseRepository` opens
  one per method.  A service operation that calls three repository methods is
  three (implicit or explicit) transactions at READ COMMITTED, in a fixed order,
  and any other request can run between two of them.  `UnitOfWork` exists and
  no service uses it.  So *one statement, or one explicit transaction, is one
  step* in every module (in `Languages` a transaction that scans rows is more
  than one).
* **Any await can be the last.**  Operations pass the request's
  `CancellationToken` down to each statement; a client that disconnects, a
  failing statement or a stopping process ends the operation between two steps
  and nothing undoes the earlier ones.  Every module has `Abort` actions,
  most of them switched by a constant `MayAbort`.
* **Memory is shared by all requests and lost on restart.**  The response
  cache, the rate limiter and the UI translation store share one singleton
  `IMemoryCache`.  Eviction callbacks run later, on the thread pool.
* **The pages of the panel are concurrent, too.**  Their scripts send fetches and go
  on; an answer comes at any later time, in any order, or not at all, and its
  callback runs on whatever the page shows by then.  One dialog serves many fields or
  cards, timers debounce what is typed, and `localStorage` is shared by all tabs.
  What a handler does at one go is one step; so is every answer.
* **There are no background jobs, queues or replicas.**  Everything happens in
  some request, an expiry or an eviction callback.  Liveness is therefore mostly
  trivial (a request runs to its end); the exception is a stale cache entry,
  which has to go away although nobody acts.

A request is modelled by a record of the local variables it keeps across an
await (`req[r]`, `rd[r]`, `wr[w]`) with a program counter that names the *next*
step.  A read whose result is used in a later step is kept in that record: this
is where stale reads come from.

Much of this code is right as long as requests do not overlap, and nothing in it
keeps them from overlapping.  Three modules therefore have a history variable
`disturbed`, false until two requests are under way at once (in `MediaLibrary` and
`LoginCodes` also until one ends half way).  `MediaPicker` and the other page scripts
have histories of the same kind (`mixed`, `foMixed`, `rpBlame` and the like): what has
parted two things that belong together.  `~disturbed => P` says that `P` holds
*in series*, after any history of requests one after the other; no guard reads the
variable, so the same run explores everything else too.

## 2. Inventory

| Component (code) | State | Operations | What is hard | What makes it correct | Model |
|---|---|---|---|---|---|
| Media library (`App/Services/MediaService`, `Infra/.../MediaRepository`, `Infra/Storage/LocalFileStorageService`) | `media_assets` rows; files in the upload folder | upload, crop, rename, delete | row and file change in separate calls; crops of one image overlap; requests end between calls | a live item always shows a complete file of its own; operations look atomic; no file is left over | `MediaGallery`, `MediaLibrary` |
| Response cache (`Infra/Caching/MemoryResponseCache`) | cache entries; dictionary of tracked keys; pending eviction callbacks | TryGet, Set, RemoveByPrefix | entry and key change in two calls; callbacks are late and name a key only | a cached key is tracked, so that it can be removed | `ResponseCache` |
| Public content API (`App/Services/PublicApiService`, `PublicApiRepository`, `PublicApiWriteRepository`) | content tables; the cache | GET list/id/slug, POST, PUT, DELETE, invalidation | reads and writes of several statements interleave with invalidation; a response also shows items of other types | a cached response is old only for a known reason, and it expires | `PublicApiCache` |
| Login codes (`App/Services/LoginCodeService`, `LoginCodeRepository`) | `login_codes` | send, verify | limit read before it is raised; delete-then-insert; delete by e-mail | attempts bounded; a code signs in once; a fresh code stays valid | `LoginCodes` |
| Content languages (`App/Services/LanguageService`, `LanguageRepository`) | `languages` | create, update, (de)activate | check-then-act; transactions that clear other rows | one default, active; some language active | `Languages` |
| Content items (`App/Services/ContentItemService`, the writes of `PublicApiService`, their repositories) | `content_items`, titles, values, relations | create, update, delete, by the panel and by the API | a save is four statements or transactions; slug check-then-act; rows written back as they were read; transactions that replace rows | slugs unique; required values present; what a save does not ask for is kept | `ContentItems` |
| Content types and fields (`ContentTypeService`, `ContentFieldService`, `js/field-builder.js`) | `content_types` tree, `content_fields` order | create, update, delete, reorder | only direct cycles refused; every drop sends the whole order | parents form a forest; the order shown is the order stored | `FieldOrder` (order only) |
| Media picker (`Web/wwwroot/js/media-picker.js`) | hidden value and chips per field; one dialog; searches and an upload under way | open, choose, Done, chip crosses, search, upload | answers land in the dialog open by then; three lists of one gallery | what is shown is posted; fields kept apart; a gallery waits for Done | `MediaPicker` |
| Relation picker (`js/relation-picker.js`) | hidden ids and chips; results | search, select, remove | answers out of order; early returns | what is shown is posted; results fit the text | `RelationPicker` |
| Field options dialog (`js/field-options.js`, `_FieldOptionsModal.cshtml`) | `options_json`, inputs, two dropdowns | open, edit, Apply | one dialog for all types; dropdowns filled late | untouched options are kept; what is shown is what is applied | `FieldOptions` |
| Media page (`js/media-editor.js`) | cards, rename and crop dialogs | rename, crop, leave and load the page | state read after an await; a page loaded before its last POST is stored; three events set up one cropper | cards show stored names; a crop is of its own image | `MediaEditor`, `CropDialog` |
| Icon picker, slug field, navigation (`js/icon-picker.js`, `js/site.js`) | value and popover; slug; sidebar and `localStorage` | choose, filter, type, toggle | a timer that outlives its popover; other tabs | grid fits text; slugs are valid; what is remembered is shown | `IconPicker`, `SlugField`, `AdminShell` |
| API configuration (`ApiConfigurationService`) | `api_configurations`, `api_field_visibility` | save, read | two transactions per save | hidden fields stay hidden | planned |
| API credentials (`ApiCredentialService`, `JwtTokenService`) | `api_credentials`, grants | save, rotate, issue, delete | three transactions per save; old keys and tokens | a key opens what it was granted | planned |
| Rate limiter (`Web/Middleware/ApiRateLimitMiddleware`) | a counter per window, the cached limit | one check per request | non-atomic `GetOrCreate`, fixed window | requests per window bounded | planned |
| UI translations (`UiTranslationStore`, `SystemTranslationService`) | cached dictionaries, tracked cultures | load, edit, invalidate | a load overlapping an invalidation; no expiry | edits show up | planned |
| Tenants, impersonation (`SystemTenantService`, middlewares) | `tenants`, the request's tenant | provision, (de)activate, impersonate | middleware order, a tenant that disappears | a request acts for one tenant | planned |
| Users, permissions, dictionary | `users`, permission and dictionary tables | CRUD, permission sets | several statements per save | an administrator remains; sets are saved whole | planned |
| Field values (`App/Common`) | none | parse, format | edge cases of conversions | agreement with a reference definition | planned |
| Audit log, dashboard, API docs, views, rich-text editor, validators, mail, hashing, images | – | pure I/O, read-only pages, single-field checks | – | – | not modelled |

`PROJECT.json` lists the same components with their sources, and the hazards
of each at the line where they bite.

Interactions.  Controllers call one service per request.  `PublicApiService`
reads what `ContentItemService` writes, through the database only: the admin
panel never calls the response cache (`AdminWrite` in `PublicApiCache`).
`TenantStore` reads the default language that `LanguageService` maintains.
The page scripts call the services through their controllers: the media picker
`UploadAsync` and the library search, the media page `UpdateMetaAsync`, the field list
`ReorderAsync`; those modules have the server's side as steps of their own.
`AuditLogger.LogAsync` is called at the end of most operations, swallows its
failures, and nothing reads it back; models leave it out.

## 3. Modules

| Module | What it models | Proofs |
|---|---|---|
| `MediaGallery` | abstract: what users of the media library see, four atomic operations | – |
| `MediaLibrary` | rows, files and requests, one step per repository or storage call | `MediaLibraryProofs` |
| `ResponseCache` | `MemoryResponseCache` over `IMemoryCache`, one step per call; the state of `PublicApiCache` | – |
| `PublicApiCache` | GET and write requests composed with the cache, the admin panel, expiry, restarts | `PublicApiCacheProofs` |
| `LoginCodes` | sending and verifying the codes of one identity | `LoginCodesProofs` |
| `Languages` | languages of one tenant with the row locks of their transactions | `LanguagesProofs` |
| `ContentItems` | items of one content type saved by the panel and the API, one step per statement or transaction | `ContentItemsProofs` |
| `IdLists` | the lists of ids that pickers keep | `IdListsProofs`, with lists in order |
| `MediaPicker` | all media fields of a form, their dialog, searches and uploads | `PickerProofs` |
| `RelationPicker`, `FieldOptions`, `IconPicker` | one picker or dialog each | `AdminPagesProofs` |
| `FieldOrder`, `MediaEditor` | a page and what the server stores of it | `AdminPagesProofs` |
| `CropDialog`, `SlugField`, `AdminShell` | the crop dialog; the slug of a form; the navigation | `AdminPagesProofs` |
| `AdminPages` | the scripts but the media picker, side by side | `AdminPagesProofs` |
| `MC*` | definitions that give the constants values for TLC, and symmetry sets | – |

Definitions whose name has a suffix after an underscore (`InvalidateStart_Skipped`)
are *variants*: what a plausible slip in that place of the code would do.  They
are used by no specification; each property is known to fail when its variant
takes the place of the definition (`PROJECT.json`, `mutants`).

### MediaLibrary

`row` is `media_assets`, `disk` and `picture` are the files (`partial` while
`CopyToAsync` runs), `req` the requests.  `UploadAsync` is `UploadCreateFile`,
`FinishCopy`, `UploadInsertRow`; `CropAsync` is `CropRead`, `CropOpenSource`,
`CropCreateFile`, `FinishCopy`, `CropUpdateRow`, `CropDeleteOldFile`;
`DeleteAsync` and `UpdateMetaAsync` are a read and a conditional update.  File
names are fresh because `SaveAsync` takes a new GUID and opens with
`FileMode.CreateNew`.

* `LiveItemsHaveFiles`, `NoSharedFile`: whatever interleaves or breaks off, a
  live item shows a completely written file that no other row names.
* `ImplementsGallery`: under the mapping `Gallery`, every step is one atomic
  upload, crop, rename or deletion of `MediaGallery`, or invisible.  In
  particular a rename never revives a deleted item and never undoes a crop.
* `NoOrphanFilesInSeries`, `DeletedItemsKeepFiles`: in series, a crop leaves no file
  without a row, and a deleted item keeps its file, as the comment in `DeleteAsync`
  says.  Without the condition neither holds: a crop removes the path it read, even
  when its row statement matched no row (section 6).

### ResponseCache and PublicApiCache

A key is a content type and a kind of query.  The content of a type is a record
of versions: of its rows, of its values (with all they are rendered with: relations
between its own items, visible fields, paths of media), and whether anything of it is
visible.  That is what staleness can be told apart by; the JSON is not modelled.
A response has its own type's content and, in `displays`, the version of what it shows
of the items of other types its visible relation fields refer to (`Refers`): their
display field or slug, and whether they are deleted.  `GetListAsync`, `GetByIdAsync` and
`GetBySlugAsync` are `ReadMiss`, `ReadRows` (a list with its count), `ReadValues`,
`ReadDisplays`, `SetTrack`, `SetCommit` (a hit changes nothing).  `CreateAsync` and
`UpdateAsync` are `SaveItem`, `SaveValues`, `SaveTitle` and the invalidation;
`DeleteAsync` is `DeleteItem` and the invalidation.  `InvalidateCache` is
`InvalidateStart` (the keys of the writer's own type), then `InvalidateRemove` and
`InvalidateUntrack` per key, then `InvalidateEnd`.  `raced`, `cause` and `late` are
history variables: no guard reads them.  `Overlap` switches off requests that run at
once and nothing else: callbacks stay as late as the thread pool makes them.

* `StaleHasCause` is the main safety property.  A cached response that differs from its
  own type's content is about to be removed by a write under way, or its history names
  one of five causes (`race`, `untracked`, `aborted`, `foreign`, `admin`).  One that
  differs in what it shows of other types was built across a change there (`race`), or
  an item there has been written since (`related`), by whatever way: no write
  invalidates the types that refer to its own.  It says that the order *write, then
  invalidate*, the order *track, then commit* and the snapshot taken by
  `RemoveByPrefix` lose nothing else.
* `OwnContentCurrent`: what `RemoveByPrefix` does achieve for requests one after the
  other.  Once none is under way, a cached response shows its own type's content as it
  is, unless a callback had untracked the key of the newer entry (`late`).
* `UntrackedByLateCallback`: for requests one after the other such a callback is all
  that can untrack a key with an entry; no order of the two halves of `Set` and of
  `RemoveByPrefix` does.
* `NoStaleAfterWrite` is what the documentation promises.  The code does not have it,
  even in series, for two reasons (section 6).
* `EventuallyCurrent`: once writes cease, the cache agrees with the database
  from some moment on, because entries expire even when they are not tracked.

### LoginCodes

The codes of one identity, by id.  `SendCodeAsync` is `SendDelete`, `SendInsert`,
`SendMail`; `VerifyAsync` is `VerifyRead`, `VerifyCheck` and one of `VerifyReject`,
`VerifyCount`, `VerifyAccept`.  Ids stand for `created_at`: the row `GetActiveAsync`
returns is the unused one inserted last.  The digits are left out: an attempt
that passes the checks is right or wrong.  `logins` counts what `VerifyAsync`
answered with success.

* `AttemptsBounded`: at most `MaxAttempts` plus one less than the requests that
  overlap.  With one request the limit is exact.
* `LoginsBounded`: a code signs in at most once per overlapping request.
* In series: `AttemptsLimited` (the limit is exact), `AtMostOneUnused` (the comment in
  `UpsertAsync`), `RejectedForCauseInSeries` (a code is deleted only when it has
  expired or its attempts are used up) and `OnlyUsedCodesSignIn`.  None of them holds
  when requests overlap.

### Languages

`lang` holds the committed rows.  A transaction that makes a default first runs
`ClearDefaultsAsync`: SQL Server goes through the tenant's rows in the order of
their ids, waits for a row another transaction has locked, and locks the rows it
changes until the end.  `ClearDefaults` is one row of that scan; `req[r].locked`
are the rows changed so far; the second statement and the commit are one step
that applies everything (`Written`), and a rollback (`Abort`) just forgets the
locks.  Reads see committed rows; whether they wait for a locked row or see its
last committed version makes no difference here.

* `DefaultsBounded`: no more defaults than overlapping requests.
* In series: `DefaultIsActiveInSeries`, `SomeActive`.  Requests that overlap can leave a
  default that is inactive and, once the default box has
  been unticked, can deactivate the last two active languages.

### ContentItems

`item`, `title`, `value` and `related` are the four tables, cut down to one language,
one required text field and one Relation field.  A save is `Create`, `AdminUpdate` or
`ApiUpdate` (validation and what is read first), `CheckSlug` once per candidate slug,
`InsertItem` or `UpdateItem`, and then `SaveTitle`, `SaveValues` and the relations in
the order of `AfterAdmin` or `AfterApi`.  `ReplaceAsync` is two steps:
`DeleteRelations` waits for rows another transaction has deleted and locks those it
deletes (`locked`), `InsertRelations` adds the new rows and commits.  `UpdateItem` changes
nothing if the item has been deleted meanwhile, and the save goes on all the same, as
the services do not look at the result.  Two variables are histories: `peak`, how many
requests have ever been under way at once (*in series* is `peak <= 1`), and `gap`, why
an item has no required value.

* `SlugsShared`: live items that share a slug are no more than requests have overlapped.
* `IncompleteHasCause`: a live item without its required value is being saved, or a
  save of it ended early (`cut`), or an API request left it out because the API hides
  the field (`hidden`) or because PUT does not check (`blanked`).
* `ShownIncompleteInSeries`: in series, clients of the API see an item half made only
  while the panel saves it, which activates the title before it writes the values.
* `PublicationAskedInSeries`, `PublishedAtKeptInSeries`: what a request does not
  mention keeps its value, although the whole row is written back.
* `RelationsBounded`: the targets of one request, times the requests that have
  overlapped; rows are replaced, never piled up.

### MediaPicker

`value` and `chips` are the hidden input and the chips of each field; `working`,
`grid`, `file`, `status` and `active` belong to the one dialog, whose fading in and out
is `modal`.  `timer` is the debounced search, `sent` the searches under way with the
picker whose filter they have, `upload` the upload under way with its picker.  `openFor` is
`OpenFor`, `commitSingle` and the click on a card `ClickCard`, `hidden.bs.modal`
`FadedOut`, the answers `SearchAnswered`, `UploadAnswered` and their failures.  A file is
identified with the asset it becomes, and the text searched for only narrows an answer.

* `ChipsShowValue`: the chips of a field are the media of its value, all but those
  deleted since; three handlers write both lists, each in its own way.
* `PickersIsolatedInSeries`: a field gets only what its filter finds or its limits let
  through, as long as no answer was taken up by another picker's dialog (`mixed`).
  Without the condition it is refuted (section 6).
* `GalleryWaitsForDone`: while a dialog is open, a gallery's value changes only at a
  click on Done in its own dialog, to the working set there; a dismissal, a card, an
  upload, a late answer leave it.  With no dialog open it only loses assets (crosses).
  A step is a click on Done if the history `done` flips, which only `CommitGallery` does.
  `PickerTypeOK` includes that no list names an asset twice.

### The other page scripts

They share no state, so `AdminPages` lets each behaviour be one of a single script
(`script`): interleaving them would multiply the states and show nothing more.

* `RelationPicker`: `select` is `AlreadySelected`, `LimitReached` and `Added`, one per way
  through it; `rpSent` are searches under way, answered in any order.
  `RelChipsShowValue`: chips and posted ids are the same list.  `SettledListFitsText`:
  when nothing is due or under way, the results are those of the text, unless an older
  answer came last, a search failed or choosing an item cleared the text.
* `FieldOptions`: `populateFromJson` is `Populated` and, for relations, `TypesArrived`
  and `FieldsArrived`; `serializeGroup` is `Serialized`.  `Inputs` is the dialog's markup,
  in the order in which `querySelector` looks (`First`).  `UntouchedKept`: opening and
  applying leaves sound options as they are, once the dropdowns are filled.
  `DisplayOfTarget`: the display field is one of the target chosen.
* `FieldOrder`, `MediaEditor`, `CropDialog`, `AdminShell` make up `PagesShowStored`: once
  every request is answered, the page shows what is stored, unless one of the causes in
  their `...Blame` has parted them; coordinates posted to a crop were taken from its image.
  In `MediaEditor` a cause concerns single cards: an answer that found the dialog at
  another card, a name the server cleaned, a lost answer, a rename on another page, and a
  page loaded while a rename sent from the page before it (`meLeft`) is not yet stored.
  `LoadPage` is possible at any time.
* `IconPicker`: an open popover with no filter due shows the icons of its text
  (with `SettledListFitsText` this is `SettledListsFit`).
* `SlugField`: `FilledSlugPasses`, a slug that is filled in matches the regular
  expression of the validators, unless what is left of the name begins or ends with a
  dash.  Their limit of 200 characters is not modelled.

Two operators are written in first-order terms rather than with the sorting and folding
operators of the community modules, which TLAPS sees as black boxes: `Listed` is *the*
list of the live fields in which each comes `Before` the next, and each replacement of
`toSlug` keeps the characters `At` certain positions (`Dashed`: every letter, and of what
follows a letter the first character, as a dash).

## 4. Runs

| Run | Bounds | Shows |
|---|---|---|
| `media_library` | 2 items, 4 files, 2 requests, 1 image and 1 other content, 2 names, aborts | `TypeOK`, `LiveItemsHaveFiles`, `NoSharedFile`, `NoOrphanFilesInSeries`, `DeletedItemsKeepFiles`, `ImplementsGallery` |
| `cache_mixed` | 2 types, one referring to the other, 1 query, 1 reader, 1 writer, 2 writes, 2 callbacks of a key, everything switched on, fairness | `TypeOK`, `StaleHasCause`, `EventuallyCurrent` |
| `cache_serial` | 2 types, one referring to the other, 2 queries, 2 writes, 2 callbacks of a key, one request at a time | `OwnContentCurrent`, `UntrackedByLateCallback` |
| `cache_stale_related` | one request at a time, one type referring to the other | refutes `NoStaleAfterWrite` |
| `cache_stale_foreign` | one request at a time with foreign deletions, no relations | refutes `NoStaleAfterWrite` |
| `login_codes` | 3 requests, 2 codes, limit 2, aborts | `TypeOK`, `AttemptsBounded`, `LoginsBounded`; in series `AttemptsLimited`, `AtMostOneUnused`, `RejectedForCauseInSeries`, `OnlyUsedCodesSignIn` |
| `languages` | 2 requests, 4 languages, aborts | `TypeOK`, `DefaultsBounded`; in series `DefaultIsActiveInSeries`, `SomeActive` |
| `content_items` | 2 items, 2 requests, 3 saves, 2 slugs, 1 target, aborts | `TypeOK`, `SlugsShared`, `IncompleteHasCause`, `RelationsBounded`; in series `ShownIncompleteInSeries`, `PublicationAskedInSeries`, `PublishedAtKeptInSeries` |
| `media_picker` | an image field and a gallery, 3 assets and a deleted one, 1 search under way | `PickerTypeOK`, `ChipsShowValue`, `PickersIsolatedInSeries`, `GalleryWaitsForDone` |
| `media_picker_isolation` | the same | refutes `PickersIsolated` |
| `admin_pages` | 3 items, 2 searches, limits 2 and none; 6 field types, 2 fetches, 2 choices; 3 fields, 2 orders under way; 2 items on the media page, 1 rename left behind; 2 icons; names of 4 characters; 2 groups, 5 paths | `AdminTypeOK`, `RelChipsShowValue`, `SettledListsFit`, `DisplayOfTarget`, `PagesShowStored`, `FilledSlugPasses`, `UntouchedKept` |
| `field_options_rating` | the same | refutes `ShownIsStored` |

Why these bounds are enough to see what matters.  Every hazard in section 2 is
about two requests on one object, and every module is symmetric in its requests;
three are used where a bound depends on their number (`LoginCodes`).  Two items
are needed for a file to be confused with another's; four files let an item be
cropped twice while another exists.  Two content types are needed for a foreign
deletion and for a response that shows another type's items; of two writes one can
change what the other, or a response under way, has read.  Two callbacks of a key let one
run late, after the key is cached again: a read misses only while fewer than `MaxPending`
are queued.  The two runs that refute `NoStaleAfterWrite` have 1, so that no entry is
stale for a late callback there.  One reader and one writer of the cache overlap with
each other and with the panel; that two of a kind do is left to the proofs, which are for
any number, so `EventuallyCurrent` is checked for one of each only.  Four languages leave
room for more defaults than the two requests allow.  A limit of
two is the least where the last permitted attempt is not the first.  In
`content_items` two saves can be under way after a third has made the item they are
about, and the second slug is there to be tried; with one target `RelationsBounded` is
already tight (two overlapping saves leave two rows).

Two pickers are enough for an answer to reach a dialog it was not meant for; the asset
`m3` fits the gallery's limits and no filter, and the image field's limits exclude it.  Two
searches, orders or fetches under way are the fewest that can be answered in the wrong
order, and six field types have every shape of options: text, an input that is not the
first of its key, a default, choices, formats, dropdowns.  What an administrator types
(`Typed`) is one text per key, or nothing; the other texts come with the page.  Four
characters make a run of dashes between two letters.

Named bounds: `MaxSent`, `MaxSearches`, `MaxPending` of the dialog, `MaxDrops` (requests
of a page under way), `MaxLeft` (renames whose answers no page awaits), `MaxFields`,
`MaxChoices`, `MaxName` (sizes of what is created or typed), `MaxWrites` (writes started), `MaxSaves` (saves begun), `ApiTargets` (targets in a
body), `MaxPending` (callbacks of a key the thread pool lags behind; a
read misses only below it), and the finite id sets (`Media`, `Path`, `CodeId`, `Lang`,
`Item`, the slugs of a candidate), which stand for ids that never run out. Where those
ids can all be used up with nothing left to do, `CHECK_DEADLOCK FALSE` is set (media,
login codes and content items); elsewhere deadlock is checked.

Symmetry sets permute requests, and in `MediaLibrary` items, files and names,
none of which any definition orders or chooses from except `AnyName`, whose
value is never read before it is replaced.  No run with a liveness property uses
symmetry.

Fairness (`cache_mixed` only).  A request that has started is scheduled until it
answers: ASP.NET Core never drops one that is not cancelled.  Entries expire:
each is created with an `AbsoluteExpirationRelativeToNow`.  Queued callbacks are
run by the thread pool.  No fairness is assumed for the start of any request.

## 5. Proofs

All proofs are checked by TLAPS for every value of the constants that meets the
named `ASSUME` of the module.

What holds *in series* is proved for every number of requests, from an invariant of the
form `~disturbed => Series` (with `peak <= 1` in `ContentItems` and `~Overlap` in
`PublicApiCache`).  Its parts are alike: `Alone`, one request at most is under way, which
the history flag alone does not say; and that what this request has read and will act on
still stands (`ReadStands`, `CropsTheirItem`, `FillsTracked`), without which none of the
properties is inductive.  Each step is then one of the only request at work.

**MediaLibraryProofs** (`MediaAssumption`): `TypeCorrect`, `FilesPresent`
(`LiveItemsHaveFiles`), `FilesUnshared` (`NoSharedFile`), `Refinement`
(`ImplementsGallery`), and in series `DeletedKeepFiles` (`DeletedItemsKeepFiles`) and
`NoOrphans` (`NoOrphanFilesInSeries`).  `LiveItemsHaveFiles` is not inductive: a crop that
is about to delete its old file might delete the file of a live row.  `IInv` adds where a
request's two paths come from: `RowsBacked` (a row that exists names a file that was
finished), `NewFilesPrivate` (a request's new file is named by nobody else until it has
updated the row), `OldFilesTraced` (before the row is updated, the old path is the row's
or nobody's; after it, no live row has it) and `IdsKnown`. The refinement maps each step
with `Gallery` and uses `IInv` for the picture of a row's file staying as it is.
`NoOrphanFiles` speaks of moments when nothing runs; its invariant `FilesOwned` says at
every moment that a file belongs to a row or is being written, or is about to be removed,
by the request at work.

**PublicApiCacheProofs** (`PublicApiAssumption`): `TypeCorrect`, `StaleExplained`
(`StaleHasCause`), `TrackedInSeries` (`~Overlap => UntrackedByLateCallback`) and
`NoneStaleInSeries` (`WritesAlone => OwnContentCurrent`).  The strengthening is
`FillsCurrent`: a response being built that no change has raced shows what the database
has, as far as it has been read, of its own type and of the others.  With it, a committed
entry is current or carries `race`; a change leaves a stale entry of its own type only
with an invalidation due, and marks those of other types `related`; an invalidation that
ends has removed the entry or blamed it.  `UntrackedByLateCallback` needs what the
requests are about to do: a response is built for a key without an entry, and the key that
`Set` has recorded is tracked or `late` (`FillsTracked`), and the key that
`RemoveByPrefix` is about to untrack has no entry (`UntracksEmpty`).  `WritesAlone` switches
off overlaps, the panel, foreign deletions and aborts, each of which is a cause of its own;
then the causes left are `related`, which says nothing of a type's own content, and
`untracked`, and a key that an invalidation missed is `late` (`BlamedForLate`).  Run
`cache_serial` has these switches.

**LoginCodesProofs** (`LoginCodeAssumption`): `TypeCorrect`, `AttemptsWithinBound`,
`LoginsWithinBound`, and in series `OneCodeInSeries` (`AtMostOneUnused`),
`RejectionsForCause` (`RejectedForCauseInSeries`), `SignInOnce` (`OnlyUsedCodesSignIn`)
and `AttemptsExact` (`AttemptsLimited`).  A counter says nothing of the requests that have
passed the check and not raised it yet, so the invariant counts them in: `AttemptsCounted`
bounds attempts plus `Counting(i)`, `LoginsCounted` sign-ins plus `Accepting(i)`. A
request joins these sets only at `VerifyRead`, which needs an attempt left (then at most
`MaxAttempts - 1` plus all requests) and a code that has signed nobody in
(`LoginsRetire`).  In series `ReadStands` says that after DELETE no unused code is left
until INSERT, and that the record a verification goes by is the unused code as it is.

**LanguagesProofs** (`LanguageAssumption`): `TypeCorrect`, `DefaultsWithinBound`, and in
series `DefaultsActive` (`DefaultIsActiveInSeries`) and `SomeLanguageActive`
(`SomeActive`).  The invariant says that there is a function `madeBy` from the defaults to
requests that is one-to-one, and that gives none of a request's own to a row the request
has passed in its scan without clearing it.  When the request commits, everything it left
is down to others, so it can take the new default upon itself.  In series `ReadStands`
keeps what `SetActiveAsync` and `UpdateAsync` looked at before they write: a language they
deactivate is not the default, and another one is active; `FiniteRows` turns that into a
count of one or more.

**ContentItemsProofs** (`ContentAssumption`): `TypeCorrect`, `SlugsSharedWithinOverlap`
(`SlugsShared`), `IncompleteItemsHaveCause` (`IncompleteHasCause`),
`RelationsWithinOverlap` (`RelationsBounded`), and in series `ShownIncompleteByPanel`
(`ShownIncompleteInSeries`), `PublicationAsked` (`PublicationAskedInSeries`) and
`PublishedAtKept` (`PublishedAtKeptInSeries`), the last two action properties. Types alone
are not inductive: that a relation transaction takes away no more rows than there are
needs `LocksExclusive`. The slugs in the table say too little, as a slug found free is
written later: `ClaimsBounded` counts with the items that have a slug the requests about
to write it. A request joins these claims when it finds the slug free, and then no item
has it, so the claims are at most the requests under way, which `peak` counts
(`PeakCounts`); every other step moves a claim or drops it. `IncompleteHasCause` is
inductive with the types and `PutsHaveItems`: only a request that creates or edits in the
panel has values still to come, and a PUT never creates. `RelationsBounded` counts rows
and replacements together: `RelationsCounted` bounds the rows of an item plus those of the
replacements that found nothing to lock (`Adding`), and again what is left once the one
that holds locks has replaced its rows. In series `ReadStands` says that the status and
the date a save has read, and writes back, are still those of the row; `TitleLast` that an
item inserted by POST has no title before its values; `BodiesShaped` which requests may
leave out the status at all.

**IdListsProofs** has the lemmas on lists without repetitions that the pickers need: what
remains of the elements, and of their distinctness, when one is removed, inserted,
appended or put (`RemoveAtIds`, `InsertAtIds`, `AppendIds`, `WithoutIds`, `PutIds`).  Of
lists in order it has that a finite set has one (`OrderExists`, from a smallest subset
without one, as induction over sets is out of reach), only one (`OrderUnique`), and that
it has every member once (`OrderLists`).

**PickerProofs** (`MediaPickerAssumption`): `PickerTypeCorrect` (`PickerTypeOK`),
`ChipsAlwaysShowValue`, `IsolatedInSeries`, `GalleryAlwaysWaits`.  Chips and value agree
as sets only; that removing one id from each keeps them so needs that both are without
repetitions, and that a single picker has one id at most (`SingleKept`).  What enters a
list comes from the grid, the working set or an upload, so the invariant says of each that
it is not deleted (`Fresh`) and, unless `mixed`, allowed for the active picker
(`OwnDialog`); this is what the reset between two dialogs has to restore.  The assumptions
are about the page as loaded: lists without repetitions, one id at most in a single
picker, values that were allowed when they were stored, and that a file that is uploaded
becomes a new asset.

**AdminPagesProofs** (the `...Assumption` of each script): `RelationChips`
(`RelChipsShowValue`), `RelationsDistinct`, `RelationLimit`, `ListsSettle`
(`SettledListsFit`), `DisplayBelongsToTarget` (`DisplayOfTarget`), all about `Spec`, of
which each script is shown to take its own steps only.  `SettledListFitsText` speaks of a
moment when nothing is under way; its invariant (`LatePrefix`, `ListOfText`) says of each
search under way whether a younger one was answered: those before the last to be answered
are marked, and if no blame is set and none is younger, the list or the last search is of
the text.  `DisplaysOfTarget` adds to the display field chosen the whole dropdown and the
fetches under way.  `RelationsDistinct` and `RelationLimit` are about `RelIdsDistinct` and
`LimitKept`, which no run lists.

`PageTypes` (`AdminTypeOK`) and the properties of settled pages come from one invariant
per script:

* `StoredShown` (`PagesShowStored`).  Of field order, `FbInv`: while nothing is blamed,
  the page lists exactly the live fields, and the last order under way is the one shown
  unless a younger one was stored.  When that order is stored, each field's `sort_order`
  is its place, so the page is a list of the live fields in order, and there is only one
  (`ListedAsSent`).  Of the rename dialog, `MeInv`: of each card that is not blamed,
  what is stored and not yet on it is the one name that was sent, and no rename of a
  page left is under way for it.  Of the crop dialog, `CdInv`: the cropper is over the
  image that the form names.
* `UntouchedStays` (`UntouchedKept`, an action property).  `Untouched` says what the inputs
  of a dialog neither edited nor disturbed hold at each moment: all that was read, or all
  but a relation's dropdowns, and then the one fetch of this opening that will fill them
  is under way.  `AppliedUntouched` shows for each key of a type that the first input of
  that key writes what was read into it; it needs that sound options are in the form in
  which they are written (`Sound`).
* `SlugsPass` (`FilledSlugPasses`, of the regular expression only): the ends of a
  trimmed text are no white space (`TrimmedEnds`), and of two positions that `Dashed`
  keeps next to each other one has a letter, since the later, if it has none, is there
  for the letter before it (`DashedValid`).

What stays with TLC: `EventuallyCurrent`, which is liveness under fairness; and the three
properties that the code does not have (section 6), of which the proofs have the weaker
forms that do hold: `IsolatedInSeries`, `NoneStaleInSeries` and `UntouchedStays`.

## 6. Where code and documentation disagree

Each is a run in which TLC refutes the property; `PROJECT.json` quotes the lines.

1. `cache_stale_foreign`: `PublicApiService.DeleteAsync` deletes by tenant and id
   only, then invalidates the type in the URL, not the item's.
2. `cache_stale_related`: the cache "is invalidated when content is written via the API",
   but a PUT or DELETE invalidates its own type's responses only; those of a type that
   refers to the item keep its old `displayValue` until they expire.
3. `media_picker_isolation`: `media-picker.js` resets its state on close to "isolate
   pickers from each other", but not the requests under way: a search or an upload of one
   field is answered into the dialog of another, which then takes media its own type,
   size and formats exclude.
4. `field_options_rating`: the dialog "reads/writes options_json for each FieldType",
   but looks for an input by its key in the whole dialog, so the stars of a Rating and the
   placeholder of RichText and Markdown fields are neither shown nor written.

Of the same kind, and stated by the condition *in series* or by a named cause: two crops
of one image, or a crop and a deletion, leave a file without a row, although
`docs/content-types.md` says the old file is removed (`NoOrphanFilesInSeries`); the
callback of a cache entry that has gone untracks the entry that has taken its place,
although `MemoryResponseCache` "tracks active keys" (`UntrackedByLateCallback`, `late`);
a verification of an expired code deletes the code sent meanwhile
(`RejectedForCauseInSeries`); a language is deactivated after another request has made
it the default (`DefaultIsActiveInSeries`); a GET that read before a write caches the
old response after the write's invalidation (cause `race`); a crop under way removes the
file of an item deleted meanwhile (`DeletedItemsKeepFiles`); two overlapping logins
leave two unused codes (`AtMostOneUnused`); two requests deactivate the last two active
languages (`SomeActive`); two overlapping saves share a slug although
`BuildUniqueSlugAsync` appends numbers "until the slug is not taken" (`SlugsShared`) or
leave two targets in a Relation field, of which the panel means to "keep only the first"
(`RelationsBounded`), and PUT leaves items without required values
(`IncompleteHasCause`, cause `blanked`). On the pages: the last answer to a search wins,
not the answer to the last search (`SettledListsFit`, blame `overtaken`); so does the
order stored last (`PagesShowStored`); a rename answered late updates the card of
another item, and a page loaded before a rename is stored keeps the old name
(`CardsShowNames`, `meBlame`); Apply before a relation's dropdowns are filled erases its
options (`UntouchedKept` asks for `foPending = <<>>`).

## 7. Plan

Order: what changes state in several steps first, then what caches, then trees
and permissions, then pure functions.

1. *Done:* `MediaLibrary`, `PublicApiCache`, `LoginCodes`, `Languages`, `ContentItems`,
   `MediaPicker` and `AdminPages`, with their proofs where section 3 names them.
2. Open for `ContentItems`: minimum and maximum counts of relations, which only the
   panel enforces; content of several languages; fields whose text does not parse.
3. `UiTranslations`: the store over `IMemoryCache`, edits and `Invalidate`; may share
   the shape of `ResponseCache`.  Properties: an edit shows up after `Invalidate`
   unless a load was under way; no expiry, so no liveness without it.
4. `RateLimiter`: the window, the counter objects, the cached limit.  Property: at
   most limit requests pass per window and counter object; theorem for any number
   of concurrent requests.
5. `ContentTypes`: parents, beside the order of fields that `FieldOrder` has.
   Properties: no direct cycle; longer ones refuted or accepted.
6. `ApiAccess`: configuration, field visibility, credentials, grants, rotation and
   issued tokens.  Property: what a key or token opens at each step of a save.
7. `Tenants`: provisioning, (de)activation, impersonation, users and permissions.
8. Operators for `FieldValueMapper`, paging and key parsing, checked
   against reference definitions over bounded inputs.

## 8. Not modelled

Wording, markup, pixel work, SMTP, hashing and the SQL text itself; the
framework's cookies, antiforgery tokens and login rate limit; validators of single
fields (operations are modelled from valid requests on, and their early returns
change nothing).  Read-only pages (dashboard, API docs, audit log).
Of the scripts: the rich-text editor (`richtext-editor.js` sets up a vendored editor and
copies its text), the vendored `jquery.validate.unobtrusive.js`, the summary line under
the options button, labels and thumbnails, the fading of the rename dialog, alternative
texts.  `MediaPicker` does not tell search texts apart, and `SlugField` not characters of
one kind.  The behaviour
of SQL Server and `IMemoryCache` is modelled from how the code uses them and marked
`external` in `PROJECT.json`.
