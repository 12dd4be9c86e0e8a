# Verification of the Jintai property mall

TLA+ models of the server and the web clients of this repository, TLC
configurations that check them on small instances, and TLAPS proofs of all the
properties they check but liveness. Line numbers refer to the
sources at the modelled commit; `PROJECT.json` maps every definition to its lines.

    tlc -config MCFileStore.cfg MCFileStore     # and the other .cfg files
    tlapm FileStoreProofs.tla                   # and the other ...Proofs.tla

## The system

| part | state | operations | talks to |
|---|---|---|---|
| file store (`src/src/storage/file_store.ts`) | one object in memory with all tables and `_meta.nextIds`, a dirty flag, a 100 ms timer, one JSON file and its temporary | start-up and seeding, insert, update, remove, setTable, nextId, flushNow, withTransaction, clearAll | called by every repository |
| orders (`repositories/orders.ts`, `routes/**/orders.ts`) | tables orders, order_change_logs | create, two cancellations, status, remark, delete, log | file store; site and mini program |
| accounts and logins (`repositories/users.ts`, `routes/api_v1/auth*.ts`) | tables users, user_identities; the JWTs people hold | login through the public account and through the mini program | WeChat, file store |
| properties, categories (`repositories`, `routes/api_v1/admin`) | tables properties, categories | create, update, delete, import; a category in use is not deleted | administration site, H5 mall |
| welfare codes (`repositories/welfare_codes.ts`) | one table | validation, use, administration | mini program |
| products, SKUs, reviews | one table each, and link tables | administration, reads | mini program |
| H5 mall (`jintai-property/h5`) | list, filters, page number, requests in flight, image spinners | search, select, refresh, scroll | `properties_mall.ts` |
| administration site (`jintai-property/admin`) | token, lists, the property form | edit, upload, save, delete, import | `routes/api_v1/admin` |
| mini program (`miniapp`) | login state, cart, the state of each page | browse, cart, checkout, orders | server, WeChat |
| upgrade scripts (`src/scripts`) | MySQL tables, files before and after | two data migrations, three verifications | the MySQL database of the old shop |
| WeChat services (`services/wechat_*.ts`) | cached access token and ticket | fetch on expiry | WeChat |
| payment (`pay*.ts`, `wxpay*.ts`) | none of its own | prepay, notification | not mounted by `server.ts` |
| FLcode | SQLite tables, sessions in memory | codes, import, login | separate service |

Node runs a handler without interruption between two awaits, and the repositories
never await. So on the server interleavings come from crashes, the save timer, failed
system calls and the order of requests; in the clients from requests in flight,
timers and users. What makes each part correct:

- file store: ids stay unique, nothing unsaved is forgotten, a crash loses at most
  the last writes and never corrupts the file;
- orders: the log accounts for the order, an order that was saved stays with its file;
- accounts: a token names its person's account, also after crashes, and nobody else's;
- catalog and welfare codes: a row refers to what was meant when it was written, a
  code is used as often as it says;
- FLcode: who was told a code keeps it, sessions end;
- upgrade scripts: a failure between two statements loses nothing, and "OK" is true;
- clients: what is shown is what was asked for, indicators end, what is saved is
  what the page shows.

`PROJECT.json` lists the hazards one by one, with the properties that cover them.

## Modules

**StoreData, DurableTables, FileStore.** `FileStore` is the store. `cache`,
`dirty` and `timer` are `_cache`, `_dirty` and `_flushTimer`; `disk` and `tmp` are
the two files. Every operation that a repository calls is one action. `saveDataSync`
is two, `WriteTmp` and `RenameTmp`, because the process can die between its two
system calls; while it runs (`pc` is "write" or "rename") only a stop interleaves.
The process stops in two ways. `Crash` takes the process alone and keeps its file: the
process exits and starts again in its container, or `FILE_STORE_PATH` names a mounted
volume. `Replace` takes the container: with the default path `/tmp/jtfp_store.json`
(`file_store.ts:14-15`, `DEPLOY_FILE_STORE.md:83,124`) the file is lost with it.
`caller` remembers who called it, which decides what an exception does: loadData
catches it, flushNow gives it to the handler, in the timer and in `start()` it ends
the process. A start may find its file unreadable: it then starts afresh from
seeded tables and overwrites the file. `DurableTables` is the abstract
specification: a memory that changes, and a durable copy that at some moments
becomes the memory; a crash makes the memory the copy again, and a lost container
(`Vanish`) empties both. `FileStore` implements
it, with `Memory` and `Durable` as the mapping. A table is the set of its rows;
`update` spreads the request body over the row, the id included, and the clients
send a row's own id back.

**Orders, Users, Catalog, Welfare** are written over the abstraction that
DurableTables states (`db` the memory, `saved` the file, `Flush` at any time,
`Crash`, `Replace`), not over FileStore itself. That this is justified is proved: each of the
four makes only steps that DurableTables allows (see Proofs). They leave out one step
that it allows, `Forget`, the start that finds its file unreadable. Categories that
`initDefaultData` seeds are not told apart from created ones: a new container starts
empty, and the seeds are the first ones created in it.

- `Orders`: an administrator may set any status, as the route does; three stand for
  all. Order numbers may collide, because the code draws them from the second and
  four random digits; `repeated` remembers those that were given twice.
- `Users`: a person has an openid per application and a unionid that WeChat may leave
  out; `LoginNew` includes the flush that precedes the token, `LoginNewFails` is that
  flush throwing. `auth_mini.ts` is the only caller of `findOrCreateUserByIdentity`, so
  'wechat_mini' is the only provider; its step 2 (`SameUnion`) is modelled, and never
  finds anybody. A token is `lasting` when its login came after the flush of its account,
  or found it flushed, and while the container that signed it lives; `unsaved` are the
  registrations whose flush failed since the last save. Tokens survive every stop.
- `Catalog`: categories and properties, with forms that stay open in browser tabs. A
  form remembers the category it shows (`cat`) and which one was meant (`chosen`, the
  category's `born`). `chosen` is 0, and nothing is claimed, when a form was opened
  on, or a row imported with, an id without a category, and in every form that is open
  over a crash, after which the server may hand the same id out again.
- `Welfare`: here the order of the table matters, because codes are not unique and
  `findByCode` takes the first row; `List` sorts the table of the store in place, as
  the repository does. `draft` is a row that a client has read and may write back.

**MallPage** is the home page of the H5 mall with the server behind it. A handler up
to its await is one action, what follows the await another (`Reply`), and replies
come in any order or fail. `Selected`, `Precedes` and `Results` are the filter, the
order and the result of the repository's `list`; the properties (`Rows`) are
constants, so that changes between two requests are not covered. `bulkInsert` gives the
rows of an import one `created_at`; such rows stay in the order of the table (`place`),
because sort is stable. `spinners` and
`timers` are imageLoadingStates and imageLoadTimeouts. Vant's List writes its
`v-model:loading` before it emits `load`; that is `ListCheck`, and it is external.

**PropertyForm** is the form that creates and edits a property, with the routes
behind it, and what the property page of the mall makes of a stored row
(`MallDetail`, `VisibleTabs`, `ActiveTab`, `AllImages`). `Watched` and `Formula` are
the seven watchers: the amounts they compute are kept as the values they were
computed from. `files` is what Element Plus's Upload shows and `imageList` what the
page saves; `onScreen` is the order of the tabs on the screen and `moduleTabs` what the
page saves. A save goes on when its page is left (`late`): its answer writes the row
while another form may be open. `uploaded` are the images uploaded since the form was opened.

**MiniShop** follows a customer of the mini program from the product to the paid
order. One page is in front; continuations run whichever page that is. `posted` are the
orders as the checkout page sent them, whatever the server keeps of them. The server is
external: the mini program asks one with `/welfare/quote`, a payment route and an answer
`orderNo`, and the server of this repository has none of the three (its
`routes/api_v1/orders.ts` drops items and address and answers `order_no`). `AnswersOrderNo`
says which server answers; without it every order sent ends as `CreatedUnknown`. Once the
checkout has copied the code and the price, the page of the welfare product is not
followed further. **MiniAccount** is the login in memory and in storage with the
request wrapper, and the pages behind it. A slot is a handler that waits; `gone` says
that its page was closed. Between two pages of the list orders are placed, and deleted by
an administrator (`DeleteOrder`), which shifts the offsets of the pages to come.

**Upgrade** has one action for each awaited statement of the five scripts. A
statement outside a transaction commits at once; `Abort` is an exception or a killed
process at any statement. The shop, which is outside the repository, goes on
selling. `UpToLast` is the cut-off of `verify_orders_after_upgrade.ts:84`, the latest
`created_at` of the backup in whole seconds: an order that comes later within that second
is counted (`late`). **FLcode** has one action per handler of that service, two for the upload,
which awaits the parsing of its workbook after the session was checked.

The `...Proofs` modules hold the proofs, some for two components: AccountProofs for
Users and MiniAccount, MallProofs for MallPage and PropertyForm, DatabaseProofs for
FLcode and Upgrade. So that one module can extend both, the second of each pair names
its specification `AccountSpec`, `FormSpec` and `UpgradeSpec`. The `MC...` modules give
constants their values.

## Runs

| run | shows |
|---|---|
| filestore | type, `CleanIsSaved`, `SavedIdsNotReused`, `EventuallySaved`, implementation of DurableTables |
| orders | the log explains every order in memory and in the file; only a deletion, or the loss of its container, takes a saved order away |
| users | a lasting mini-program token names an account that no crash takes away and no other person's token names, also when flushes of others fail |
| catalog | no property turns up in a category nobody chose; a category in use stays; an acknowledged import is in the file as long as the container has one |
| welfare | a code is accepted no more often than it allows between setbacks; one that has run out stays so until its count is raised |
| mall_page | spinners have timers, refreshing ends, the list is a prefix of one result, the last request's answer is for what is selected |
| mall_load_more | violation: the second page is never asked for ("上拉加载更多") |
| property_form | computed amounts agree, visitors see the saved list of images and, of the images that were there before, those still shown; the page opens on a section it shows, a deleted property stays deleted |
| mini_shop | the price follows the verdict, an order that is sent is of one kind, nothing revives in the cart, submitting ends; with a server that answers `orderNo`, paying clears what was ordered |
| mini_account | memory and storage agree on the login, the list is the newest orders without gap unless orders were placed or deleted between its pages, loading ends |
| upgrade | what is copied is cleared, "OK" means moved and undoable, one item per code, a reported difference means a deleted order or one that came after the backup within its last second |
| flcode | an answer stays, old lists are safe to click, the password is the last one set, accepted sessions are recent |

`mall_load_more` leaves the page with `loading` true for good once its end is in
view, until the next search; with the test of `loading` removed from `onLoad` the
property holds in the same model, but then `ListIsPrefix` fails (it is that
property's mutant): both tests are needed, on different flags.

### Behaviour that the models show and no property forbids

The properties say what the code can be held to. The models also contain behaviour
that a maintainer should know of; where a document speaks about it, it is quoted.

- Orders: two orders of one second may get one number, although
  `sql/cloud_init_database.sql:157` calls the number UNIQUE. `/me/orders` cancels
  without a log entry. An order acknowledged within 100 ms of a crash is lost.
- Accounts: somebody who uses the public account and the mini program has two accounts,
  in whichever order they come, although `users.ts:75`, `auth_mini.ts:29` and
  `user_service.ts:60` speak of merging by unionid: the public account's login leaves no
  identity, so that only identities of the mini program are ever compared. The public account's login does not
  flush. After a failed flush the client's retry finds the registration in memory and is
  given a token that a crash may take the account from. After a container was replaced
  with its /tmp, user ids begin again at 1 while tokens are valid for seven days: an old
  token then names a stranger's account.
- Store: what was acknowledged and saved is gone when the container is replaced, unless
  `FILE_STORE_PATH` names a volume; DEPLOY_FILE_STORE.md:83,124 say so.
  `withTransaction`, which nothing calls, clears `_dirty` when it rolls back, so that
  writes made before it may not be saved until the next write.
- Catalog: a stale form can leave a property in a category that no longer exists, and
  after a crash that id may be given to another category. An import whose flush fails
  keeps its rows in memory, and the retry imports them again; so does a create whose
  answer is lost. The batch deletion of the page posts to a route that does not exist.
  The list route sorts the cached table in place. `sku_library.ts` asks
  `list({pageSize: 10000})`, which `list` cuts to 100, so the SKUs of further products
  are missing from "all".
- Welfare codes: nothing keeps codes unique, and reading the list changes which of two
  equal codes counts; a PUT of a whole row that was read earlier sets `used_count` back.
- H5 mall: an older search's answer replaces a newer one's.
- Property form: a form whose detail failed to load stays open, and saving it replaces
  every field; opening and saving replaces amounts that were typed by hand; an image
  uploaded and removed on the same visit is still saved, because Upload lists it under
  a local url that `handleRemoveImage` does not find; dragging a tab does not change
  the saved order (`PropertyForm.vue:708`, against the text at `:393`); of two editors
  of a property the later save wins in every field.
- Mini program: a welfare code typed over a checked one can be bought unchecked at the
  old price until the timer fires; what is added to the cart after leaving the
  checkout page is cleared with the order; the checkout reads `orderNo` where the
  server answers `order_no`, so that with this repository's server the order is made, the
  checkout throws and nothing is ever paid (`WithoutOrderNoUnpaid`), and a customer who
  tries again makes a second order; the prepay route it calls is not mounted; a late 401
  ends a newer login; a login that arrives after a logout logs in again; a page of orders
  that failed is skipped; a reload over a load can repeat orders; an order placed between
  two pages is preceded by a repeated one, an order deleted between them hides one.
- Upgrade: a second apply into the same directory overwrites the before file with
  migrated values. The verification of the orders reports an order that comes after the
  backup in the second of the backup's last order, though nothing was lost.
- FLcode: changing the password does not end sessions, and expired sessions stay in
  the Map.

### Bounds

FileStore: two tables, two values, and two writes with one or two faults give every
combination of a write, a save step and a crash or a lost container, and a restart after
each. Orders:
one customer and two numbers, three log entries and one crash, enough for two changes
of one field and one of the other on each side of a crash (here and below a lost
container counts as one). Users: two people, three accounts and two crashes, so that an
account can be lost with its crash, its id given to the other person, and lost again
with the container, while a public account's is among them. Catalog:
two forms, two categories, two properties and a crash: a form may outlive a category,
a second form sees the new one, the crash may forget either; the proofs cover
repeated crashes. Welfare: two rows of one code or of two, counts of one and
two, one setback. MallPage: four requests, hence three in flight beside one answered,
over filters with more than a page, exactly a page, less than a page and nothing; one
property is off the shelf, one category is not offered, and two properties were created
by one import. PropertyForm: three changes
per visit and one save, which may end after its form was left, over an imported property and one saved with a hidden tab; two
amount fields are typed, which exercises one watcher fully and the others with one
field missing. MiniShop: one line, two codes (one with a price, one free), two checkout
pages and two orders, so that a submission can end on the other page and after another
one. MiniAccount: two handlers at a time, two logins, pages of one order, two orders of
which one is placed while the list is open and one may be deleted (`Kept`). Upgrade: two scripts with one failure, two
changes by the shop; two codes, of which one is consumed. FLcode: two numbers, two
tokens, a workbook with a number twice and one with an invalid row, time up to three
with a lifetime of one, one restart. Symmetry is used for customers, order numbers,
people, tabs and tokens, never with liveness. Almost every bound falls away in the
proofs.

### Fairness

`FairSpec` of FileStore: the container platform starts the process again, a
synchronous call returns, and a pending timer fires once writes pause (their number is
bounded). Nothing is assumed of requests or of flushNow. `MallPage`: every request is
answered or reaches axios's timeout of 30 s, and List checks its position after every
change of its flags. `MiniShop` and `MiniAccount`: every request is answered or reaches
wx.request's timeout of 15 s, and the payment dialog closes. No visitor, customer or
administrator is obliged to do anything.

## Proofs

All theorems hold for every value of the constants that the modules' assumptions
allow; TLC evaluates the assumptions in the runs.

- **FileStoreProofs**: `TypeCorrect`, `IdsAreFresh`, `SkippingIsSafe` (CleanIsSaved),
  `TimerIsArmed`, from one inductive invariant, TypeOK, IdsFresh, CleanIsSaved,
  UnsavedHasTimer and `Control`. `Control` says what memory, files and caller are at
  each `pc`, for example that the temporary file is the memory when the rename comes.
  `SavedIds` (SavedIdsNotReused): from the fact that the memory's counters are never
  behind the file's and a row of the file's ids is the file's row, except after a start
  that replaced an unreadable file or that found none in a new container. `Implementation`: each step is a step of
  DurableTables or a stutter.
- **OrdersProofs**: `OrdersStay` from `Kept` (every order of the file is in memory, or
  was deleted; a lost container empties both). `LogExplains` from `LogInv`, for memory and file alike: `Numbered`
  (orders and entries bear numbers that were issued, and a number that was not given
  twice has one order) and `Told` (the log explains each of these orders). The work is
  in showing that an entry appended for one order and field leaves the story of every
  other one alone.
- **AccountProofs**, on the server: `TokensKeepAccounts` from `TokensInv`: an identity
  that memory has and the file lacks is one whose own flush failed since the last save,
  and a lasting token's identity is in the file; the flush before the token is what
  preserves it. `TokensApart` needs also `AccountsInv`: the identities of an account are
  one person's, in memory and in the file, and their accounts are behind the counter. In the mini program: `SessionsAgree`
  from `MiniInv`, the type and `Asking` (a load of the list that is on its way has a
  page number). `ListsArePages` from `Alone` and, unless a reload met a load (`mixed`),
  `OneLoad`: a list that was closed leaves only handlers without a page behind, and at
  most one load in flight will still join the list.
- **CatalogProofs**: `ImportsAreSaved` from `ImportedKept`, rows that this container
  imported are in the memory and in the file; `CategoriesAsChosen` from `CatsInv`: ids of categories in both
  are below the counter and unique, the memory's counter is not behind the file's, the
  memory has no category that the file lacks under an id the file has handed out, and
  what forms and rows name is what was chosen. `CategoriesStay` follows from the same
  invariant, a step at a time.
- **WelfareProofs**: `AcceptedWithin` from `Budget`: what was accepted of a row in
  memory is at most its count of uses plus its highest total for each setback, and the
  counts of every row, in memory, in the file and in the draft, are at most its highest
  total. The file or the draft may replace the memory, so the second part must hold of
  all three at once. `RaisingReopens` needs only that rows keep their identity under
  sorting and removal.
- **MallProofs**, the list: `ListsArePrefixes` and `AnswersFit` from `PageInv`: requests
  are numbered and ask for the first page, the last one for what is selected, and the
  list is empty or a first page. `SpinnersEnd` by itself. `ResultsInOrder`: `Results`
  has every selected property once, in order, rows of one import included. The form: `DeletedStayAway` from `IdsInv`
  (ids of rows and of deleted rows are behind the counter). `AmountsAgree` from
  `AmountsInv`: a form that waits for its detail is still blank and untouched, which is
  why loading it triggers every watcher that can compute. `SavedImagesAreSeen` from
  `ImagesInv`: no cover remains where the images were emptied, and the list to save holds
  what the form shows and what was uploaded since, nothing twice. `PagesOpenOnSection` from
  `TabsInv`: a configuration with no visible tab is never kept, sent or stored.
- **MiniShopProofs**: `OrdersAreOneKind`, of orders as they are sent, `PricesFollow` and
  `NothingRevives` from
  `ShopInv`: the kind of the page and of each submission agree with what they hold, a
  submitted welfare item has a complete code, and the cart has its type.
  `PaymentsClearTheirCart` from `PayInv`: each checkout page has one submission at a
  time, while the page is open the cart stays as it was loaded or a payment has emptied
  it, and a payment is for the order of its submission. Its proof sorts the steps into
  five kinds (the same page, a new one, one that was left, a submission, a continuation)
  and treats each once. It says nothing of a server without `orderNo`;
  `WithoutOrderNoUnpaid` is what holds of that one, the repository's own.
- **DatabaseProofs**, FLcode: `PasswordKept`, `AcceptedRecently` (from `SessionsRecent`,
  which bounds each session's end by its last use), `ListsAreSafe` and `AnswersStay`
  (from `CodesInv`: rows differ in id and in number, their ids and those of old lists
  are below the counter, and an answer is the row of its number). The upgrade:
  `NotesMoveWithAttributes` from `MoveInv` (a transaction's notes are of orders it
  targets and of items it cleared). `SuccessMovedBoth` and `SuccessCanBeUndone` from
  `VerdictInv`, which says at each `pc` how what the script has read, written or
  answered agrees with the tables (`VerdictsHold` states the whole). `CodesGetOneItem`
  from `ItemsInv`: what was inserted and what is left are together the codes that had no
  item. `DifferencesAreLosses` from `VerifyInv`: an order up to the cut-off that the
  backup lacks came after it (`late`), and a difference that was found is a loss already.

Each component's type invariant is a theorem too (`TypeCorrect`, `...TypeCorrect`).

**The store below the repositories.** `OrdersUseTheStore` and `CodesUseTheStore` show
that Orders and Welfare implement DurableTables: with their tables, the memory and the
file mapped to its `mem` and `durable`, every step is a Write, a Sync, a Lose or a Vanish, or
leaves both alone. Beside the type invariant this needs that ids in memory and file are
unique and behind the counter (`OwnIds`; for Welfare `Distinct` and `Positive`).
`LoginsUseTheStore` and `CatalogUsesTheStore` show `ServedByTheStore`, which allows one
step more, `WriteAndSave`: a new account and an acknowledged import are one action with
the flush that their handlers wait for, that is, a Write and a Sync at once. Of the
accounts the table users is mapped (an identity has no id in the model), of the orders'
log an entry is numbered by its position. The two layers meet at DurableTables: by
`Implementation` the store does no more than it allows, and by these theorems neither do
the repositories above it.

**Sorting.** The library's theorems on induction take an operator as a parameter, which
the provers cannot instantiate. `ResultsInOrder` does without: the number of properties
that come before one is different for each, so that its places are an injection into
`1 .. N`, and between finite sets of one size an injection is onto. The section on which
a page opens exists because a set of numbers has a least element (`LeastNumber`, from
the well-foundedness of `<`).

Model-checked only: liveness (EventuallySaved, RefreshEnds, LoadingEnds, SubmitEnds and
the refuted `ScrollLoadsMore`), which is out of the prover's reach. The proofs rest on
the modules' assumptions alone: they are named in the modules, and TLC evaluates them in
the runs.

## Not modelled

- Payment: `server.ts` mounts no payment route (lines 90, 105, 106 are comments). Read
  on its own, `pay.ts:61-63` looks an order up by out_trade_no and updates it by
  order_no.
- MySQL mode: no repository uses it. Several instances: DEPLOY_FILE_STORE.md restricts
  the store to one, although container.config.json allows five.
- `withTransaction`, `clearAll`: called by nothing.
- Products, SKUs and reviews: single inserts and updates, which FileStore covers;
  nothing calls the functions that change the stock.
- The administration site beyond its form, its categories and the list of properties:
  the token is written and removed without an await in between.
- The WeChat token cache: two variables, written after one awaited fetch. Several
  requests that find it expired each fetch one and the answer that comes last stays,
  whether or not that is the token WeChat still accepts.
- Items of welfare codes, their status and period: no route adds an item, the other
  two only refuse more uses.
- Uploads, exports, configuration, the placeholder routes and `migrate_production_db.ts`
  are input and output without state of their own.

What could be added: changes of the properties between two requests of a mall page; the
composition of Catalog with PropertyForm.
