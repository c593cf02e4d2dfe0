# Verification of ExpireShare

TLA+ models of the file sharing service in `src/`, the TLC runs that check them
and TLAPS proofs about them. The core is the part of the program where several
goroutines, a MySQL table and a directory tree have to stay in step: uploads,
downloads, deletions and the sweep of expired files. Around it are models of what a
request meets on its way there: the router with its middlewares, the auth-service
behind gRPC, the rate limiter in Redis, and the process that starts and stops it all.

## The system

| component | state | operations | used by |
|---|---|---|---|
| files table, `infrastructure/mysql/files.go` | one row per shared file: alias, owner, size, downloads left, expiry, password hash | add, decrement, delete, delete expired (in a transaction); get by alias, page, statistic (outside of one) | file service, worker |
| local storage, `infrastructure/storage/local/files.go` | one folder per alias, as it is spelled, with the content | Upload, Download, Delete | file service, worker |
| file service, `services/files` | none of its own: local variables of the request's goroutine | UploadFile, DownloadFile, DeleteFile; GetFileByAlias, GetAllFiles, GetFilesStat | HTTP handlers |
| access policy, `services/files/access.go` | none | checkAccess, checkOwner, checkPassword, checkUploadQuote | file service |
| file worker, `services/worker/worker.go` | the batch it is removing | one sweep per tick | started by `app.StartFileWorker` |
| rate limiter, `infrastructure/redis`, `delivery/middlewares/rate_limiter.go` | one Redis counter with a TTL per field and address | Allow (a Lua script), Reset | download, register and admin routes |
| auth and admin middleware, `delivery/middlewares` | claims in the request's context | validate a token; compare the admin secret | all routes but download and auth |
| auth-service clients, `infrastructure/grpc` | a connection | one gRPC call each | middleware, auth and admin handlers |
| handlers, `delivery/handlers`, and responses | none | parse, call, render | router |
| alias generator, `lib/alias` | a random source | Gen | file service |
| application, `app`, `cmd/expire-share` | connections, the two goroutines | start, mount, shut down | |

A request runs in a goroutine of its own. It calls the service, which calls the
table and the storage in turn; nothing is shared in memory, and no lock of the
program exists: what keeps requests and the worker apart are the row locks of
InnoDB. The request's context is cancelled when its client disconnects.

What makes this hard:

* table and folder change one after the other, and neither undoes the other;
* the table takes aliases that differ in case for one, the file system does not, and a
  request goes on with whatever its client wrote;
* `database/sql` rolls back at once when the context is cancelled, while the
  handler goes on with the storage, which ignores the context;
* the counter of downloads and the quota are read without a lock and acted on
  later, and lookups are repeated by alias, not by id;
* the sweep removes many folders before one commit;
* the Redis client repeats commands it got no answer to, and the limiter is one
  counter whose TTL is now a window, now a block;
* claims are those of the moment a token was validated, and the auth-service, which
  can be unreachable or lose an answer, changes tokens and roles meanwhile;
* which middlewares guard a handler is decided by how the routes are nested, and four
  handlers are mounted behind two different guards;
* the connections are closed before the server that uses them.

What makes each component correct:

* table: a committed row is one a request can use; decrements are not lost;
* storage: content can be opened only when it is whole; one writer per folder;
* service: a file goes away only because it was used up, deleted by somebody who
  may, or expired; a charge means a download; quotas hold;
* worker: every expired file is collected, with its content;
* table and storage: content without a row and rows without content do not
  arise, except where a finding below says so;
* rate limiter: a key is blocked after `max_attempts`, for as long as configured;
* middleware and handlers: every request gets an answer, and is carried out only for
  somebody who may ask for it at the time;
* listing: a page agrees with its total, and the limits shown are those enforced;
* application: nothing is served before everything is connected, and a signal ends
  the process.

## The modules

| module | models | notes |
|---|---|---|
| `Domain` | entities, actors | constants and their assumption |
| `Access` | `access.go` | pure operators: roles, quota, owner, password |
| `FilesTable` | `mysql/files.go` and InnoDB | one operator per statement of a transaction |
| `LocalStorage` | `local/files.go` | one operator per call |
| `FileService` | `upload.go`, `download.go`, `delete.go` | one action per statement or call of a request |
| `FileWorker` | `worker.go` | one action per call of a sweep |
| `ExpireShare` | all of them together, the clock, the faults | composes the six above; their properties are stated here |
| `FileSharing` | nothing: the abstract specification | implemented by `ExpireShare` |
| `RateLimiter` | `redis/rate_limiter.go`, `middlewares/rate_limiter.go`, `admin.go`, go-redis' retries | one action per command and decision |
| `Responses` | the error tables of `util/response`, `grpc/mapping.go` | functions from errors to status codes |
| `Lifecycle` | `main.go`, the connections | one action per call of `main` |
| `AuthService` | `infrastructure/grpc` and what the service behind it does | one operator per gRPC call |
| `Gateway` | the routes of `app.go`, the middlewares, the handlers | one action per middleware and handler |
| `Server` | `Gateway`, `AuthService` and `Lifecycle` together | properties of requests and of the process |
| `Listing` | `GetFilesByUserID`, `ScanPaginationArgs`, `get_stat.go` | one action per query |
| `UploadForm` | `getRequestFromForm` of the upload handler | |
| `AliasGen` | `alias.Gen` | one action per round of its loop |
| `UploadRequest` | the two in order | |
| `MCExpireShare`, `MCRateLimiter`, `MCServer`, `MCListing`, `MCUploadRequest` | constants for TLC | |
| `ExpireShareProofs`, `RowProofs`, `BlobProofs`, `RefinementProofs` | nothing: the proofs about `ExpireShare` | each extends the one before: types; locks, rows and quotas; folders and what is served; terms and the refinement |
| `RateLimiterProofs`, `ServerProofs`, `ListingProofs`, `UploadProofs` | nothing: the proofs about the module they are named for | `UploadProofs` is about `UploadRequest` |

An operator whose comment begins with *Mutant* is a plausible bug; no
specification uses it. A run in which it takes the place of the correct operator
violates the property that `PROJECT.json` names for it.

### State and code: table, storage, service, worker

* `rows` are the committed rows, `pend[a]` what the transaction that holds
  `lock[a]` has made of the row. A plain SELECT reads `rows`. INSERT, UPDATE,
  DELETE and SELECT ... FOR UPDATE wait for `Unlocked` (or their own lock) and work on
  the current version. Commit copies `pend` to `rows`.
* `Alias` is what the unique key of `files.alias` tells apart. The column has the default
  collation of utf8mb4 (`migrations/000001_init.up.sql:7,13`), which takes the cases of a
  letter for one, so `WHERE alias = ?` (`mysql/files.go:77,212`) finds a row by any
  `Spelling` of its alias. `rows[a].spelled` is the spelling `alias.Gen` drew,
  `req[p].spelled` the one a client sent, with which its handler goes on after the lookup.
* `dir[a][s]` is the set of blobs in the folder of `a` spelled as `s`, since the path of a
  folder is the alias letter by letter (`local/files.go:63,100`); `whole` are the blobs
  that were written completely. A blob is named by the id of the row its upload inserted,
  which is what lets a property say *whose* content a folder holds; the program
  names it by the client's file name, so an upload may or may not overwrite a
  leftover, and `CreateBlob` allows both.
* `req[p]` is the goroutine of a request: `pc` names the statement it executes
  next, `left` is `downloadsLeft`, `file` the open file, `cut` that its context is
  cancelled. Lookups before the first statement of a transaction (`GetFileByAlias`,
  `GetFilesStatByUserID`) and the pure checks after them are one step, the `Begin`
  actions: nothing they read is used again except through the alias.
* `served`, `born`, `asked`, `drawn` and `mislaid` are history: how often a file was handed
  out, with which row it was published, for which files a deletion was granted,
  which aliases were drawn, which files' rows were deleted in a spelling that is not the
  row's. Nothing but `drawn` (see below) appears in a guard.
* `now` is `NOW()`. `exp > now` and `exp < now` are the comparisons of the queries.
  A ttl may be zero or negative, as `time.ParseDuration` allows.

### State and code: the limiter

* `counter[a]` is the Redis key of an address: its value and what is left of its
  TTL. The value stops one above the limit, where the script compares no further.
* `call[p]` is the middleware's goroutine: a command is *sent*, has been *ran* by Redis,
  or the admin *secret* is being compared. `NoAnswer` is a timeout or a broken
  connection at any of these points, and the client then repeats the command
  (`redis.max_retries`) or gives up, upon which the request passes.
* `late` are commands on connections the client gave up: Redis may run them later,
  after other commands of the same address.
* `window` and `owed` are history: the grants since a window was opened, and how long
  a refused address must still wait. Redis' own loss of keys (`LoseKeys`) ends both, as
  does a reset.

### State and code: requests and the process

* `main` names the next call of `main.go`; `open` are the connections, which requests
  under way may find closed.
* `req[p]` is a request: `todo` are the middlewares still in front of the handler
  (`Chain(route)`, read off the nesting in `app.go`), `claims` and `parsed` what the
  middlewares put in the context, `answer` the status code, with `Unwritten` for a
  handler that returns without writing. A request whose client
  has left goes on to its end.
* `access`, `refresh`, `holder`, `roles`, `known` are the state of the auth-service. It
  is not part of `src/`: what its calls do is taken from how the clients use them. Each
  call may succeed, be refused with a code, not reach the service, or be carried out
  and its answer lost.
* `files` is what the core models in full, here one record per alias. A call of the file
  service is one step, at the moment it takes effect; `ServiceFails` stands for all of
  its errors.
* `did`, `touched`, `failed`, `stale`, `goodbye` and `admins` are history; `failed` says
  whether a call of the auth-service for this request was *refused* or left *unanswered*.
  `Unanswered` are the results that say nothing of what became of a call: `Unavailable`,
  and the codes `mapping.go:61-67` turns into errors of the context, which a service or
  a proxy may return over a connection that is open.

### Abstractions

* Locks are per alias. The sweep's scan has no index on `expires_at`, so InnoDB
  locks more rows than it returns; the model locks those it returns, which allows
  more interleavings. A lock on a missing row is a gap lock and two of them do not
  exclude each other; the model makes the second UPDATE or DELETE of a missing row
  wait, and since neither changes anything, only their order is lost.
* There is one clock. The program computes `expires_at` from its own
  (`files.go:44`) and the queries compare it with that of the server; a skew between
  the two, and the rounding of TIMESTAMP to seconds, lengthen or shorten a ttl, which
  the choice of `TTLs` covers.
* The sweep takes its batch in one step. Since a request never waits for a second
  alias while it holds one, taking the locks one at a time adds no deadlock.
* A lock wait that times out, and any other error of a statement, is `DbError`.
* Ids are dense, in the order of the INSERTs; the order and gaps of AUTO_INCREMENT
  decide nothing.
* `AliasReuse` says whether `alias.Gen` may return an alias it returned before.
  With six characters it may, rarely; runs that are not about it exclude it.
* A bcrypt hash is the password it was made from. The default of `max_downloads`
  is assumed to be at least 1, as the form enforces for the value a client sends.
* A download counts as handed out when the service returns the open file.
* A failed lookup, a refused upload or a sweep that finds nothing changes no
  state. `Rest` stands for them, and is enabled only when no goroutine is active, so
  TLC's deadlock check stays on and means: no goroutine is stuck. `Ended` and
  `Finished` do the same for a process that has ended and a computation that is done.
* Headers, bodies, query values and forms are their cases: no token or a token, a body
  that does not decode, one that is not valid, or a good one, a number that is missing
  or not a number.
* The width of `int` and of the 16 bits of `max_downloads` is a constant; so are the
  bits of a random word and of a letter. Small values keep every case: below, at and
  above each boundary, and bits left over in a word.

### Faults

`Faults` says which kinds a run allows and `MaxFaults` how many in all:
*disconnect* cancels a context at any point; *db* fails a statement or a commit
that was not applied; *lost* applies a commit and loses its answer; *io* fails a
call of the storage, with each partial effect it can have; *crash* kills the
process with every open transaction. In `RateLimiter` every command may go
unanswered and Redis may lose keys, without a bound but for `MaxLate` commands under
way. In `Server` every call of the auth-service, the database and Redis may fail;
`Leavers` are the requests whose client may leave, and `Signals` says whether the
process is told to stop.

### Fairness

`FairSpec` asks that a goroutine that can take its next step does so
(`RequestStep`, the Go scheduler), that the worker does (its ticker goes on, its
loop never ends before shutdown) and that time passes. It asks nothing of clients and
nothing of faults: requests need not begin, and a fault need not happen.
Weak fairness is enough. A goroutine that waits for a lock waits for transactions
that are themselves fair, and an alias is locked only finitely often while its row
lives: each commit removes the row or writes a counter below the one it read, and
what does not commit is one of finitely many faults.

`RateLimiter!FairSpec` asks only that time passes in Redis. `Server!FairSpec` asks that
`main` and the requests under way are scheduled (`MainNext`, `ServeStep`); neither a
signal nor an answer of a particular kind is owed.

## What is checked

Bounds: `MaxId` rows are ever inserted, `MaxTime` ticks, `Req` requests at a time
(each goroutine begins again after it returned, so a run has many more than two in
all), `MaxFaults` faults.

| run | asks | instance | shows |
|---|---|---|---|
| `consistent` | `TableMatchesStore`, `QuotaOvershoot`, `SizeOvershoot` | 2 requests, 3 aliases, 2 spellings, a VIP, files of 1 and of 3 bytes with caps of 2 and 3, a cap of one file, batches of two, a lost answer | with no disconnect, error or crash, each folder of an alias nobody holds has exactly the content of the row drawn in its spelling, besides what deletions in another spelling left; a user exceeds the cap by fewer files than there are requests at once, and has stored no more than as many largest files |
| `reuse` | `TypeOK`, `FolderHasOneWriter`, `PublishedBlobsHaveRow`, `NoExhaustedRow` | 2 requests of a user, 1 alias drawn again, 2 spellings, a limit of 2, two faults of any kind | folders have one writer among the goroutines whose client is there; shared content outlives its row only if the row was deleted in another spelling; no row with 0 downloads is committed |
| `sharing` | `NoChargeWithoutService`, `ServedWhole`, `Implements` | 2 requests of a user and an administrator, 2 aliases, a limit of 2, one fault of any kind but a lost answer | every step of the service is one of `FileSharing` or changes nothing there; no download is charged and not handed out; what a download opens was published and is whole |
| `fair` | `ExpiredCollected`, `RequestsReturn` | 2 requests, 2 aliases, batches of one, a failing storage call or a crash | every expired file is collected and every request ends |
| `rate` | `TypeOK`, `WindowHolds`, `BlockHolds`, `QuietIsUnblocked` | the admin limiter, 2 requests from one address, 2 attempts, a window of 3, a block of 4, 1 retry, 2 late commands | no window grants more than `max_attempts`, nothing is granted while an address is blocked, and one that goes quiet loses its counter, through retries, late commands and resets |
| `sessions` | `OwnerOrAdmin`, `LoggedOutIsRefused` | 2 requests, 2 token pairs, a user, an administrator, the default user of the admin routes; login, refresh, logout, upload, both deletions, role assignment | a file is deleted only by its owner, somebody who was an administrator, or with the secret; a token whose logout was answered before the request came does nothing |
| `routes` | `TypeOK`, `EmptyAnswerHasReason`, `ServedOnlyWhenReady`, `SignalEndsProcess` | 1 request at a time on 14 routes, with every body, a client that may leave, and a signal | an empty 200 has a reason (below), and a call left unanswered does nothing; nothing is served half connected; a signal ends the process |
| `listing` | `TypeOK`, `PageFollowsTotal`, `ListedWereSeen`, `ReportedLimitsAreEnforced` | 2 users, 3 files, two changes between the queries, pages and limits at 0, below it, and at the largest int | a page differs from what its total promises by no more files than changed in between; it shows only files that were the user's and live; the limits shown are those enforced |
| `upload` | `DownloadsAsWritten`, `LettersAreFresh` | numbers around 0, the maximum and the width, durations of up to two parts, two random words | no `max_downloads` is read as another number; the letters of an alias are chunks of the words drawn, each used once, in order, none that is a letter left out |
| `over_limit` | `ServedWithinLimit` (violated) | 2 requests, 1 file | finding 1 |
| `lost_content` | `LiveFileHasContent` (violated) | 1 request, a disconnect | finding 2 |
| `respelt` | `DeletedFilesLeaveStore` (violated) | 2 requests, 2 spellings, no fault | finding 3 |

Two requests and the worker are every pair that can meet on an alias; two
downloads and a limit of 2 are the smallest instance with a stale counter and a
last download; two files and a batch of one the smallest with a batch that is
full, three and a batch of two the smallest where a batch is several files and yet
leaves one. `AliasReuse` needs one alias and two ids. Two spellings are one that is the row's
and one that is not. The clock runs to 2 so that a ttl of 1 has all three relations to
`NOW()`.

In `rate` addresses do not interact, so one is enough; two attempts tell the first, a
middle and a refused request apart, and the block is longer than the window so that
both ends are seen. In `sessions` two requests are enough for one to change a token or a
role while the other is between validation and service; in `routes` one request at a
time suffices, since those properties relate it to `main` and not to other requests.

With a cap of one file a user who passes the check has stored nothing, so for the sizes
`consistent` shows uploads that are checked at the same time, with the VIP rule and its
strict bound: a file as large as the cap is refused. Files of several sizes that are all
admitted, and files already stored that decide, would take a second file under the cap and
with it a fourth id to exceed it; that is left to the theorem `SizeBounded`. So is, to
`TableAndStoreAgree`, an alias that is drawn again in another spelling.

`sharing` leaves *lost* out because there the abstract reason for a file to go is
honestly missing: the last download was charged, the file is gone, and the client
was told of an error.

`OwnerOrAdmin` speaks of users that *were* administrators: a role that is revoked
between the validation of a token and the call of the service still counts, because the
claims are not looked at again.

`EmptyAnswerHasReason` is about the empty 200 net/http sends for a handler that writes
nothing. A successful logout is one (`logout.go:84` sets the status of a body that never
follows), and a request whose call of the auth-service was left unanswered may be another
(`auth.go:57`, `:61`, `login.go:78` and its like). A client cannot tell the two apart: whoever
logs out and gets an empty 200 may still have a valid token. What can be promised is that
there is no third reason, and that behind an unanswered call no handler runs and no success
is reported, other than by saying nothing. `LoggedOutIsRefused` accordingly speaks of logouts
that were carried out for a client that got its answer.

`PublishedBlobsHaveRow` and `TableMatchesStore` except the files in `mislaid`, each of which
is finding 3 having happened, and nothing else: a file is in `mislaid` from the commit on
that deleted its row in a foreign spelling.

### Findings

1. `files.go:196` writes `downloads_left` from a read without a lock: of two
   concurrent downloads one decrement is lost, and a file is handed out more often
   than its limit (`README.md:7`, "a maximum number of downloads").
2. `download.go:104` removes the folder before the commit. If the client disconnects
   in between, the DELETE is rolled back: the row is still found, offers downloads,
   and has no content. It is neither expired nor used up (`README.md:15`).
   `delete.go:62` has the same order, for a file its owner wanted gone.
3. `delete.go:50` deletes the row by an alias in any spelling, `delete.go:62` the folder in
   the client's. A `DELETE` of `ABC` for the file `abc` removes the row, then a folder
   that does not exist, which `os.RemoveAll` does not mind, and commits: the client is told
   the file is deleted (`README.md:61`), and its content stays for ever, since the sweep
   looks for folders by row. Nothing has to fail for it.

Seen while reading, without a run of their own:

* `upload.go:18` checks the quota before the transaction, so that concurrent uploads exceed
  the cap (`README.md:18`). `QuotaOvershoot` and `SizeOvershoot` say by how much.
* With `block_duration` below `window` (`config/dev.yaml`, files: 10m and 20m) a
  request over the limit *shortens* the wait, and a window grants more than
  `max_attempts`. `WindowHolds` is proved where the block is not shorter.
* A command whose answer is lost is counted again by the retry, so an address may be
  refused before it made `max_attempts` requests.
* A download without a password is answered 401, a wrong one 403; `ErrNoDownloadsLeft`
  has no answer, and `NoExhaustedRow` shows that it is never met.
* Deletion asks for no password (`README.md:86`), and a ttl of `7d` (`README.md:82`) is
  refused, because `time.ParseDuration` knows no days.
* A folder that can never be removed rolls back each batch that contains it
  (`worker.go:68`). As long as no more files are expired than fit into a batch, no other
  file is collected.
* A download in another spelling than the row's finds the row, asks for its password, and
  answers 404 for want of the folder. An alias counts as taken in every spelling.
* `download.go:36` opens the blob by alias after the password was checked. If the alias
  was deleted and drawn again in between, what is handed out is another file.

## What is proved

For all values of the constants, from the named assumptions of the modules: any finite
set of requests and aliases, any users, quotas, bounds and combination of faults for
`ExpireShare`; any set of requests, tokens, users and routes for `Server`; any page, limit
and number of changes for `Listing`; any word and letter width and any alphabet for
`UploadRequest`. Every invariant and every action property that a passing run checks is
the statement of one of these theorems.

| theorem | statement |
|---|---|
| `ExpireShareProofs!TypeCorrect` | `Spec => []TypeOK` |
| `RowProofs!OneWriter` | `Spec => []FolderHasOneWriter` |
| `RowProofs!NeverExhausted` | `Spec => []NoExhaustedRow` |
| `RowProofs!QuotaBounded` | `Spec => []QuotaOvershoot` |
| `RowProofs!SizeBounded` | `Spec => []SizeOvershoot` |
| `BlobProofs!NoPublishedGarbage` | `Spec => []PublishedBlobsHaveRow` |
| `BlobProofs!TableAndStoreAgree` | with no fault but lost answers: `Spec => []TableMatchesStore` |
| `BlobProofs!ServedIsWhole` | without alias reuse: `Spec => []ServedWhole` |
| `RefinementProofs!NothingChargedInVain` | without alias reuse and lost answers: `Spec => []NoChargeWithoutService` |
| `RefinementProofs!ServiceImplementsSharing` | without alias reuse and lost answers: `Spec => Implements` |
| `RateLimiterProofs!LimiterTypeCorrect` | `Spec => []TypeOK` |
| `RateLimiterProofs!BlockBound` | `Spec => BlockHolds` |
| `RateLimiterProofs!WindowBound` | with `Block >= Window`: `Spec => []WindowHolds` |
| `ServerProofs!RequestsTyped` | `Spec => []TypeOK` |
| `ServerProofs!FilesAreGuarded` | `Spec => []OwnerOrAdmin` |
| `ServerProofs!LogoutIsFinal` | `Spec => []LoggedOutIsRefused` |
| `ServerProofs!AnswersHaveReason` | `Spec => []EmptyAnswerHasReason` |
| `ServerProofs!ServedWhenReady` | `Spec => []ServedOnlyWhenReady` |
| `ListingProofs!ListingTyped` | `Spec => []TypeOK` |
| `ListingProofs!TotalsAreFollowed` | `Spec => []PageFollowsTotal` |
| `ListingProofs!ListedFilesWereLive` | `Spec => []ListedWereSeen` |
| `ListingProofs!LimitsAreEnforced` | with `MaxFilesSizeForUser <= MaxFilesSizeForVip`: `Spec => []ReportedLimitsAreEnforced` |
| `UploadProofs!NumbersAreRead` | `Spec => []DownloadsAsWritten` |
| `UploadProofs!LettersOfAliasAreFresh` | `Spec => []LettersAreFresh` |

The conditions are there because the statements need them:

* `~AliasReuse`, `"lost" \notin Faults`: TLC finds both `ServedWhole` and
  `NoChargeWithoutService` violated when an alias may be drawn again (a download works on
  by alias while the file behind it changes), and the latter with a lost answer, which
  charges a download the client is told it did not get.
* `Faults \subseteq {"lost"}`: finding 2 is `TableMatchesStore` violated by a disconnect. A
  lost answer does no harm to it, nor does an alias that is drawn twice, in the same
  spelling or another.
* `Block >= Window`: see below.
* `MaxFilesSizeForUser <= MaxFilesSizeForVip` (500 MB and 2 GB, `config/dev.yaml:43`;
  `config.go` does not insist on it): a user who is also a VIP is checked against both
  limits and shown the second.

The invariants of `ExpireShare` build on each other, each inductive given the ones
before:

* `TypeInv`: `TypeOK`, what the local variables of a goroutine hold at each step,
  and `IdsBounded`, that ids given out and INSERTs under way fit into `FileId`.
  Without the last a new row could have an id outside of its type.
* `LockInv`: a goroutine holds the lock of its alias exactly while it is between
  its first write and its commit and is not cut; the worker holds those of the
  batch. Hence two writers of a folder would be two holders of a lock.
* `PendInv`: what the holder has made of the row: a new row with the upload's id,
  the old row with a counter above 0, or none. Hence a commit never publishes
  a row with 0 downloads left.
* `WithinQuota`: the rows of a user and the uploads of the user that were let through are
  counted together. An upload is admitted only while the rows alone are below the cap,
  when at most all other requests are already on their way; a commit moves one from the
  second set to the first, and every other step shrinks one of them. `StepMoves` states
  this of every action once, for the files and for their sizes.
* `SizeInv`: the same for bytes. The sizes of a user's rows and of the uploads on their way
  are summed; at an admission what is stored and what is sent are together no larger than
  the largest upload, and so is each of the others that are on their way (`AllFit`). The
  sums are those of `MapThenSumSet`, a fold that takes the elements of its set in an order
  only `CHOOSE` knows. A row that comes or goes changes that order, so the proof needs
  that the sum does not depend on it: any element may be taken out first (`SumRemoves`),
  since there is no smallest set for which this fails (`SmallestSet`). From it follow `TotalAdds`,
  `TotalGrows` and `TotalBounded`, facts about finite sums that know nothing of this
  system.
* `BlobInv`: the id of an upload under way is fresh, that is, unpublished, in no other
  folder and not the id of another upload (`FreshId`); a blob is in one folder only
  (`OneFolder`); rows and `mislaid` are published (`RowsPublished`); a removal that reached
  its commit has emptied the folder of its own spelling (`HolderEmptied`), and the worker,
  which takes the spelling from the row, that of each alias of its batch that is done
  (`WorkerEmptied`). A commit that publishes then finds nothing published in the folder but
  what was mislaid there (an upload needs the alias to have no row), and one that forgets a
  row finds the row's folder empty, or mislays the file. That a cut request may still
  remove or create blobs does no harm: removing is always safe, and what a cut upload
  creates has an id that is never published.
* `MatchInv`: how far the holder of an alias has come, in folders and row, `mislaid` left
  aside (`Kept`): nothing in the folders before `createFile`, then exactly the upload's
  blob in the one of its spelling; a removal leaves the row's blob until `Delete` and,
  after it, nothing or, in another spelling, still that (`Left`), which the commit mislays.
  With clients that stay and statements that work nothing is rolled back once the folder
  was touched, so an alias that is let go has folders that fit its row.
* `ServedInv`: an alias belongs to one upload. Until that upload is over nobody else
  works on the alias; afterwards it is *settled*: whatever its folders still hold is
  whole and published, so a download that opens it opens such a blob, and while the row is
  there it is the row's (`Holding`), which is what lets the refinement say that a download
  serves the file whose counter it writes.
* `TermsInv`: a row keeps owner and expiry of what was published, and counter plus
  downloads handed out cover the promise. A counter written from a stale read is
  above what it should be, never below: what the download read, plus what had been
  handed out by then, covered the promise, and only the latter has grown since. A
  last download has read a counter of 1 and so takes the file away only when all were
  handed out; a deletion is of a file it was granted for; the worker's rows are expired.

With these each step of `ExpireShare` maps to a step of `FileSharing` or to a stutter:
commits that publish to `Publish`, commits of decrements to `Serve`,
last commits to `ServeLast`, deletions to `Ask` and `Withdraw`, a sweep's commit to
`Expire` of its whole batch, and every other step changes nothing `FileSharing` sees.

For the limiter, `KeyInv` says that a counter is above 0 only with a TTL running and
`HeldInv` relates it to the history: a refused address has a counter over the limit for
at least as long as it is owed a block, and a running window has granted no more than
the counter says, which does not go away before the window does. The second half is
where `Block >= Window` is needed: a block that replaces the rest of a window must not
be shorter than it.

`Server` has one invariant, `ServerInv`. Its heart is what a request on its way is known
to be, `ChainOK` and `DoneOK`:

* behind `NewAuth` the claims are those of the token's holder (`Identified`), which never
  changes once a token is issued, and an administrator in the claims is one in `admins`;
  so is the holder when the service is asked, whatever happened to the role since;
* a route of files has only `auth` in front of its handler, so its handler runs only
  after a validation that came after the request did; a token in `goodbye` is revoked, a
  revoked token stays so, and the validation then refuses it. `goodbye` grows only by
  logouts that were carried out: a call that was refused or did not reach the service is
  never reported as a success (`Refusals`);
* nothing is behind `adminAuth` of the admin file routes unless the secret was right;
* an answer is empty only where the handler of a logout succeeded, a call was left
  unanswered, or the client is gone: an error with a name has a code in the tables
  (`Failure`, `AuthFailure`), and one without is in `Unanswered`. A request whose call was
  left unanswered is over, and had done nothing before it, since each handler makes
  one call. `PhaseInv` says when connections are open while requests are under way.

What a step of one request does to the others is one lemma, `StaysServed`: it may issue,
rotate and revoke tokens and change roles and files, but not turn a revoked token good,
nor hand a token to another user (`TokensKept`). Each middleware and handler then only
has to leave its own request in order.

`ListingInv` relates what a request has counted to the table *now*: while it is between
COUNT and SELECT, the live files of its user are among those it has seen, and their number
differs from the total by at most `changed`. The length of a page follows the number of
files without stretching a difference (`LengthsNear`), and `Wrap` is the identity where the
offset fits (`Offsets`). That the sum of the sizes is a number (`SumIsNat`) is an induction
over the set of rows. It is carried out without the induction theorems of the library, by
a least counterexample (`Smallest`): first that the fold of `MapThenSumSet` is defined on
every subset (`FoldExists`), then that its values are numbers (`FoldIsNat`).

`UploadInv` says that a parsed request is that of its form; the rest is a case distinction.
For the alias, `AliasInv` says that the letters so far are the usable ones among the
chunks taken (`Taken`, `Matches`), and that `cache` is the last word shifted right by as
many chunks as were taken from it. A round then takes the next chunk (`TakeChunk`), since
shifting twice is shifting by the sum (`ShiftTwice`, from the uniqueness of quotients). The
powers of two are a recursive function, `Pow2`; that its equation holds for every number is
proved by least counterexamples too (`Pow2Step`).

Model-checked only: the liveness properties `ExpiredCollected`, `RequestsReturn`,
`QuietIsUnblocked` and `SignalEndsProcess`, since fairness is stated with `ENABLED`, which
the prover does not support. The value of a ttl, a fold over the parts of a duration, is no
property of a run.

## Not modelled

* Configuration (`config.go`): read once at start, its parameters are the constants
  here, with their defaults as assumptions.
* The size parser (`lib/sizes`): it turns two strings of the configuration into numbers
  at start; `ToFormattedString` is used by its test only.
* Migrations and their command: the schema is in `Domain!Row` and in the uniqueness of
  aliases; the command runs before the program.
* Logging, request ids, CORS, chi's recovery from panics, and the deadlines of
  `NewTimeoutLimiter`, which end a connection as a client that leaves does.
* The bodies of responses: an answer is its status code, so that a download whose copy
  breaks half way is a 200 here.
* Open descriptors (`local/files.go:85`), and the difference between the clock of the
  program and the database's beyond a constant one.
* The auth-service itself, beyond what its clients observe.
* Mocks, test helpers, generated API documents.

## Plan

What is left, in order of what it would add:

1. A run of `ExpireShare` with passwords, and one with four files and a cap of two, in
   which what is stored and what is sent share the bytes of a quota.
2. A worker with a folder that can never be removed, once it is settled what the sweep
   should promise about the other files.
3. The bytes of a response, so that a download whose copy breaks is told apart from one
   that is complete.
