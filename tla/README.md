# A TLA+ verification of the Hubei Telecom IPTV gateway

The gateway logs in to an IPTV portal, keeps its channel list and programme
guide, and serves them to players: playlists, XMLTV, and catch-up playback
through an RTSP redirect server or an HTTP stream. This directory models the
parts of it that run concurrently, fail, or compute something easy to get
wrong; checks them with TLC on small instances; and proves with TLAPS what
matters most for every size. File and line references are to the sources of
the repository.

## 1. The system

| component | source | state it keeps | operations |
|---|---|---|---|
| portal session | auth.go, gateway.go, portal.go | `authStatus`, `lastLogin`, `epgBaseURL` (under `mu`), `loginMu`, state key `epg_base` | `login`, `ensureLogin`, `loginAfterRejectedSession`, `request` |
| portal protocol | auth.go, portal.go | one `epgDiscovery` per login | `loginLocked`'s pages, `initEPGSession`, `epgDiscovery` |
| refresh task, scheduler | epg.go, http.go | `refreshState`, `refreshMu`, `lastRefreshError`, state key `last_refresh_unix` | `refreshAsync`, `refresh`, `refreshLocked`, `scheduler` |
| fetch pool | epg.go | channels `jobs`, `results`, a WaitGroup | feed, fetch, collect |
| store | cache.go | buckets channels, programs, state, logs | `saveSnapshot`, `findProgram`, `updatePlayURL`, `stateSet`, `addCatchupLog` |
| catch-up resolution | catchup.go, epg.go | `PlayURL` of each programme | `resolveFinalCatchup`, `resolveCatchupPlayURL`, `resolvePlayURL` |
| redirect chain | rtsp.go | local | `resolveRTSPChain` |
| RTSP redirect server | rtsp.go | listener, WaitGroup, connections | `Start`, `handle`, `Close` |
| stream | stream.go | `tsSem`, one packet channel per request | `streamTS` |
| HTTP server, process | http.go, main.go | handlers, `ctx` | `runHTTP`, `main` |
| channel list | portal.go, util.go, output.go, cache.go | `channels` in memory and in the store | `parseChannelConfigs`, `sortChannels`, `uniqueChannelDisplayNames`, `ku9M3U`, `rtp2M3U` |
| configuration | config.go | none | `stripJSONComments`, `loadConfig` |
| other output | output.go, http.go | none | DIYP, XMLTV, status page |

How they interact:

- The refresh task logs in through `login()` and fetches the guide through
  `request()`, as does every TVOD lookup. All of them meet at `loginMu`.
- The refresh replaces the whole programme table in one transaction and
  numbers it anew; catch-up requests copy a programme out of that table, do
  slow network calls, and write a play URL back by number.
- The channels served come from memory (`g.channels`), the programmes from the
  store: two copies of one snapshot, written one after the other.
- RTSP handlers and streams both run the catch-up resolution, which runs the
  redirect chain, up to twice.
- `main` stops the parties in an order on which the store's life depends.

What is hard here: a session shared by callers that read it without the lock
and act on it later; identity by position across a refresh; three writes that
are not one; a gate and a mutex around the same task; a callback that blocks
the library that calls it; deferred calls whose order avoids a deadlock; one
deadline for a conversation of unknown length; times on an unknown clock; a
login of thirteen requests under one lock, through pages that lead where the
platform likes; and a list that is sorted, stored by ID, and sorted again.
PROJECT.json lists these under "hazards" line by line.

## 2. The modules

| module | models | composed with |
|---|---|---|
| `Session` | the portal session | |
| `Login` | the pages of one login, `epgDiscovery` | implements `Session` |
| `Refresh` | gate, refresh, scheduler, the three writes, crashes | implements `Guide`; abstracts the session and the pool to one outcome each |
| `Guide` | what readers of the guide are promised | |
| `FetchPool` | feeder, workers, channels, cancellation | implements `FetchAll` |
| `FetchAll` | what the pool promises | |
| `Catchup` | requests against the programme table | a refresh is one step of it |
| `CatchupWindow` | programme and time range of a request | |
| `Stream` | `/catchup.ts` | |
| `RedirectChain` | `resolveRTSPChain` | |
| `Server` | life of the process and the RTSP server | |
| `Lineup` | the channel list from the portal to the playlist, and after a restart | |
| `CatchupLog` | the log of catch-up requests and its trimming | |
| `JSONComments` | `stripJSONComments` | |
| `MCSession`, `MCCatchup` | symmetry for the runs | |
| `MCSequential` | one run for the parts that run alone | `CatchupWindow`, `RedirectChain`, `Lineup`, `CatchupLog`, `JSONComments` |
| `SequentialProofs` | theorems and proofs about the parts that run alone | the five modules of `MCSequential` |
| `*Proofs` otherwise | theorems and proofs of the module named | |

Each action is one handler step between two points at which another goroutine
could be seen: a lock and what is done under it first are one action when only
the lock's owner writes what is read; a transaction of the store is one action;
a rendezvous of an unbuffered channel is one action of both sides. Waiting for
the network separates actions. Operators named "Mutation of ..." in the comment
before them are not used by any specification: they are plausible slips of the
code, and each property is known to fail when one of them takes the place of
the real action.

**Session.** `pc` follows `request()`: `ensure`, `lockEnsure` (`ensureLogin`),
`observe` (the read of `observedLogin`), `send`, `lockReject`
(`loginAfterRejectedSession`), `retry`; `login` and `persist` are
`loginLocked`, entered from any of the three callers with `loginMu`. The pages
of a login are abstracted to success with some base or failure. The clock
advances with each login, because a login takes round trips, so `lastLogin`
orders them. A restart keeps only `savedBase`.

**Login.** `pc` follows `loginLocked` and `initEPGSession`: `loginPage`,
`userToken`, the loop `walk`, `easip`, then one point per page of the EPG.
`d` is the `epgDiscovery`, `hops` the loop counter. A page answers with any
location or none and was answered at any final URL; a page without a location
is asked again, as the code does. The end of the walk is one action:
`nextAuthURL` finding an entry, the limit, or `EPGDomain`. The variables named
as in `Session` mean the same, and `ImplementsSession` maps every point inside
a login to `Session`'s `login`: a login that fails at any page, or dies in it,
is invisible but for the status.

**Refresh.** `pc` follows `refreshLocked` from the gate (`lock`) through
`login`, `fetch`, `save`, `publish`, `stamp`, `clear` to `finish`, and `report`
for the error written after the gate is open. `stored` is the bolt snapshot,
`channels` the copy in memory, `age` the age of the stamp up to the point where
the guide is due. A refresh reports how many programmes it fetched (`raw`) and
how many distinct keys they have (`distinct`). A lineup stands for a channel
list with distinct IDs. `outcome` and `overtaken` are history: how the last
refresh that was due ended, and whether an older one had yet to report its
error when it succeeded.

**Guide.** One refresher without tasks, gate, locks, timers or errors: an
attempt begins, may replace the snapshot once if it was forced or the guide is
due, then shows it, then stamps it, and is over; a restart cuts it short and
shows what is stored. `Refresh` implements it with the attempt read off the
holder of `refreshMu` (`Stage`): that is what the other components rely on when
they take a refresh as one step (`SaveSnapshot` of `Catchup`), and it says what
the separate properties do not: that an attempt writes one snapshot, in this
order, and nothing else ever writes one.

**FetchPool and FetchAll.** Jobs are numbers; `got` counts how often each
result was appended. `FetchAll` promises that the refresh goes on only with
every result counted exactly once, or, cancelled, with at most one missing for
each worker.

**Catchup.** A programme is its key; `ids` and `urls` are the columns of the
table that matter. URLs carry what they were obtained for and by which lookup,
so that a wrong or old one can be told. `crossed` remembers that a request
which found its programme in an older snapshot has written its URL into this
one; the next snapshot has no URLs and starts clean. `tainted` remembers that a
request copied its URL out of a crossed table. What a request does not read
again is cleared: `resolveCatchupPlayURL` has returned, or the request is over.

**CatchupWindow.** The request's times on a clock of `MaxTime + 1` moments; a
UTC reading is `Offset` later than the local one. `turn` is the reading of the
start `resolveCatchupPlayURL` tries, `cursor` the programme `findProgram` reads
next, `best` its best so far: `Scan` is one turn of the loop, `TryNext` a
reading given up, `Resolve` and `Refuse` the two answers. The properties state
over the whole guide what must come out.

**Stream.** `pc` follows `streamTS`, with the deferred calls as steps of their
own in their real order; `callback` is the RTSP library's reader in the packet
callback, which `Close` has to wait for. Packets are numbered as they reach the
callback. One that the RTP decoder refuses is forgotten there (`Undecodable`,
stream.go:78-81); `decoded` is the history of the others.

**RedirectChain.** One resolution; every DESCRIBE may redirect anywhere, answer,
or fail, the same URL not always the same way.

**Lineup.** `parsed` is what `parseChannelConfigs` has taken, entry by entry,
`channels` and `bucket` the two copies the gateway keeps, `Offered` the
channels a portal may list. `sort.Slice` is not
stable and neither comparator is total, so `PortalOrders` and `ServedOrders`
allow every permutation in which no neighbours are the wrong way round, which
is what its insertion sort of a short list guarantees; where every channel has
a number the comparators are orders, and a list of any length is sorted like
that. `Names`, `Rank` and `GroupRank` are the names there are, their place in
the order of strings and the place of the group guessed from them. A name is a
sequence, so that "name [2]" can be the name of another channel, in which
`Blank` is white space: a name is sorted and compared as it is, but listed and
counted as it is trimmed (`Called`), and not listed under any name if nothing is
left of it. An index is a record of what the code asks of it: its number, which
`strconv.Atoi` does not find in a padded one; its trimmed text; and its place in
the order of strings.

**CatchupLog.** `log` holds the sequence numbers in the bucket. `sees` chooses
what `Bucket.Stats` counts inside a write transaction: the pages, which have
only what is committed (bbolt), or the transaction's own writes too. What holds
is stated for both.

**JSONComments.** The pass over the bytes, one action per branch. The author
first writes the file, any bytes in any order; `context` records as history
what each byte is in, by a lexical automaton that looks at one byte at a time
and knows neither `inString` nor the two bytes the pass looks at. What should
remain is stated with `context` alone.

**Server.** `main` from `Start` to `CloseStore`, the acceptor, the handlers with
what is left of their deadline, HTTP handlers that may never end, the client
that leaves. A request is read in two steps, its line and its header, each of
which can be malformed: a bad line is answered with 400, a bad header closes the
connection without a word (rtsp.go:165-168), which `malformed` records. `wg` is
the set of those counted in the WaitGroup.

## 3. What is checked

| run | configuration | distinct states | properties |
|---|---|---|---|
| session | 2 requests, 1 refresh, 2 bases, TTL 2, horizon 3 | 172,414 | BaseSaved, RetryOnNewSession, NoHealthySessionDropped, RequestsReturn |
| refresh | 2 manual refreshes and the scheduler, 3 programmes, 1 restart | 142,953 | OneRefresh, MemoryIsStored, StatusErrorHonest, GuideProtected, FreshGuideKept, StaleGuideTried, ImplementsGuide |
| fetch_pool | 4 jobs, 3 workers | 8,678 | NoSendOnClosed, PromiseKept, FetchEnds |
| catchup | 2 requests, 2 programmes, 2 lookups, 2 refreshes | 705,612 | UrlsBelong, AnswersBelong, FallbackIsFresh, RequestEnds |
| stream | 3 streams, 1 slot, channel of 1, 3 packets | 57,184 | SlotsHeld, SessionsBounded, Answered, DecodedDelivered, SlotFreed |
| server | 2 connections, 1 HTTP request, deadline 2 | 185,508 | StoreOutlivesHandlers, Answered, Exits |
| login | 2 logins, 4 pages of which 2 entries, 1 EPGDomain, 2 bases, 4 hops, horizon 2 | 128,224 | FirstEntryTaken, RequestsBounded, ImplementsSession, LoginsReturn |
| sequential | times 0..4, offset 2, guides of up to 2 programmes; 5 URLs, 3 redirects; up to 3 channels of 3 IDs, one of them with 2 addresses, 5 names of which one padded and one blank, indexes "", " 1", "1", "3"; log sizes 0..3, 7 entries; files of up to 6 bytes | 1,641,593 | NearestProgram, ClockRespected, ForwardRange, TimeshiftHolds; AskedOnce, AnswerConfirmed; RestartKeepsList, NamesTell; LogIsRecent; OnlyCommentsGo |

No run states a type invariant: those of all modules with theorems are proved
(section 4).

Four runs show where the code does not do what the repository says:

- **session_relogin** (`RetryAfterRelogin`): `observedLogin` is read before the
  request is sent (portal.go:105). A login between the two makes the gateway
  retry under the session that was just rejected, without logging in; the
  README promises a login before the retry. What does hold, and is proved, is
  `RetryOnNewSession`: the retry is under a login newer than the one observed.
- **refresh_half** (`GuideHalfKept`): the protection against a shrinking guide
  counts fetched programmes with their duplicates against distinct stored ones
  (epg.go:324). What holds, and is proved, is `GuideProtected`: the fetched
  count is at least half of the stored one, and no guide becomes empty.
- **catchup_served** (`ServedAsListed`): a play URL written back by positional
  number after a refresh goes to another programme (cache.go:182), and the next
  viewer of that one gets the wrong recording. What holds, and is proved, is how
  far that goes: until the next refresh (`UrlsBelong`), for those who copy a
  URL out of that table (`AnswersBelong`), and never in the fallback round
  (`FallbackIsFresh`).
- **log_emptied** (`NewestKept`): the loop that trims the catch-up log asks
  `b.Stats().KeyN` inside the transaction that deletes (cache.go:258). bbolt
  counts pages, which change with the commit, so once the log is one too long
  the next request empties it and is not in it itself. What holds under either
  reading is `LogIsRecent`: whatever is shown are the latest requests, newest
  first, without a gap.

**Bounds.** Two requests are enough for every race of `Session`, since a race
for `loginMu` is between the one that logs in and one that waits, and the
refresh is the third party; the clock ticks to 3 and a session lives 2, so
that of the first login, at 1, expires at 3 under the requests then on their
way, which log in anew. Two manual refreshes and the scheduler give an old error
report, a running refresh and a refused one at a time; three programmes give
both sides of the halving, with and without duplicates. Three workers and four
jobs let one worker take a second job while the others are cancelled. Two
programmes give every renumbering: swapped, dropped, kept; the first of two
refreshes lets a URL be written across it, the second ends that. A
channel of one with three packets is full, drained and full again, with any of
the packets undecodable; of three streams for one slot two wait while one ends. Five URLs
exceed the four a chain of three redirects can ask. In the window model the
offset (2) exceeds the tolerance (1), so both readings of a start can match
different programmes, and the window (2) is shorter than the clock.
Two entries, two other pages and four hops let a walk circle, come back
to a page, meet both entries in either order, find one on its last hop, and end
with none; two callers let one wait through the whole login of the other. Three
channels have every pair and a third to sort around it: repeated entries, one ID
twice, one name three times or with and without a blank, a name that reads like
another with its index, blank names, and an index without a number among
others. Seven entries exceed the largest log twice. Six bytes hold a
whole block comment with a byte on either side, a comment's bytes inside a
string, an escaped quote, and every way a file can end inside something.
`Horizon`, `MaxCalls`, `MaxRefreshes`, `MaxRestarts`, `MaxPackets`,
`MaxPrograms`, `MaxTime`, `MaxListed`, `MaxChannels`, `MaxAdded` and `MaxLength`
are bounds of the models only.

**Fairness.** Steps of a goroutine that is not blocked are weakly fair: Go
schedules it, and every network call has a timeout. Waiting for `loginMu` (in
`Session` and `Login`) or a slot is strongly fair: a mutex in starvation mode
and a channel's wait queue serve waiters in turn. Among the ready cases of a `select` each is taken
eventually once its client has left (strong fairness on the exit of `Stream`'s
loop then, and only then: a stream to a client that stays may go on for ever).
Time passes. Nothing obliges a client to call, to stay or to leave, an HTTP
handler to end, or a process to restart. `CHECK_DEADLOCK FALSE` stands where the
system really stops: a process that has exited, a chain or a request that is
answered, a pass that has reached the end of its file, a list that has been
reloaded, and a fetch pool that is done, or cancelled: its feeder may then wait
for ever (hazard epg.go:300), which `FetchEnds` allows in one state only,
`Abandoned`: every worker has returned with a job it did not fetch.

## 4. What is proved

Every theorem holds for all values of the constants under the module's named
assumption (disjoint sets, positive times), for any finite or infinite set of
requests, tasks, workers, callers, URLs, pages or connections; only the set of
streams is assumed finite, because slots are counted.

| module | theorems | the argument |
|---|---|---|
| `SessionProofs` | SpecTypeOK, SpecSessionComplete, SpecRetryOnNewSession, SpecBaseSaved, SpecNoHealthySessionDropped | Whoever is in `login` or `persist` owns `loginMu`, so at most one is; `lastLogin` never exceeds `now`, and a login that succeeds is later than anything observed. While `loginMu` is held the status is not OK until `persist`, so only an entry into `loginLocked` drops a session, and its guard names the cause. |
| `RefreshProofs` | SpecTypeOK, SpecOneRefresh, SpecStampVouches, SpecMemoryIsStored, SpecStatusErrorHonest, SpecGuideProtected, SpecFreshGuideKept, SpecImplementsGuide | The gate makes the working task unique, and `refreshMu` is held exactly between `login` and `clear`. From that, `stored` is what the one task saved until it is stamped; the count that passed the protection is still that of the store when it saves; and a fresh stamp cannot appear between the test and the save. The refinement adds what the portal can have brought (`Brought`) and maps `LockRefresh` to `Begin`, `Save` to `Replace`, `Publish` to `Show`, `Stamp` to `Vouch`, every way of releasing `refreshMu` to `End`, and what happens outside it to a stutter. |
| `FetchPoolProofs` | SpecTypeOK, SpecNoSendOnClosed, SpecOneHolder, SpecPromiseKept | Jobs below `next` are delivered, held by exactly one worker or lost with a worker that quit; all workers have stopped before `results` closes. The refinement maps `Send` to `Deliver`, `Collected` to `GoOn`, everything else to a stutter. |
| `CatchupProofs` | SpecTypeOK, SpecUrlsBelong, SpecAnswersBelong, SpecFallbackIsFresh | A request that is not `stale` has the number its key has in the table, and numbers are unique, so its write reaches its own programme; one whose URL is `tainted` is `stale` or writes into a table that is already crossed; a refresh leaves neither. A lookup's number exceeds that of every URL before it, so a forced one is new, and it is made for the programme asked for. |
| `SequentialProofs`, chain | SpecChainInv, SpecChainTypeOK, SpecAskedOnce, SpecAnswerConfirmed, SpecHopsComplete | `seen` is exactly what was asked, `asked` and `hops` grow in step with the loop counter, and the URL of a chain at `describe` is the last one asked. |
| log | SpecLogInv, SpecLogIsRecent | The log is the end of the numbers given out: entry `n` is `added - Len(log) + n`. Trimming takes from the front, or takes all. |
| window | SpecWindowInv, SpecNearestProgram, SpecClockRespected, SpecForwardRange, SpecTimeshiftHolds | Readings before `turn` match no programme; `best` is the nearest match among the programmes before `cursor`, or none of them matches; an answer is what `Resolve` makes of the two, so what is said of the range is arithmetic on it. |
| comments | SpecStripInv, SpecOnlyCommentsGo | Between two bytes the flags agree with the automaton, and what is copied are the bytes before `pos` outside comments. The two inner loops jump: that a comment lasts all the way (`LineRuns`, `BlockRuns`) is shown for the least byte that would break it. |
| channel list | SpecLineupInv, SpecRestartKeepsList, SpecNamesTell | An arrangement has the elements of its list; stored and loaded, each ID keeps one of its channels. For an orderly list `ServedBefore` is a strict total order, so that neighbours in order are all in order (`EachBeforeLater`), and two lists of the same elements in order are one (`OneOrder`). Two display names that are equal end in the same index or in none: the first case makes the trimmed names equal, which `TellApart` rules out, the second is `Clash`. |
| `LoginProofs` | SpecInv, SpecTypeOK, SpecFirstEntryTaken, SpecRequestsBounded, SpecImplementsSession | Whoever is past `Enter` owns `loginMu`, so there is one walk; `asked` is fixed by the point of the login and its hops; an entry that is in `d.easip` during the walk is the first that was named, and one in `d.next` alone can only be there before the first hop. Each action maps to the action of `Session` it is part of, or to a stutter: `Fail` to `LoginFails`, `Publish` to `LoginSucceeds`, all pages to stutters. |
| `StreamProofs` | SpecInv, SpecTypeOK, SpecSlotsHeld, SpecSessionsBounded, SpecAnswered, SpecDecodedDelivered | The slot count is the cardinality of the set of holders, which each action leaves alone or changes by one element; a session is open only at points of a holder, so sessions are no more than slots. `DecodedDelivered` is inductive once a request that is over has left nothing behind (`Clean`): each action moves one packet across a seam between two of the four sequences, and concatenation is associative. |
| `ServerProofs` | SpecInv, SpecTypeOK, SpecStoreOutlivesHandlers, SpecWaitIsFinal, SpecAnswered | A handler is counted from before it starts until after it ends, and the acceptor is counted while it can add one: an empty WaitGroup stays empty. For `Answered`, a handler past its request has one unanswered only if the answer could not be sent or its header was malformed. |

The stated invariants are not inductive as they stand: each proofs module
defines the strengthening (`IInv` and its parts), with a lemma that the initial
states satisfy it and one that every action preserves it.

`SequentialProofs` needs induction over the length of a list, a text or a log.
The library's induction theorems take an operator as a parameter, which the
provers cannot instantiate; `Least` and `SetInduction` say the same of sets of
naturals, from the well-foundedness of `<` on the naturals and the existence of
minimal elements, and that is enough.

All safety properties of the passing runs are proved. Only model-checked: all
liveness (`RequestsReturn`, `StaleGuideTried`, `FetchEnds`, `RequestEnds`,
`SlotFreed`, `Exits`, `LoginsReturn`), because TLAPS does not reason about
fairness and ENABLED here; and the four violations.

## 5. What is not modelled, and why

- DES, PKCS7 and the regular expressions of the portal pages: pure conversions;
  `Login` takes what they find, or that they find nothing, as a choice.
- DIYP, XMLTV, the URLs in a playlist, the status page: formatting of what the
  stores hold.
- Configuration defaults and environment variables: one assignment per field.
- Build files.
- What the portal, TVOD and RTSP servers do: outside, hence any answer.
- The data race on `lastRefreshError` as such: the write is one step.

## 6. Plan

1. Done: the core (session, refresh, pool, catch-up, stream, chain, server)
   with its runs and proofs; the pages of a login and their refinement of
   `Session`; the channel list, the catch-up log and the comments of the
   configuration; the proofs about `Stream` and about the parts that run alone.
2. Done: `Guide`, which `Refresh` implements, and how far a play URL written
   across a refresh can reach in `Catchup`.
3. An abstract specification of a stream (a slot, then a lossless pipe) that
   `Stream` implements, and of a shutdown for `Server`.
