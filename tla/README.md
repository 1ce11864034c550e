# Celeste, specified

Celeste is an iOS application for two persons, Lauren and Antonio.  They share a
calendar and give each other coupons; both are documents in Cloud Firestore, which
each phone reaches through the client library that is vendored under
`src/Celeste/Pods/FirebaseFirestore`.  The application has no server code and its
test targets are empty templates, so what its screens promise rests on the order in
which touches, blocks of the main queue, timers, animations, the client's worker queue
and the server happen to act.  This project models that.

## Inventory

Paths are relative to `src/Celeste/Celeste`, except those of the client (Pods).

| Part | State | Operations | What is hard |
|---|---|---|---|
| Coupon screens: `CouponsViewController`, `GiftCouponViewController`, `CouponsCollectionCell`, `CouponServices` | the carousel's coupons (a placeholder at first), what is presented, spinner views, one-second timers | open, redeem, gift, close, swipe, completions of fetch, redeem and gift | completions arrive in any state of the screen, or after it is gone; alerts are dropped when something is presented; the spinner is added by a posted block and removed only after an answer |
| Firestore client, writes and reads (Pods): `sync_engine`, `local_store`, `event_manager`, `query_listener`, ... | persistent mutation queue and document cache; in memory: handlers, listeners, targets | write, get documents, acknowledge, reject, snapshot, online state, restart | lost answers, resent writes, late snapshots, answers from the cache, processes that die with writes queued |
| Firestore client, connection (Pods): `remote_store`, `stream`, `watch_stream`, `write_stream`, `online_state_tracker` | two streams with tokens, backoff and idle timers; the write pipeline; the handshake; the online state and its timeout | listen, stop listening, write; token, open, message, answer, refusal, close; timers; new credentials | a stream stopped while its token is fetched, answers matched by position, work that comes while a stream idles, backs off or starts, a timeout cancelled and not set again |
| Calendar: `OurCalendarViewController`, `AddCalendarEventViewController`, `CalendarServices` | the events, the selected dates, the table that joins them, the action sheet's event | fetch, add for every selected date, delete | success is completed before any write was seen, each refusal completes again, the sheet is gone by then |
| Calendar cells: `OurCalendarCell`, `configure(cell:for:at:)` | what each cell on screen shows | select, deselect, drag, change scope, reload | boundaries of runs and of months; cells configured at different times; midnight |
| Navigation: `LaunchScreen`, `WhoThis`, `OTP`, `Main`, `Home` controllers and views | the stack of presented controllers, the passcode field, animations under way, `alpha` and `isHidden` of controls, the unit of the date counter | choose person, type, submit, back, lock, next, section, close | animations that complete twice, touches during animations, presenting on what has been dismissed, overlapping fades |
| Shared helpers: `Utilities/Extensions.swift` | `isHidden` and `alpha` of views | fade in, fade out, spinner, alert | overlapping fades, dropped alerts |
| Press effects: `Components/Protocol` | highlight overlay, transform | press, release | a control takes no touch while it is animated |
| Photo gallery, views, components, fonts, colours, delegates | none of their own | layout | nothing |

The parts meet as follows.  Screens call the two services, which call the client; the
client writes to its disk at once and answers later by a block posted to the main queue,
in the order of its worker queue.  A screen holds no lock and no copy of a document other
than what it shows.  The add and gift sheets tell their screens through weak delegates.
Handlers capture their controllers weakly, so a handler can outlive its screen and then
does nothing.  The two phones meet only in the server.

## Modules

| Module | Contents |
|---|---|
| `Firestore` | the server's documents and, per device, the client: mutation queue, cache, targets, listeners, watch stream, connection, the blocks posted to the main queue; one action per handler of the worker queue |
| `Coupons` | the two coupon screens and `CouponServices` on every device, over `Firestore`; the next-state relation, fairness and properties |
| `CouponLedger` | what the coupons promise with devices and networks left out: a phone gives a coupon until it knows that it was heard, which gives back what has been redeemed meanwhile; after that the coupon is redeemed at most once and for ever; what is told has happened |
| `Calendar` | the calendar screen, its add sheet and action sheet and `CalendarServices` on every device, over `Firestore` |
| `CalendarLedger` | what the calendar promises: only what was proposed is added, only what was condemned is removed; what is removed comes back only while a phone is still adding it |
| `CalendarCells` | how selected dates are drawn, cell by cell, while pages come and go |
| `Navigation` | every touch, completion, presentation and dismissal from the launch screen to a section of home, with the durations of the animations |
| `PasscodeGate` | what the passcode screen is for: nobody gets inside without typing the passcode since it was last asked for |
| `RemoteStore` | one device's streams, pipeline, handshake, credentials, timers and online state: the layer `Firestore` abstracts from |
| `WriteDelivery` | what becomes of the writes of a device, with streams left out |
| `MCCoupons`, `MCCalendar`, `MCCalendarCells`, `MCNavigation`, `MCRemoteStore` | instances for TLC |
| `FirestoreProofs` | lemmas about the client that both applications' proofs rest on: queues, local views, and what each event does to queue, cache, streams and posted blocks |
| `CouponsProofs`, `CouponsLedgerProofs` | type correctness; `NothingLost`, `ToldIsTrue`, the refinement of `CouponLedger`, `SpinnersAccounted` |
| `CalendarProofs` | type correctness |
| `CalendarCellsProofs` | type correctness, `RunsAreDrawn`, `CircleFollowsTap` |
| `NavigationProofs` | type correctness, the refinement of `PasscodeGate`, `NoDeadScreen`, `AsksLastTapped` |
| `RemoteStoreProofs` | type correctness, all safety properties of `RemoteStore` that hold and the refinement of `WriteDelivery` |

`Coupons` and `Calendar` extend `Firestore` with their screens; no run has both, since a
phone shows one of them at a time and they share no document.  `Navigation` ends where
those screens begin.

Operators commented "A fault" are not used by the specification.  Each is a wrong version
of the definition that follows it; with it in place, the property named for it in
`PROJECT.json` fails.  They document what each property is sensitive to.

### How the state corresponds to the code: Firestore and Coupons

* `mutationQueue[d]` is `LevelDbMutationQueue`; its first `MaxPendingWrites` elements are
  `RemoteStore::write_pipeline_`.  A queued write carries the completion handler that
  `SyncEngine::mutation_callbacks_` keeps for it in memory, so a kill replaces the handler
  by `NoCallback` and keeps the write.  `committed` says that the server has made the
  write although the answer has not come.  Between the two the connection or the process
  may fail; then the client sends the write again and the server makes it again (`Resent`),
  on top of what others have written meanwhile.
* `documentCache[d]` is `LevelDbRemoteDocumentCache`; a document that is not there has
  version 0.  What a screen sees is `LocalView`, the cache with the pending writes on top
  (`LocalDocumentsView::GetDocumentsMatchingCollectionQuery`).
* `listenTargets`, `listeners`: `getDocuments` listens until its first event
  (`Query::GetDocuments`, `ListenOnce`).  That event is the server's snapshot
  (`ApplyRemoteEvent`), the cache when the client takes itself to be offline
  (`HandleOnlineStateChange`), or an error (`HandleRejectedListen`).
* `configured[d]`: the client is created by its first use
  (`Firestore::EnsureClientConfigured`), so after a relaunch nothing queued is sent until
  somebody opens a screen that uses Firestore.
* `mainQueue[d]` holds the blocks posted to the main queue: results for handlers, and the
  blocks that add and remove spinner views.  Their order is the order of posting.
* `screen`, `loaded`, `coupons`: the person whose coupons are shown, whether the
  placeholder has been replaced, and what each cell offers.  A coupon is its name and
  whether it is redeemed; title and description are not modelled.
* `presented`: what UIKit presents on the coupon screen: nothing, an alert, the gift
  sheet, or the sheet with an alert.  `AlertOn` drops an alert when its controller
  presents something already; `dismiss` on the sheet takes away the sheet's alert if there
  is one (`GiftSucceeded`).
* `spinners`, `expiring`: spinner views on a view, and `asyncAfter` timers that will
  remove one.
* `requested`, `refused`, `told`, `confirmed`, `fetchFailed` are history for the
  properties; actions read only `requested`, to draw names that were never drawn.

Each action is a whole handler.  `RedeemTapped` is the touch with what `redeemCoupon` and
`CouponServices` do before they return: post the spinner, queue the write.
`RedeemCouponCompleted` is the completion with the fetch it starts and the timer it sets.

### Calendar

`calendarData` is what the last answer brought, `selectedDates` the selection of the
FSCalendar, `calendarEventsTableData` the rows of the table that joins them, `chosen` the
event that the action sheet captured.  An event is the name of its document and its date.
`SubmitTapped` queues one write for each selected date and completes at once, as
`postCalendarEvents` does; `PostAnswered` is the second completion, which a refusal makes.
`added` and `gone` are history of the open screen: what it has announced.

### CalendarCells

Dates are numbers.  `pages` are the pages of which cells are on screen (two while a finger
drags), `drawn` and `circled` what the cells show.  A cell is configured when it comes on
screen (`willDisplay`) and, with all others on screen, when a date is tapped
(`configureVisibleCells`); prefetching of cells is off in FSCalendar.

### Navigation

`front` is the number of the controller on top: each is presented on the one before.
`transition` is a presentation or a dismissal under way.  `animations` are those whose
completion has not run, each with what the completion does (`then`) and the ticks it has
left; a tick is 50 ms, of which all durations and delays are multiples.  `faded` and
`hidden` are the controls with `alpha` 0 and with `isHidden`.  `titles` says where a
transform has put a label, since an animation that changes nothing completes at once.
`tapped` and `typed` are history.

### RemoteStore

A stream is `Stream` with its subclass: `state` is the enumeration of the same name, without
the reset "Stop" passes through; `token` says that a token is being fetched, `stale` how many
tokens are being fetched for incarnations that have been closed since (`close_count_`),
`timers` the delayed operations, `sound` whether every `HARD_ASSERT` so far has held.
`online` is `OnlineStateTracker`.  `waiting` are the queries whose `getDocuments` has not
been called back.  `writePipeline` is `write_pipeline_`, `sent` what the open write stream
has carried without answer, `made` how many of these the server has made.  One action is
one block of the worker queue, with everything it calls: `OnWriteStreamMutationResult` is
the answer, the removal from the queue and the refill of the pipeline, which may send,
mark idle or start the stream.

### Assumptions about the surroundings

Server and network:

* The client sends its whole pipeline again on each new stream
  (`OnWriteStreamHandshakeComplete`, `remote_store.cc:408`), and the handshake of the stream
  deliberately leaves out the stream token (`write_stream.cc:63-75`).  So nothing lets the
  server know a write that it has made already, and it makes it again: a gift made again
  after the coupon was redeemed gives the coupon back, and an addition made again after the
  event was removed brings the event back.  The properties say what holds nevertheless.  A
  version counts the changes of a document, so that a coupon of version 3 or more is one
  whose gift was made again after its redeem (`GivenAgain`), and an event of version 3 or
  more is one that was added again after its removal (`BroughtBack`).  `SuccessLasts` is
  the promise that the resending breaks (see Findings).
* `MaxVersion` bounds how often a document changes in a run; in the proofs it is free.
* The word "givenBack" of `CouponLedger` is not the value of a document
  (`NoDocumentIsNotGivenBack`).
* A write that changes nothing keeps the version of its document.
* The server can refuse any write it has not made, and any query; it refuses an update of
  a document that does not exist.  The status of a refusal comes after the answers to all
  earlier writes of its stream have been read; other ways a stream ends are transient.
* Which targets a message of the watch stream completes is free in `RemoteStore`.
* Calls of a stream that is closed do not come back (`Stream` drops its `GrpcStream`).
* Limbo resolution is not modelled: a snapshot that needs it is one that arrives later.

Application and client:

* The application never disables the network, and nobody signs in, so new credentials keep
  the queue they find.  How often they change is bounded in each run and free in the proofs.
* A token is delivered asynchronously, even when nobody is signed in.
* A second fetch of a query that is listened to joins its listeners in `EventManager` and
  does not reach `RemoteStore`.

UIKit:

* A dismissed controller is deallocated at once in `Coupons` and `Calendar`, whose
  animations are instantaneous.  In `Navigation` transitions and animations take time, and a
  completion whose controller is gone does nothing.
* A person touches only what is on top, visible, not covered by a spinner and not being
  animated; up to `MaxBacklog` posted blocks can still be waiting when a touch is handled.
* In `Navigation` a touch takes no time between its beginning and its end.
* Presenting is refused by a controller that presents something already, and during a
  transition.  Hero takes 0.208 s to 0.375 s, five to eight ticks, with touches off.
* An animation of a view outside the window, or whose block changes nothing, completes at
  once.
* A field that was first responder when its screen was covered may or may not be so again.
* A process that is killed starts where `Init` does.

## Runs

| Run | Instance | Properties | What it shows |
|---|---|---|---|
| `two_phones` | 2 devices, one for each person, one coupon to give, 3 changes of it, one write and one fetch each, without screen history | `NothingLost`, `ToldIsTrue`, `LedgerSpec` | what is asked for is kept through kills, lost connections and closed screens, or undone by a gift that is made again; success is told only when true; the whole implements `CouponLedger`, in which a coupon is given back only while its giver does not know that it was heard |
| `given_back` | the same | `SuccessLasts` | a counterexample: a redeem that was told does not last |
| `one_phone` | 1 device, used by one person with two coupons waiting, or by both in turn with one coupon to give; 4 changes of a coupon, 2 writes and 2 fetches in flight, one block that touches overtake | `TypeOK`, `CarouselCatchesUp`, `CarouselExplained`, `SpinnersAccounted`, `CarouselNeverGoesBack` | a confirmed redeem is shown once the fetch after it is answered and is never taken back by an older answer; "Redeemed" is backed by the server, this phone's queue or a refusal that came later; each spinner has something left that removes it |
| `liveness` | 1 device, one coupon waiting and one unused name, fair | `RequestsSettle`, `SpinnersGo` | requests settle and spinners go |
| `alert` | 1 device | `FailureIsDisplayed` | a counterexample: a failed fetch whose alert is dropped |
| `calendar_two_phones` | 2 devices, one event, one date, 3 changes of it, one write and one fetch each, symmetric, without screen history | `NothingLost`, `LedgerSpec` | additions and removals are kept whatever fails, or undone by an addition that is made again; the whole implements `CalendarLedger`, in which an event comes back only while its phone does not know that it was heard |
| `calendar_one_phone` | 1 device, 2 events on one date, one there at first, 3 changes of each, 2 writes and 2 fetches in flight | `TypeOK`, `AddedIsShown`, `GoneIsNotShown`, `GoneStaysGone`, `LedgerSpec` | what a screen has announced is what its table shows after the next fetch, although additions and removals are made again together; what is gone for a screen does not come back to it |
| `calendar_two_dates` | 1 device, 2 names, 2 dates, 2 writes in flight, events only added, symmetric | `NothingLost`, `AddedIsShown` | one Submit for two dates: each of its writes is kept, made or refused, and shown |
| `calendar_cells` | 9 dates, 2 months, 3 weeks | `TypeOK`, `RunsAreDrawn`, `CircleFollowsTap` | runs are drawn as runs, across the ends of pages and during drags |
| `navigation` | 2 persons, 3 sections, transitions of 5 to 8 ticks, fair | `TypeOK`, `NoDeadScreen`, `GateSpec`, `AsksLastTapped`, `LeavingIsDone` | nobody gets in without the passcode, no screen loses its controls, the person greeted is the one tapped last, and a screen that begins to leave is left |
| `streams` | 2 queries, 3 writes, a pipeline of 2, one change of credentials, fair | `TypeOK`, `AssertionsHold`, `NeededStreamsRun`, `SentIsPipeline`, `WatchedIsListened`, `OnlyIdleStreamsStop`, `DeliverySpec`, `FetchesEnd`, `WritesSettle` | no assertion of the client fails, answers meet the writes they answer, no needed stream stays down, fetches and writes end |
| `online_timer` | the same, without fairness | `UnknownIsTimed` | a counterexample: a fetch without the ten-second timeout |

The bounds.  Two coupon names let a gift and a redeem, or two redeems, be under way on one
phone; two devices let one phone give what the other redeems; `MaxPending` 2 lets answers
of two writes and two fetches overtake each other and lets the second write of a pipeline
be made before the first is answered; `MaxBacklog` 1 is what a double tap needs.  Nothing
in these models depends on more than the order of two events of a kind.
`MaxPendingWrites` is 10 in the code; in the runs of the screens it is never less than
`MaxPending`, so the pipeline is never full there, while `streams` has a third write wait
for a place in a pipeline of two.  One change of credentials suffices there to make a
token stale in either stream, and a restart adds nothing to it that a close does not.
In `calendar_cells` nine dates hold a run of each length from one to nine, across a week's
end, across a month's end and across both.  In `navigation` no counter grows: the bound is
the longest animation, 24 ticks of 50 ms.

`MaxVersion` 3 is a gift or an addition, its redeem or removal, and the first made again;
`one_phone` and `calendar_two_dates` have room for one change more.

`two_phones` and `calendar_two_phones` keep one write per phone because their state spaces
are products of two clients; the deeper queues are in the runs with one phone.  Some runs
leave out touches (`MCCoupons`, `MCCalendar`).  In `two_phones` the gift sheet of one phone
stays closed: it does not matter which person gives the only coupon, and its gift is still
resent by a phone that shows coupons of its own.  In `one_phone` a second person with two
names would multiply what either half shows.  In the calendar's runs but `calendar_two_dates`
a date is selected as soon as the screen is open, since the table follows the selection
whenever it changes, and the add sheet is opened only while a name is left to submit.  In
`calendar_two_phones` only one phone at a time presents something, and fetches and removals
that would end in an alert are not taken: alerts concern one screen only.  Symmetry is used
only where no liveness is checked and where the configuration tells the devices, names and
dates apart nowhere.  `WithoutScreenHistory` hides what the open screen remembers for the
screen's own properties (`confirmed`, `fetchFailed`; `added`, `gone`, `fetchFailed`), which no
action and none of those runs' properties reads.  Deadlock is checked in every run.

### Findings

* `alert`.  `displayAlert` is documented with "This function displays a UIAlertView
  string for a given `message: String`" (`Utilities/Extensions.swift:106`).  A person who
  opens the gift sheet while the first fetch is under way does not see the alert of its
  failure: the screen already presents the sheet.  The carousel stays on "Fetching
  Coupons".
* `given_back`.  The client says of writes that "they can be re-played even if the backend
  has already applied them" (`model/mutation.h:253`).  Antonio's phone gives a coupon, the
  server makes the gift, and the connection is lost before the answer; Lauren sees the
  coupon, redeems it and is told so; Antonio's phone sends the gift again, and the coupon
  is unredeemed again, for good.  In the calendar an event comes back in the same way after
  the other phone has removed it; it is the same step of the same client, so that there is
  no second run of it.
* `online_timer`.  The client promises that "If the timeout is reached, we transition to
  Offline rather than waiting indefinitely" (`online_state_tracker.cc:43`).  When the last
  listen is stopped while the watch stream is starting or backing off,
  `RemoteStore::StopListening` sets the online state to Unknown, which cancels the
  timeout; the next listen finds the stream started, so that nothing starts the timeout
  again.  Celeste listens only for the moment of a fetch, so that this is the ordinary
  course of two fetches on a phone without network: the first is served from the cache
  after ten seconds, the second waits until the stream fails by itself.  `FetchesEnd`
  shows that it does end.

### Fairness

`Coupons`.  `Fairness` asks for what the platform schedules: the main queue runs its
blocks, timers fire, and a connection that is lost comes back.  `Commit`,
`HandleSuccessfulWrite` and the refusal of an update without a document are strongly fair,
because the client sends the pipeline again on each new stream
(`OnWriteStreamHandshakeComplete`) and the network may fail in between any number of times;
the assumption is that it does not fail at exactly the wrong moment for ever.  Opening the
coupon screen is weakly fair: after a kill the client is created by a screen that uses it,
and a write queued earlier waits for that.  Kills are free but stop eventually
(`KillsStop`); a process killed again each time before it sends cannot be expected to
send.  Nothing is assumed about touches other than opening, about refusals of other writes
or about answers of queries.

`Navigation`.  Time passes, and completions and the ends of transitions happen when they
are due.  Nothing is assumed about touches.

`RemoteStore`.  `WatchFairness`: a token comes or is refused, a backoff ends, a call opens
its stream or fails (`grpc_connection.cc:195` sets a keepalive, so that a dead connection is
noticed), and a query that is requested on open streams again and again is answered on
one.  No watch stream need ever open for `FetchesEnd`.  `WriteFairness` asks more, since
only the server can settle a write: tokens, streams, handshakes, commits and answers that
are possible again and again happen.  Restarts stop (`RestartsStop`); changes of credentials
are bounded.

## Proofs

The theorems hold for all constants that satisfy the named assumptions of the modules.

* `CouponsProofs`, `CouponsLedgerProofs`: any number of devices, document names, persons
  per device and any bounds.
  * `TypeCorrect`: `Spec => []TypeOK`.  `TypeOK` is not inductive.  The completion of a
    redeem fetches the coupons of `screen[d]`, which must not be "closed"; so `TypeInv` adds
    `ClosedIsQuiet`, that a closed screen has no handler, listener or posted block left, and
    `CouponWrites`, that the queue holds only redeems and gifts with matching handlers.
  * `RequestsAreKept` (`NothingLost`) and `SuccessIsTrue` (`ToldIsTrue`) follow from the
    inductive invariant `TypeInv /\ LedgerInv`.  The difficulty is that a gift is a "set": a
    phone that lost the answer to one gives it again, and if the other phone has redeemed the
    coupon meanwhile, takes that back.  `VersionsCount` says that the version of a coupon
    tells where in this story it is: what gives it back is its third change at least, so
    "has happened, and if it does not stand then a gift made again has undone it"
    (`Happened`) is a fact of the server alone, and no step makes it false (`MadeKeeps`).
    `QueuesWell` says that what a phone takes to be made has happened, `SetsDistinct` that no
    two gifts of one coupon are queued anywhere, so that a gift that was answered is never
    made again (`NotGiving`).  `AnswersTrue` carries the truth of an answer from the server
    to the moment the main queue runs it.  Most actions neither touch queued writes, except
    for handlers and for what must be made again, nor post answers; `QuietStep` deals with
    all of them at once.
  * `CouponsImplementLedger` (`LedgerSpec`): by the same invariant `Commit` is `Give`,
    `Redeem`, `GiveBack` or a stutter, a completion that succeeds is `HearGiven` or
    `HearRedeemed`, which settles the coupon, and all other steps stutter.
  * `SpinnersAreAccounted` (`SpinnersAccounted`).  The property speaks of "some" handler,
    answer or block that will remove a spinner; to be inductive it has to count.
    `Balanced` says that on each view the spinners that are there or about to be added are
    as many as the writes whose answer is awaited, the answers that wait in the main queue,
    the timers running and the removals posted; `RemovalsFollow` says that in no prefix of the main queue the removals
    outnumber the spinners that are there and the additions before them, so that no removal
    finds nothing to remove and is lost.
  * `RedeemedIsExplained` (`CarouselExplained`).  `CopiesTrue` says that whatever a cache or
    a watch stream holds as redeemed has happened, `ListensOwn` that the fetches awaited are
    of the collection of the person on screen, and `ShowsBacked` that what a screen shows,
    or will when a posted answer is run, is explained.  Being explained is never undone
    (`ExplainedStays`), so an answer may wait as long as it likes.
* `CalendarProofs`: any number of devices, names, dates and any
  bounds.
  * `CalendarTypeCorrect`: `TypeOK` together with `CalendarWrites` (the queues hold
    additions and removals), `ClosedIsQuiet` (a closed calendar has no handler, listener or
    posted block left) and `SelectionFinite` (an addition has as many writes as dates).
* `CalendarCellsProofs`: any dates and any pages.  The inductive invariant says of each
  cell on screen by itself that it is drawn as the selection demands (`CellsAreConfigured`);
  that runs are then drawn as bars is a fact about intervals of integers
  (`ConfiguredCellsDrawRuns`).
* `NavigationProofs`: any persons, sections and durations of transitions.
  `NavigationTypeCorrect`, and `PasscodeIsTyped`: `Navigation` implements `PasscodeGate`.
  `NavigationInv` adds to the types what a transition can be (`TransitionInv`) and
  `CodeInv`: a completion that Submit started and that could present the main screen a
  second time is due at once as soon as the passcode screen is covered, and none is left
  when the main screen begins to be dismissed, so it cannot survive a lock.
  `ScreensComeBack` (`NoDeadScreen`) rests on two facts.  Animations are of the screen in front or, during a
  presentation and until they complete after it, of the one it covers (`WindowInv`); and a
  screen in front that misses a control is being left: an animation is under way on it
  whose completion presents the next screen (`ControlsBack`).
  `LastTappedIsAsked` (`AsksLastTapped`) is about two persons tapped before the passcode
  screen comes up: both animations will present it, and the first to do so wins.  The
  second tap finds the labels shifted already and is through sooner, so the person tapped
  last is presented first (`LastIsFirst`).
* `RemoteStoreProofs`: any queries, any number of writes and of changes of credentials,
  any room in the pipeline.  The watch half and the write half have an invariant each,
  since they share only the count of changes.  `WatchInv` ties the tracker to the stream:
  the timeout runs only while a stream is on its way and has not failed, which is what the
  tracker's assertions need.  `WriteInv` says that batch ids grow along the queue
  (`Growing`), that the pipeline is always as much of the queue's beginning as there is room
  for (`Front`), although it is refilled only by `FillWritePipeline`, and that a stream that
  is on its way without handshake has work; `FillIsSound` proves once, for every way the
  pipeline is filled, what it leads to.  From these follow `StoreTypeCorrect`,
  `NoAssertionFails`, `StreamsRunWhenNeeded`, `AnswersMeetTheirWrites`,
  `ServerKnowsTheQueries`, `OnlyIdleStreamsAreStopped`, and that `RemoteStore` implements
  `WriteDelivery` (`StoreImplementsDelivery`): a commit is `Make`, an answer `Succeed`, a
  refusal `Refuse`, a write of the app `Ask`, every close of the write stream `Lose`, and
  all else stutters.

`FirestoreProofs` is shared: what `Append`, `Tail` and the loss of handlers do to a queue,
what `LocalValue` returns for it, and, per event of the client, what the server, the cache,
the watch stream, the queue and the main queue have afterwards.

Only model-checked: liveness (`RequestsSettle`, `SpinnersGo`, `LeavingIsDone`, `FetchesEnd`,
`WritesSettle`), which is out of the prover's reach, as is `ENABLED`, and with it the absence
of deadlock.  Further, that the carousel catches up and never goes back
(`CarouselCatchesUp`, `CarouselNeverGoesBack`) and, of the calendar, all but its types (`NothingLost`,
`LedgerSpec`, `AddedIsShown`, `GoneIsNotShown`, `GoneStaysGone`).  Every other property of a
passing run is a theorem.

## Plan

Done: the modules, runs and theorems above.

Left, in this order:

1. Proofs of what is only model-checked.  A write made again makes most of what one would
   like to say of several phones false, so each needs the condition under which a document
   is out of its reach: for the calendar, that an event exists on the server exactly when
   its version is odd; for the carousel, that a coupon has not been changed a third time
   (`Undisturbed`).
2. `WatchChangeAggregator` and target state, which would replace the free choice of
   `OnWatchStreamChange` in `RemoteStore`.

## Not modelled, and why

The repository is, by lines, almost entirely vendored libraries: BoringSSL, gRPC, Abseil,
LevelDB, protocol buffers, Hero, FSCalendar, Lottie and others.  They are used through
narrow interfaces, and most of them (cryptography, generated tables, transport,
presentation) have no part in what the application promises; only the Firestore client
is modelled in depth, because the screens rest on it.  So the definitions stand for a small
share of the repository's lines.

Of the application: layout, colours, fonts and texts have no state.  The photo gallery is
an empty screen.  `View/CalendarView.swift` is a draft that nothing uses.  The repeating
timer of the main screen only rewrites a label.  The overlay and scale of press effects
and `fadeTransition` block nothing.  The home tiles for the daily challenge and random
thoughts have no handlers.  The liveness of the calendar's requests is that of the
coupons', since both are `Firestore`'s, and is not checked a second time.

Of the Firestore client: transactions, transforms, limbo resolution, resume tokens,
existence filters, multiple tabs, garbage collection, disabling the network and shutting
down are not used by the application or do not change what it sees.
