-------------------------------- MODULE Coupons --------------------------------
(***************************************************************************)
(* The coupon screens of Celeste on every device: CouponsViewController    *)
(* with its carousel, the GiftCouponViewController sheet it presents, and  *)
(* CouponServices, over Firestore.  A device can be used as either person. *)
(* Actions are touches, blocks of the main queue, one-second timers, and   *)
(* the events of the Firestore client and its surroundings.                *)
(***************************************************************************)
EXTENDS Firestore

CONSTANTS
    Users,          \* per device: the persons who choose their picture on it
    MaxPending,     \* bound: writes queued, and fetches awaited, on a device
    MaxBacklog      \* bound: posted blocks that a touch can still overtake

Who == {"Lauren", "Antonio"}

ASSUME CollectionIsWho == Collection = Who
ASSUME ValueIsRedeemed == Value = {"unredeemed", "redeemed"}
ASSUME NoDocumentIsNotGivenBack == NoDocument # "givenBack"
ASSUME WriteCallbackIsKind == WriteCallback = {"redeemed", "gifted"}
ASSUME NoCallbackIsNoSpinner == NoCallback \notin {"addSpinner", "removeSpinner"}
ASSUME UsersAssumption == Users \in [Device -> SUBSET Who]
ASSUME MaxPendingAssumption == MaxPending \in Nat \ {0}
ASSUME MaxBacklogAssumption == MaxBacklog \in Nat

VARIABLES
    screen,         \* per device: whose coupons are on screen, or "closed"
    loaded,         \* per device: the placeholder coupon has been replaced
    coupons,        \* per device: what the carousel shows of each coupon
    presented,      \* per device: what the screen presents on top of itself
    spinners,       \* per device and view: spinner views covering it
    expiring,       \* per device and view: one-second timers that remove one
    \* History, read by no action except that a UUID is never drawn twice:
    requested,      \* the writes asked for, <<op, doc>>
    refused,        \* the writes the server refused, <<op, doc>>
    told,           \* the writes whose success was acted on, <<op, doc>>
    confirmed,      \* per device: redeems confirmed to the screen that is open
    fetchFailed     \* per device: a fetch of the screen that is open failed

screenVars == <<screen, loaded, coupons, presented, spinners, expiring>>
historyVars == <<requested, refused, told, confirmed, fetchFailed>>
vars == <<firestoreVars, screenVars, historyVars>>

View == {"coupons", "gift"}
SpinnerBlock == [callback: {"addSpinner", "removeSpinner"}, on: View]
Block == WriteResult \cup QueryResult \cup SpinnerBlock \cup [callback: {NoCallback}]
Request == {"set", "update"} \X Doc

Other(who) == IF who = "Lauren" THEN "Antonio" ELSE "Lauren"
NoCoupons == [id \in DocId |-> NoDocument]

TypeOK ==
    /\ FirestoreTypeOK
    /\ mainQueue \in [Device -> Seq(Block)]
    /\ screen \in [Device -> Who \cup {"closed"}]
    /\ loaded \in [Device -> BOOLEAN]
    /\ coupons \in [Device -> [DocId -> MaybeValue]]
    /\ presented \in [Device -> {"nothing", "alert", "sheet", "sheetAlert"}]
    /\ spinners \in [Device -> [View -> Nat]]
    /\ expiring \in [Device -> [View -> Nat]]
    /\ requested \in SUBSET Request
    /\ refused \in SUBSET Request
    /\ told \in SUBSET Request
    /\ confirmed \in [Device -> SUBSET DocId]
    /\ fetchFailed \in [Device -> BOOLEAN]

\* Document names are UUIDs: at first no two persons hold the same one.
Init ==
    /\ FirestoreInit
    /\ \A id \in DocId : \E who \in Who : server[<<who, id>>] = Missing
    /\ screen = [d \in Device |-> "closed"]
    /\ loaded = [d \in Device |-> FALSE]
    /\ coupons = [d \in Device |-> NoCoupons]
    /\ presented = [d \in Device |-> "nothing"]
    /\ spinners = [d \in Device |-> [v \in View |-> 0]]
    /\ expiring = [d \in Device |-> [v \in View |-> 0]]
    /\ requested = {}
    /\ refused = {}
    /\ told = {}
    /\ confirmed = [d \in Device |-> {}]
    /\ fetchFailed = [d \in Device |-> FALSE]

(***************************************************************************)
(* Pieces of handlers.                                                     *)
(***************************************************************************)
Post(d, block) == mainQueue' = [mainQueue EXCEPT ![d] = Append(@, block)]

\* displayAlert on a controller: UIKit drops what is presented on a
\* controller that already presents something.
AlertOn(controller, now) ==
    CASE controller = "coupons" /\ now = "nothing" -> "alert"
      [] controller = "gift" /\ now = "sheet"      -> "sheetAlert"
      [] OTHER                                     -> now

\* The screen and its sheet are deallocated.
ResetScreen(d) ==
    /\ screen' = [screen EXCEPT ![d] = "closed"]
    /\ loaded' = [loaded EXCEPT ![d] = FALSE]
    /\ coupons' = [coupons EXCEPT ![d] = NoCoupons]
    /\ presented' = [presented EXCEPT ![d] = "nothing"]
    /\ spinners' = [spinners EXCEPT ![d] = [v \in View |-> 0]]
    /\ expiring' = [expiring EXCEPT ![d] = [v \in View |-> 0]]
    /\ confirmed' = [confirmed EXCEPT ![d] = {}]
    /\ fetchFailed' = [fetchFailed EXCEPT ![d] = FALSE]

\* A write, and a posted block, once the sheet they answer to is gone.
WithoutGiftHandler(m) == IF m.callback = "gifted" THEN WithoutCallback(m) ELSE m

WithoutSheet(block) ==
    IF \/ block.callback = "gifted"
       \/ block.callback \in {"addSpinner", "removeSpinner"} /\ block.on = "gift"
    THEN [callback |-> NoCallback] ELSE block

\* The sheet leaves and is deallocated; queue is what is left to run on main.
CloseSheet(d, queue) ==
    /\ presented' = [presented EXCEPT ![d] = "nothing"]
    /\ spinners' = [spinners EXCEPT ![d]["gift"] = 0]
    /\ expiring' = [expiring EXCEPT ![d]["gift"] = 0]
    /\ mutationQueue' = [mutationQueue EXCEPT ![d] = [i \in DOMAIN @ |-> WithoutGiftHandler(@[i])]]
    /\ mainQueue' = [mainQueue EXCEPT ![d] = [i \in DOMAIN queue |-> WithoutSheet(queue[i])]]

(***************************************************************************)
(* Touches.  A spinner covers the whole view it is added to; what is       *)
(* presented keeps touches from the screen below.                          *)
(***************************************************************************)
ScreenTouchable(d) ==
    screen[d] # "closed" /\ presented[d] = "nothing" /\ spinners[d]["coupons"] = 0

\* Home presents a new CouponsViewController; viewDidLoad fetches.
OpenCoupons(d, who) ==
    /\ who \in Users[d]
    /\ screen[d] = "closed"
    /\ screen' = [screen EXCEPT ![d] = who]
    /\ GetDocuments(d, who)
    /\ UNCHANGED <<serverVars, mutationQueue, documentCache, watchStream, mainQueue,
                   loaded, coupons, presented, spinners, expiring, historyVars>>

\* A fault: handlers that hold the screen strongly outlive it.
KeepHandlers(d) == UNCHANGED <<mutationQueue, listeners, mainQueue>>

\* Handlers that hold the screen or its sheet weakly find them gone.
ReleaseHandlers(d) ==
    /\ mutationQueue' = [mutationQueue EXCEPT ![d] = Orphaned(@)]
    /\ listeners' = [listeners EXCEPT ![d] = [coll \in Collection |-> 0]]
    /\ mainQueue' = [mainQueue EXCEPT ![d] = <<>>]

\* closeButton: dismiss(animated:).
CloseTapped(d) ==
    /\ ScreenTouchable(d)
    /\ ResetScreen(d)
    /\ ReleaseHandlers(d)
    /\ UNCHANGED <<serverVars, documentCache, listenTargets, watchStream, configured,
                   requested, refused, told>>

\* A cell whose button is enabled calls redeemCoupon with the coupon it
\* shows: a spinner on its way, and updateData on the coupon of who.
RedeemTapped(d, id) ==
    /\ ScreenTouchable(d)
    /\ loaded[d] /\ coupons[d][id] = "unredeemed"
    /\ Len(mutationQueue[d]) < MaxPending
    /\ Len(mainQueue[d]) <= MaxBacklog
    /\ listeners[d][screen[d]] < MaxPending
    /\ Post(d, [callback |-> "addSpinner", on |-> "coupons"])
    /\ WriteMutation(d, "update", <<screen[d], id>>, "redeemed", "redeemed")
    /\ requested' = requested \cup {<<"update", <<screen[d], id>>>>}
    /\ UNCHANGED <<serverVars, documentCache, listenTargets, listeners, watchStream, configured,
                   screenVars, refused, told, confirmed, fetchFailed>>

\* giftButton presents the sheet.
GiftTapped(d) ==
    /\ ScreenTouchable(d)
    /\ presented' = [presented EXCEPT ![d] = "sheet"]
    /\ UNCHANGED <<firestoreVars, screen, loaded, coupons, spinners, expiring, historyVars>>

SheetTouchable(d) == presented[d] = "sheet" /\ spinners[d]["gift"] = 0

\* A fault: a name that may have been used already.
IsName(id) == id \in DocId

\* UUID() never gives a name that was ever given.
IsUUID(id) ==
    \A who \in Who : server[<<who, id>>] = Missing /\ <<"set", <<who, id>>>> \notin requested

\* submitTapped with both fields filled: a coupon with a new UUID, for the
\* other person, not redeemed.
SubmitTapped(d, id) ==
    /\ SheetTouchable(d)
    /\ Len(mutationQueue[d]) < MaxPending
    /\ Len(mainQueue[d]) <= MaxBacklog
    /\ IsUUID(id)
    /\ Post(d, [callback |-> "addSpinner", on |-> "gift"])
    /\ WriteMutation(d, "set", <<Other(screen[d]), id>>, "unredeemed", "gifted")
    /\ requested' = requested \cup {<<"set", <<Other(screen[d]), id>>>>}
    /\ UNCHANGED <<serverVars, documentCache, listenTargets, listeners, watchStream, configured,
                   screenVars, refused, told, confirmed, fetchFailed>>

\* submitTapped with an empty field.
SubmitIncomplete(d) ==
    /\ SheetTouchable(d)
    /\ presented' = [presented EXCEPT ![d] = AlertOn("gift", @)]
    /\ UNCHANGED <<firestoreVars, screen, loaded, coupons, spinners, expiring, historyVars>>

\* The sheet is swiped away, spinner or not.
SheetSwiped(d) ==
    /\ presented[d] = "sheet"
    /\ CloseSheet(d, mainQueue[d])
    /\ UNCHANGED <<serverVars, documentCache, listenTargets, listeners, watchStream, configured,
                   screen, loaded, coupons, historyVars>>

\* OK on an alert.
AlertDismissed(d) ==
    /\ presented[d] \in {"alert", "sheetAlert"}
    /\ presented' = [presented EXCEPT ![d] = IF @ = "alert" THEN "nothing" ELSE "sheet"]
    /\ UNCHANGED <<firestoreVars, screen, loaded, coupons, spinners, expiring, historyVars>>

(***************************************************************************)
(* Blocks of the main queue, each taken from its front.                    *)
(***************************************************************************)
Front(d, callback) == mainQueue[d] # <<>> /\ Head(mainQueue[d]).callback = callback
PopFront(d) == mainQueue' = [mainQueue EXCEPT ![d] = Tail(@)]

\* getCoupons completed.
FetchCouponsCompleted(d) ==
    /\ Front(d, "fetched")
    /\ PopFront(d)
    /\ LET result == Head(mainQueue[d]) IN
        \/ /\ result.ok
           /\ coupons' = [coupons EXCEPT ![d] = result.docs]
           /\ loaded' = [loaded EXCEPT ![d] = TRUE]
           /\ UNCHANGED <<presented, fetchFailed>>
        \/ /\ ~result.ok
           /\ presented' = [presented EXCEPT ![d] = AlertOn("coupons", @)]
           /\ fetchFailed' = [fetchFailed EXCEPT ![d] = TRUE]
           /\ UNCHANGED <<coupons, loaded>>
    /\ UNCHANGED <<serverVars, clientVars, screen, spinners, expiring,
                   requested, refused, told, confirmed>>

\* A fault: success does not fetch.
RedeemSucceededQuietly(d, doc) ==
    /\ told' = told \cup {<<"update", doc>>}
    /\ confirmed' = [confirmed EXCEPT ![d] = @ \cup {doc[2]}]
    /\ expiring' = [expiring EXCEPT ![d]["coupons"] = @ + 1]
    /\ UNCHANGED <<configured, listenTargets, listeners, presented>>

RedeemSucceeded(d, doc) ==
    /\ GetDocuments(d, screen[d])
    /\ told' = told \cup {<<"update", doc>>}
    /\ confirmed' = [confirmed EXCEPT ![d] = @ \cup {doc[2]}]
    /\ expiring' = [expiring EXCEPT ![d]["coupons"] = @ + 1]
    /\ UNCHANGED presented

\* A fault: the spinner stays behind the alert.
RedeemFailedForGood(d) ==
    /\ presented' = [presented EXCEPT ![d] = AlertOn("coupons", @)]
    /\ UNCHANGED <<expiring, configured, listenTargets, listeners, told, confirmed>>

RedeemFailed(d) ==
    /\ presented' = [presented EXCEPT ![d] = AlertOn("coupons", @)]
    /\ expiring' = [expiring EXCEPT ![d]["coupons"] = @ + 1]
    /\ UNCHANGED <<configured, listenTargets, listeners, told, confirmed>>

\* redeemCoupon completed: the spinner goes in a second; success fetches.
RedeemCouponCompleted(d) ==
    /\ Front(d, "redeemed")
    /\ PopFront(d)
    /\ LET result == Head(mainQueue[d])
       IN  \/ result.ok /\ RedeemSucceeded(d, result.doc)
           \/ ~result.ok /\ RedeemFailed(d)
    /\ UNCHANGED <<serverVars, mutationQueue, documentCache, watchStream,
                   screen, loaded, coupons, spinners, requested, refused, fetchFailed>>

\* dismiss(animated:) on the sheet takes away the alert the sheet presents
\* if there is one, and the sheet itself otherwise.
GiftSucceeded(d, doc) ==
    /\ told' = told \cup {<<"set", doc>>}
    /\ \/ /\ presented[d] = "sheetAlert"
          /\ presented' = [presented EXCEPT ![d] = "sheet"]
          /\ PopFront(d)
          /\ expiring' = [expiring EXCEPT ![d]["gift"] = @ + 1]
          /\ UNCHANGED <<mutationQueue, spinners>>
       \/ /\ presented[d] # "sheetAlert"
          /\ CloseSheet(d, Tail(mainQueue[d]))

GiftFailed(d) ==
    /\ presented' = [presented EXCEPT ![d] = AlertOn("gift", @)]
    /\ PopFront(d)
    /\ expiring' = [expiring EXCEPT ![d]["gift"] = @ + 1]
    /\ UNCHANGED <<mutationQueue, spinners, told>>

\* giftCoupon completed: the spinner goes in a second; success announces
\* "Sent Over Coupon!" and dismisses.
GiftCouponCompleted(d) ==
    /\ Front(d, "gifted")
    /\ LET result == Head(mainQueue[d])
       IN  \/ result.ok /\ GiftSucceeded(d, result.doc)
           \/ ~result.ok /\ GiftFailed(d)
    /\ UNCHANGED <<serverVars, documentCache, listenTargets, listeners, watchStream, configured,
                   screen, loaded, coupons, requested, refused, confirmed, fetchFailed>>

\* The blocks of displaySpinner and removeSpinner.
SpinnerAdded(d) ==
    /\ Front(d, "addSpinner")
    /\ PopFront(d)
    /\ spinners' = [spinners EXCEPT ![d][Head(mainQueue[d]).on] = @ + 1]
    /\ UNCHANGED <<serverVars, clientVars, screen, loaded, coupons, presented, expiring,
                   historyVars>>

SpinnerRemoved(d) ==
    /\ Front(d, "removeSpinner")
    /\ PopFront(d)
    /\ spinners' = [spinners EXCEPT ![d][Head(mainQueue[d]).on] = IF @ > 0 THEN @ - 1 ELSE 0]
    /\ UNCHANGED <<serverVars, clientVars, screen, loaded, coupons, presented, expiring,
                   historyVars>>

\* A handler that finds its controller gone.
NothingLeftToDo(d) ==
    /\ Front(d, NoCallback)
    /\ PopFront(d)
    /\ UNCHANGED <<serverVars, clientVars, screenVars, historyVars>>

\* asyncAfter: a second has passed since a completion.
SpinnerExpires(d, v) ==
    /\ expiring[d][v] > 0
    /\ expiring' = [expiring EXCEPT ![d][v] = @ - 1]
    /\ Post(d, [callback |-> "removeSpinner", on |-> v])
    /\ UNCHANGED <<serverVars, clientVars, screen, loaded, coupons, presented, spinners,
                   historyVars>>

(***************************************************************************)
(* The Firestore client and the world around the app.                      *)
(***************************************************************************)
ClientEvent(d) ==
    \/ Commit(d)
    \/ HandleSuccessfulWrite(d)
    \/ SendWatchSnapshot(d)
    \/ ApplyRemoteEvent(d)
    \/ HandleOnlineStateChange(d)
    \/ HandleRejectedListen(d)
    \/ Disconnect(d)
    \/ Connect(d)

WriteRefused(d) ==
    /\ HandleRejectedWrite(d)
    /\ refused' = refused \cup
           {<<Head(mutationQueue[d]).op, Head(mutationQueue[d]).doc>>}
    /\ UNCHANGED <<screenVars, requested, told, confirmed, fetchFailed>>

\* The app is killed, by the user or the system; it starts closed again.
Kill(d) ==
    /\ KillProcess(d)
    /\ ResetScreen(d)
    /\ UNCHANGED <<requested, refused, told>>

MainBlock(d) ==
    \/ FetchCouponsCompleted(d)
    \/ RedeemCouponCompleted(d)
    \/ GiftCouponCompleted(d)
    \/ SpinnerAdded(d)
    \/ SpinnerRemoved(d)
    \/ NothingLeftToDo(d)

Touch(d) ==
    \/ \E who \in Who : OpenCoupons(d, who)
    \/ CloseTapped(d)
    \/ \E id \in DocId : RedeemTapped(d, id) \/ SubmitTapped(d, id)
    \/ GiftTapped(d)
    \/ SubmitIncomplete(d)
    \/ SheetSwiped(d)
    \/ AlertDismissed(d)

Next ==
    \E d \in Device :
        \/ Touch(d)
        \/ MainBlock(d)
        \/ \E v \in View : SpinnerExpires(d, v)
        \/ ClientEvent(d) /\ UNCHANGED <<screenVars, historyVars>>
        \/ WriteRefused(d)
        \/ Kill(d)

Spec == Init /\ [][Next]_vars

(***************************************************************************)
(* Fairness.  The main queue, the timers and the client run; the backend   *)
(* comes back into reach often enough for what is sent again and again to  *)
(* get through; an update of a missing document is refused; a person whose *)
(* app is closed opens it again, which is what starts the client.  Kills   *)
(* come at any time, but not for ever.                                     *)
(***************************************************************************)
UpdatesMissing(d) ==
    LET m == Head(mutationQueue[d])
    IN  mutationQueue[d] # <<>> /\ ~PreconditionHolds(m, server[m.doc].value)

Fairness ==
    \A d \in Device :
        /\ WF_vars(MainBlock(d))
        /\ \A v \in View : WF_vars(SpinnerExpires(d, v))
        /\ WF_vars(Connect(d) /\ UNCHANGED <<screenVars, historyVars>>)
        /\ SF_vars(Commit(d) /\ UNCHANGED <<screenVars, historyVars>>)
        /\ SF_vars(HandleSuccessfulWrite(d) /\ UNCHANGED <<screenVars, historyVars>>)
        /\ SF_vars(UpdatesMissing(d) /\ WriteRefused(d))
        /\ WF_vars(\E who \in Who : OpenCoupons(d, who))

KillsStop == <>[][\A d \in Device : ~Kill(d)]_vars

FairSpec == Spec /\ Fairness /\ KillsStop

(***************************************************************************)
(* Properties.                                                             *)
(***************************************************************************)
OnServer(r) == IF r[1] = "set" THEN server[r[2]].value # NoDocument
                               ELSE server[r[2]].value = "redeemed"
QueuedOn(d, r) == \E i \in DOMAIN mutationQueue[d] :
    mutationQueue[d][i].op = r[1] /\ mutationQueue[d][i].doc = r[2]

\* The gift of a coupon was made again after its redeem, which is a third
\* change; and nobody has redeemed the coupon since.
GivenAgain(doc) == server[doc].version > 2
GivenBack(doc) == GivenAgain(doc) /\ server[doc].value = "unredeemed"

\* What was asked for has been made; only a gift made again has undone it.
Happened(r) == OnServer(r) \/ (r[1] = "update" /\ GivenBack(r[2]))

\* A redeem or a gift the person asked for is on the server, or still in the
\* queue of a device, or was refused: no crash, lost answer or closed screen
\* loses it (LocalStore::WriteLocally, AcknowledgeBatch, RejectBatch).
NothingLost ==
    \A r \in requested : Happened(r) \/ r \in refused \/ \E d \in Device : QueuedOn(d, r)

\* When redeemCoupon or giftCoupon completes with success, and ever after,
\* the server has what was asked for: "Sent Over Coupon!" is true.
ToldIsTrue == \A r \in told : Happened(r)

\* "The base value is empty for idempotent mutations, as they can be re-played
\* even if the backend has already applied them" (model/mutation.h): sets and
\* patches are sent again freely, and what somebody was told of stays.
SuccessLasts == \A r \in told : OnServer(r)

\* The carousel shows "Redeemed" only for a coupon that the server has as
\* redeemed, or whose redeem this device still has to deliver, or whose
\* redeem was refused after a fetch had already shown it.
CarouselExplained ==
    \A d \in Device, id \in DocId :
        coupons[d][id] = "redeemed" =>
            LET r == <<"update", <<screen[d], id>>>>
            IN  Happened(r) \/ QueuedOn(d, r) \/ r \in refused

FetchPending(d) ==
    \/ screen[d] # "closed" /\ listeners[d][screen[d]] > 0
    \/ \E i \in DOMAIN mainQueue[d] : mainQueue[d][i].callback = "fetched"

\* A coupon whose redeem this screen saw succeed is offered for redeeming
\* only until the fetch that follows is answered, or if a fetch failed.
CatchesUpOn(docs) ==
    \A d \in Device : \A id \in confirmed[d] :
        /\ <<screen[d], id>> \in docs
        /\ coupons[d][id] = "unredeemed"
        => FetchPending(d) \/ fetchFailed[d]
CarouselCatchesUp == CatchesUpOn(Doc)

\* While a screen is open a coupon never goes from "Redeemed" back to
\* "Redeem", unless the server refused the redeem: answers of fetches are
\* applied in the order in which the client knew them.
NeverGoesBackOn(docs) ==
    \A d \in Device, id \in DocId :
        /\ <<screen[d], id>> \in docs
        /\ screen'[d] = screen[d] /\ coupons[d][id] = "redeemed"
        => coupons'[d][id] = "redeemed" \/ <<"update", <<screen[d], id>>>> \in refused
CarouselNeverGoesBack == [][NeverGoesBackOn(Doc)]_vars

\* The coupons that no resent gift has disturbed: their gift has not been
\* made again after a redeem, nor refused after it had been made.  On a single
\* phone the order of its queue makes the others keep the two promises too.
Undisturbed ==
    {doc \in Doc : ~GivenAgain(doc) /\ (<<"set", doc>> \in refused => server[doc].value = NoDocument)}

Blocks(d, callback, v) ==
    Cardinality({i \in DOMAIN mainQueue[d] :
        mainQueue[d][i].callback = callback /\ mainQueue[d][i].on = v})
Answers(d, callback) ==
    Cardinality({i \in DOMAIN mainQueue[d] : mainQueue[d][i].callback = callback})
Awaited(d, callback) ==
    Cardinality({i \in DOMAIN mutationQueue[d] : mutationQueue[d][i].callback = callback})
KindOf(v) == IF v = "coupons" THEN "redeemed" ELSE "gifted"

\* Every spinner that covers a view, or is about to, belongs to a request
\* that is still awaited or to a timer that will remove it: nobody is left
\* behind a spinner by an answer that came and went.
SpinnersAccounted ==
    \A d \in Device, v \in View :
        spinners[d][v] + Blocks(d, "addSpinner", v)
            = Awaited(d, KindOf(v)) + Answers(d, KindOf(v))
                + expiring[d][v] + Blocks(d, "removeSpinner", v)

\* What was asked for reaches the server or is refused, although the app may
\* be killed and the network may fail again and again.
RequestsSettle ==
    \A r \in Request : r \in requested ~> OnServer(r) \/ r \in refused

\* A spinner does not cover a view for ever.
SpinnersGo ==
    \A d \in Device, v \in View : spinners[d][v] > 0 ~> spinners[d][v] = 0

\* Server and controllers together keep the promise of CouponLedger.
Ledger == INSTANCE CouponLedger WITH
    Coupon   <- Doc,
    NotGiven <- NoDocument,
    ledger   <- [doc \in Doc |-> IF GivenBack(doc) THEN "givenBack" ELSE server[doc].value],
    giving   <- {doc \in Doc : \E d \in Device : QueuedOn(d, <<"set", doc>>)},
    heard    <- told
LedgerSpec == Ledger!LedgerSpec

\* "This function displays a UIAlertView string for a given message"
\* (Extensions.swift): when a fetch fails, its alert is what is presented.
FetchFails(d) == Front(d, "fetched") /\ ~Head(mainQueue[d]).ok /\ FetchCouponsCompleted(d)
FailureIsDisplayed == [][\A d \in Device : FetchFails(d) => presented'[d] = "alert"]_vars
================================================================================
