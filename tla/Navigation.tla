------------------------------- MODULE Navigation -------------------------------
(***************************************************************************)
(* The screens of Celeste from launch to a section of the home page, each  *)
(* presented on the one before: who is there, the passcode, the main page, *)
(* home, a section.  A screen that is left first fades its controls, and   *)
(* the completions of these animations present the next one; touches, and  *)
(* other animations, fall in between.  A tick is 50 ms, of which all       *)
(* durations and delays in the code are multiples.                         *)
(***************************************************************************)
EXTENDS Integers, FiniteSets

CONSTANTS
    Who,                \* the persons
    Sections,           \* the sections of home
    TransitionTicks     \* how long Hero's transitions take

ASSUME TransitionAssumption == TransitionTicks \subseteq Nat \ {0}
ASSUME NamesAreDistinct ==
    (Who \cup Sections) \cap {"OTPField", "submitButton", "backButton", "lockButton",
        "refreshButton", "nextButton", "titleStack", "userImage", "closeButton"} = {}

VARIABLES
    front,          \* the screen on top
    transition,     \* the transition under way, and the ticks it has left
    faded,          \* the controls with alpha 0
    hidden,         \* the controls with isHidden
    titles,         \* per screen and label: where its transform has put it
    animations,     \* those under way
    who,            \* whose passcode is asked for
    code,           \* the text of the passcode field
    editing,        \* the field is first responder
    errorShown,     \* the error label is visible
    dateDiffType,   \* the unit of the date counter
    \* History, read by no action:
    tapped,         \* the person tapped last
    typed           \* the passcode was typed since the screen came up

viewVars == <<faded, hidden, titles, animations>>
otpVars == <<who, code, editing, errorShown, typed>>
vars == <<front, transition, viewVars, otpVars, dateDiffType, tapped>>

LaunchScreen == 0
WhoThis == 1
OTP == 2
MainScreen == 3
Home == 4
Section == 5
Screen == LaunchScreen..Section

Label == {"title", "subtitle"}
Code == {"short", "wrong", "right"}     \* fewer than four digits, or four
Units == {"years", "months", "days", "minutes"}

\* The controls of a screen, and those that are transparent at first.
Controls(screen) ==
    CASE screen = LaunchScreen -> {}
      [] screen = WhoThis      -> Who
      [] screen = OTP          -> {"OTPField", "submitButton", "backButton"}
      [] screen = MainScreen   -> {"lockButton", "refreshButton", "nextButton", "titleStack"}
      [] screen = Home         -> Sections \cup {"userImage"}
      [] screen = Section      -> {"closeButton"}
Transparent(screen) ==
    IF screen = Section THEN {} ELSE Controls(screen) \ {"backButton", "userImage"}
Control == UNION {Controls(screen) : screen \in Screen}

\* What a screen can be left for.
Destinations(screen) ==
    CASE screen = WhoThis    -> Who
      [] screen = OTP        -> {"main"}
      [] screen = MainScreen -> {"home"}
      [] screen = Home       -> Sections

\* An animation blocks the controls it animates; then its completion runs:
\* nothing, isHidden, the second half of leaving, or presenting "next".
Fade == [screen : Screen, controls : SUBSET Control, then : {"rest", "show", "hide"}, left : Nat]
Shift(screen) == [screen : {screen}, controls : {{}}, then : {"rise"}, label : Label,
                  next : Destinations(screen), left : Nat]
Exit(screen) == [screen : {screen}, controls : SUBSET Control, then : {"done"},
                 next : Destinations(screen), left : Nat]
Animation == Fade \cup Shift(WhoThis) \cup Shift(OTP)
                  \cup Exit(WhoThis) \cup Exit(OTP) \cup Exit(MainScreen) \cup Exit(Home)

\* The types of the variables; and nothing is animated on a screen that is
\* gone.
TypeOK ==
    /\ front \in Screen
    /\ transition \in [kind : {"none", "present", "dismiss"}, left : Nat]
    /\ faded \in SUBSET Control
    /\ hidden \in SUBSET Control
    /\ titles \in [{WhoThis, OTP} -> [Label -> {"home", "shifted", "risen"}]]
    /\ animations \in SUBSET Animation
    /\ who \in Who
    /\ code \in Code
    /\ editing \in BOOLEAN /\ errorShown \in BOOLEAN
    /\ dateDiffType \in Units
    /\ tapped \in Who /\ typed \in BOOLEAN
    /\ \A a \in animations : a.screen <= front

Settled == [kind |-> "none", left |-> 0]
AtHome == [label \in Label |-> "home"]

Init ==
    /\ front = LaunchScreen /\ transition = Settled
    /\ faded = {} /\ hidden = {} /\ animations = {}
    /\ titles = [screen \in {WhoThis, OTP} |-> AtHome]
    /\ who \in Who /\ tapped = who
    /\ code = "short" /\ editing = FALSE /\ errorShown = FALSE /\ typed = FALSE
    /\ dateDiffType = "days"

(***************************************************************************)
(* Presenting and dismissing.                                              *)
(***************************************************************************)
\* UIKit refuses to present on a controller that presents something already,
\* and during a transition.
CanPresent(screen) == front = screen /\ transition = Settled

\* A new controller, with a new view.
Present(screen) ==
    /\ front' = screen
    /\ \E t \in TransitionTicks : transition' = [kind |-> "present", left |-> t]
    /\ faded' = (faded \ Controls(screen)) \cup Transparent(screen)
    /\ hidden' = hidden \ Controls(screen)
    /\ titles' = IF screen = OTP THEN [titles EXCEPT ![OTP] = AtHome] ELSE titles

Dismiss ==
    /\ \E t \in TransitionTicks : transition' = [kind |-> "dismiss", left |-> t]
    /\ UNCHANGED front

\* An animation outside the window completes at once.
InWindow(screen) ==
    screen = front \/ (transition.kind # "none" /\ screen = front - 1)
Lasting(screen, ticks) == IF InWindow(screen) THEN ticks ELSE 0

Effect(screen, controls, then, ticks) ==
    [screen |-> screen, controls |-> controls, then |-> then, left |-> ticks]

(***************************************************************************)
(* Animations that the screens start.                                      *)
(***************************************************************************)
\* set(isPressed:animated:) of a component that is tapped.
Press(screen, control) == Effect(screen, {control}, "rest", 4)

\* appearAnimation: what fades in together, and when it is there.
Appearance(screen) ==
    CASE screen = WhoThis -> {<<Who, 10>>}
      [] screen = OTP     -> {<<{control}, 10>> : control \in Controls(OTP)}
      [] screen = MainScreen ->
             {<<{"lockButton"}, 6>>, <<{"refreshButton"}, 6>>, <<{"nextButton"}, 10>>,
              <<{"titleStack"}, 24>>}
      [] screen = Home    ->
             {<<{"userImage"}, 6>>} \cup
             {<<{section}, CASE section = "calendarView" -> 10
                             [] section = "couponsView"  -> 14
                             [] OTHER                    -> 16>> : section \in Sections}
      [] OTHER            -> {}

\* Only what was transparent is animated.
FadesIn(screen) ==
    {Effect(screen, fade[1], "show", fade[2]) :
        fade \in {f \in Appearance(screen) : f[1] \cap faded # {}}}

\* A fault: only what was transparent at first is brought back.
TransparentAtFirst(screen) == Transparent(screen)

FadingIn(screen) == UNION {fade[1] : fade \in Appearance(screen)}

\* A fault: a label that is shifted already is shifted once more.
ShiftInFull(screen, label) == IF label = "title" THEN 8 ELSE 16

\* The first half of leaving takes 0.4 s from its delay on, and no time if
\* it changes nothing.
ShiftTicks(screen, label) ==
    IF titles[screen][label] = "shifted" THEN 0
    ELSE IF label = "title" THEN 8 ELSE 16

\* handleDisappearAnimation of WhoThisView and OTPView.
Leaving(screen, next) ==
    {[screen |-> screen, controls |-> {}, then |-> "rise", label |-> label, next |-> next,
      left |-> ShiftTicks(screen, label)] : label \in Label}

\* The second half takes controls away with the label.
TakenAlong(screen, label) ==
    IF screen = WhoThis THEN IF label = "title" THEN Who ELSE {}
    ELSE IF label = "title" THEN {"OTPField"} ELSE {"submitButton", "backButton"}

\* fadeOut of controls, complete after some ticks, and what completes the
\* whole: handleDisappearAnimation of MainView and HomeView.
LeavingMain ==
    {Effect(MainScreen, {control}, "hide", 12) :
        control \in {"lockButton", "refreshButton", "nextButton"}}
    \cup {[screen |-> MainScreen, controls |-> {"titleStack"}, then |-> "done",
           next |-> "home", left |-> 12]}
LeavingHome(section) ==
    {Effect(Home, {s}, "hide", CASE s = "photosGalleryView" -> 6
                                 [] s = "couponsView"       -> 10
                                 [] OTHER                   -> 14) : s \in Sections}
    \cup {[screen |-> Home, controls |-> {"userImage"}, then |-> "done",
           next |-> section, left |-> 16]}

(***************************************************************************)
(* Time.  At each tick animations complete first, then a transition ends,  *)
(* then the screen can be touched.                                         *)
(***************************************************************************)
Due == {a \in animations : a.left = 0}
Passing == transition # Settled /\ transition.left = 0

Tick ==
    /\ Due = {} /\ ~Passing
    /\ animations # {} \/ transition # Settled
    /\ animations' = {[a EXCEPT !.left = @ - 1] : a \in animations}
    /\ transition' = IF transition = Settled THEN Settled ELSE [transition EXCEPT !.left = @ - 1]
    /\ UNCHANGED <<front, faded, hidden, titles, otpVars, dateDiffType, tapped>>

\* The completions of fadeIn, fadeOut and a press.
FadeCompleted(a) ==
    /\ a \in Due /\ a.then \in {"rest", "show", "hide"}
    /\ animations' = animations \ {a}
    /\ hidden' = CASE a.then = "show" -> hidden \ a.controls
                   [] a.then = "hide" -> hidden \cup a.controls
                   [] OTHER           -> hidden
    /\ UNCHANGED <<front, transition, faded, titles, otpVars, dateDiffType, tapped>>

\* A fault: the first half is started again.
RiseAgain(a) ==
    /\ animations' = (animations \ {a}) \cup {[a EXCEPT !.left = Lasting(a.screen, 8)]}
    /\ UNCHANGED <<titles, faded>>

Rise(a) ==
    /\ titles' = [titles EXCEPT ![a.screen][a.label] = "risen"]
    /\ faded' = faded \cup TakenAlong(a.screen, a.label)
    /\ animations' = (animations \ {a}) \cup
           {[screen |-> a.screen, controls |-> TakenAlong(a.screen, a.label),
             then |-> "done", next |-> a.next, left |-> Lasting(a.screen, 8)]}

\* The first half of leaving is complete.
ShiftCompleted(a) ==
    /\ a \in Due /\ a.then = "rise"
    /\ Rise(a)
    /\ UNCHANGED <<front, transition, hidden, otpVars, dateDiffType, tapped>>

\* presentOTP, for the person whose tap it was that completes first.
PresentOTP(a) ==
    /\ a \in Due /\ a.then = "done" /\ a.screen = WhoThis
    /\ animations' = animations \ {a}
    /\ IF CanPresent(WhoThis)
       THEN /\ Present(OTP)
            /\ who' = a.next /\ code' = "short" /\ editing' = FALSE
            /\ errorShown' = FALSE /\ typed' = FALSE
       ELSE UNCHANGED <<front, transition, faded, hidden, titles, otpVars>>
    /\ UNCHANGED <<dateDiffType, tapped>>

\* A fault: the passcode stays in its field.
OTPDoneLeavingCode(a) == UNCHANGED code

\* The completion clears the field, whether or not it presents anything.
OTPDone(a) == code' = "short"

\* transitionToMainScreen.
TransitionToMainScreen(a) ==
    /\ a \in Due /\ a.then = "done" /\ a.screen = OTP
    /\ animations' = animations \ {a}
    /\ OTPDone(a)
    /\ IF CanPresent(OTP)
       THEN Present(MainScreen) /\ dateDiffType' = "days"
       ELSE UNCHANGED <<front, transition, faded, hidden, titles, dateDiffType>>
    /\ UNCHANGED <<who, editing, errorShown, typed, tapped>>

\* presentHomePage; presentCalendar, presentCoupon, presentPhotoGallery.
PresentNext(a) ==
    /\ a \in Due /\ a.then = "done" /\ a.screen \in {MainScreen, Home}
    /\ animations' = animations \ {a}
    /\ IF CanPresent(a.screen) THEN Present(a.screen + 1)
       ELSE UNCHANGED <<front, transition, faded, hidden, titles>>
    /\ UNCHANGED <<otpVars, dateDiffType, tapped>>

\* viewDidAppear; the didSet of presented, which comes after it, finds
\* nothing left to animate.
Appear(screen) ==
    /\ faded' = faded \ FadingIn(screen)
    /\ hidden' = hidden \ FadingIn(screen)
    /\ titles' = IF screen \in {WhoThis, OTP} THEN [titles EXCEPT ![screen] = AtHome] ELSE titles

\* A screen that is presented covers the one below, whose animations end.
PresentationEnds ==
    /\ Passing /\ Due = {} /\ transition.kind = "present"
    /\ transition' = Settled
    /\ Appear(front)
    /\ animations' = FadesIn(front) \cup
           {IF a.screen < front THEN [a EXCEPT !.left = 0] ELSE a : a \in animations}
    /\ UNCHANGED <<front, otpVars, dateDiffType, tapped>>

\* A fault: the animations of the dismissed screen are kept.
KeptAnimations == animations

\* The dismissed controller is gone, and with it what its completions do.
Remaining == {a \in animations : a.screen < front}

\* A passcode field that was first responder when it was covered may be so
\* again.
DismissalEnds ==
    /\ Passing /\ Due = {} /\ transition.kind = "dismiss"
    /\ front' = front - 1
    /\ transition' = Settled
    /\ Appear(front - 1)
    /\ animations' = FadesIn(front - 1) \cup Remaining
    /\ IF front - 1 = OTP
       THEN /\ editing' \in {FALSE, editing}
            /\ errorShown' = (errorShown /\ ~editing')
            /\ typed' = FALSE
       ELSE UNCHANGED <<editing, errorShown, typed>>
    /\ UNCHANGED <<who, code, dateDiffType, tapped>>

(***************************************************************************)
(* Touches.                                                                *)
(***************************************************************************)
OnTop(screen) == CanPresent(screen) /\ Due = {}

Touchable(screen, control) ==
    /\ OnTop(screen)
    /\ control \notin faded \cup hidden
    /\ ~\E a \in animations : a.screen = screen /\ control \in a.controls

\* The launch animation stops.
GifDidStop ==
    /\ OnTop(LaunchScreen)
    /\ Present(WhoThis)
    /\ UNCHANGED <<animations, otpVars, dateDiffType, tapped>>

\* laurenComponent, antonioComponent.
PersonTapped(person) ==
    /\ Touchable(WhoThis, person)
    /\ animations' = animations \cup {Press(WhoThis, person)} \cup Leaving(WhoThis, person)
    /\ titles' = [titles EXCEPT ![WhoThis] = [label \in Label |-> "shifted"]]
    /\ tapped' = person
    /\ UNCHANGED <<front, transition, faded, hidden, otpVars, dateDiffType>>

\* The field begins to be edited: textFieldDidBeginEditing hides the error.
FieldTapped ==
    /\ Touchable(OTP, "OTPField") /\ ~editing
    /\ editing' = TRUE /\ errorShown' = FALSE
    /\ UNCHANGED <<front, transition, viewVars, who, code, typed, dateDiffType, tapped>>

\* dismissKeyboard.
TappedAround ==
    /\ OnTop(OTP) /\ editing
    /\ editing' = FALSE
    /\ UNCHANGED <<front, transition, viewVars, who, code, errorShown, typed, dateDiffType, tapped>>

\* The keyboard, also while the field fades.
Type(text) ==
    /\ OnTop(OTP) /\ editing
    /\ code # text /\ code' = text
    /\ typed' = (typed \/ text = "right")
    /\ UNCHANGED <<front, transition, viewVars, who, editing, errorShown, dateDiffType, tapped>>

\* submitTapped with too few digits: becomeFirstResponder.
SubmitShort ==
    /\ Touchable(OTP, "submitButton") /\ code = "short"
    /\ editing' = TRUE /\ errorShown' = (errorShown /\ editing)
    /\ animations' = animations \cup {Press(OTP, "submitButton")}
    /\ UNCHANGED <<front, transition, faded, hidden, titles, who, code, typed, dateDiffType, tapped>>

SubmitRight ==
    /\ Touchable(OTP, "submitButton") /\ code = "right"
    /\ animations' = animations \cup {Press(OTP, "submitButton")} \cup Leaving(OTP, "main")
    /\ titles' = [titles EXCEPT ![OTP] = [label \in Label |-> "shifted"]]
    /\ UNCHANGED <<front, transition, faded, hidden, otpVars, dateDiffType, tapped>>

SubmitWrong ==
    /\ Touchable(OTP, "submitButton") /\ code = "wrong"
    /\ errorShown' = TRUE
    /\ animations' = animations \cup {Press(OTP, "submitButton")}
    /\ UNCHANGED <<front, transition, faded, hidden, titles, who, code, editing, typed,
                   dateDiffType, tapped>>

\* backButton, lockButton, userImage, and the button that closes a section:
\* dismiss(animated:).
CloseTapped(screen, control) ==
    /\ <<screen, control>> \in {<<OTP, "backButton">>, <<MainScreen, "lockButton">>,
                                <<Home, "userImage">>, <<Section, "closeButton">>}
    /\ Touchable(screen, control)
    /\ Dismiss
    /\ UNCHANGED <<viewVars, otpVars, dateDiffType, tapped>>

\* The cases of DateDiffType are numbered from 1.
RawValue == [years |-> 1, months |-> 2, days |-> 3, minutes |-> 4]

DetermineDiffType(index) ==
    CASE index = 1 -> "years"
      [] index = 2 -> "months"
      [] index = 3 -> "days"
      [] OTHER     -> "minutes"

NextUnit(unit) == DetermineDiffType((RawValue[unit] + 1) % Cardinality(Units))

\* refreshButton, and the date counter itself.
TimeDateTapped ==
    /\ Touchable(MainScreen, "refreshButton") \/ Touchable(MainScreen, "titleStack")
    /\ dateDiffType' = NextUnit(dateDiffType)
    /\ UNCHANGED <<front, transition, viewVars, otpVars, tapped>>

\* nextButton.
NextTapped ==
    /\ Touchable(MainScreen, "nextButton")
    /\ faded' = faded \cup Controls(MainScreen)
    /\ animations' = animations \cup LeavingMain
    /\ UNCHANGED <<front, transition, hidden, titles, otpVars, dateDiffType, tapped>>

\* calendarView, couponsView, photosGalleryView.
SectionTapped(section) ==
    /\ Touchable(Home, section)
    /\ faded' = faded \cup Controls(Home)
    /\ animations' = animations \cup {Press(Home, section)} \cup LeavingHome(section)
    /\ UNCHANGED <<front, transition, hidden, titles, otpVars, dateDiffType, tapped>>

Completion(a) ==
    \/ FadeCompleted(a)
    \/ ShiftCompleted(a)
    \/ PresentOTP(a)
    \/ TransitionToMainScreen(a)
    \/ PresentNext(a)

Touch ==
    \/ GifDidStop
    \/ \E person \in Who : PersonTapped(person)
    \/ FieldTapped \/ TappedAround \/ \E text \in Code : Type(text)
    \/ SubmitShort \/ SubmitRight \/ SubmitWrong
    \/ \E screen \in Screen, control \in Control : CloseTapped(screen, control)
    \/ TimeDateTapped
    \/ NextTapped
    \/ \E section \in Sections : SectionTapped(section)

Next ==
    \/ Tick
    \/ \E a \in animations : Completion(a)
    \/ PresentationEnds
    \/ DismissalEnds
    \/ Touch

Spec == Init /\ [][Next]_vars

\* Time passes, and what is due happens.
Fairness ==
    /\ WF_vars(Tick)
    /\ WF_vars(\E a \in animations : Completion(a))
    /\ WF_vars(PresentationEnds)
    /\ WF_vars(DismissalEnds)

FairSpec == Spec /\ Fairness

(***************************************************************************)
(* Properties.                                                             *)
(***************************************************************************)
\* The main screen and what lies behind it is reached only by somebody who
\* typed the passcode since the passcode screen came up, be it for the first
\* time or by locking, although the animation started by Submit completes
\* twice and typing, Submit and Back can fall in between.
Gate == INSTANCE PasscodeGate WITH
    place <- IF front < OTP THEN "outside" ELSE IF front = OTP THEN "asked" ELSE "inside"
GateSpec == Gate!GateSpec

\* If both persons are tapped before their screen has gone, the passcode
\* screen greets the one who was tapped last (WhoThisViewController).
AsksLastTapped == [][front = WhoThis /\ front' = OTP => who' = tapped]_vars

\* Nobody is left before a screen that has come to rest without all of its
\* controls: what fades out before the next screen is back when that screen
\* is left (fadeIn, fadeOut, appearAnimation, handleDisappearAnimation).
NoDeadScreen ==
    transition = Settled /\ animations = {} =>
        \A control \in Controls(front) : Touchable(front, control)

\* A screen that has begun to leave is left.
LeavingIsDone ==
    \A screen \in WhoThis..Home :
        (front = screen /\ \E a \in animations : a.screen = screen /\ a.then \in {"rise", "done"})
            ~> front # screen
================================================================================
