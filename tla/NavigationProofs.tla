----------------------------- MODULE NavigationProofs -----------------------------
(***************************************************************************)
(* The types of Navigation; that it implements PasscodeGate; that every    *)
(* screen comes back whole and the person tapped last is asked.  That      *)
(* TypeOK does not suffice for the gate is because of the completions that *)
(* are still to come when the passcode screen is left, see CodeInv; that a *)
(* screen is whole when it is at rest is because one that misses a control *)
(* is about to be left, see ControlsBack.                                  *)
(***************************************************************************)
EXTENDS Navigation, TLAPS

USE DEF LaunchScreen, WhoThis, OTP, MainScreen, Home, Section, Screen

(***************************************************************************)
(* Animations.                                                             *)
(***************************************************************************)
LEMMA AnimationKinds ==
    ASSUME NEW a
    PROVE  a \in Animation <=> \/ a \in Fade
                               \/ \E screen \in {WhoThis, OTP} : a \in Shift(screen)
                               \/ \E screen \in WhoThis..Home : a \in Exit(screen)
  BY DEF Animation

LEMMA AnimationParts ==
    ASSUME NEW a \in Animation
    PROVE  /\ a.screen \in Screen /\ a.controls \in SUBSET Control /\ a.left \in Nat
           /\ a.then \in {"rest", "show", "hide", "rise", "done"}
           /\ a.then = "rise" => a \in Shift(a.screen)
           /\ a.then = "done" => a \in Exit(a.screen)
  <1>1. CASE a \in Fade
    BY <1>1 DEF Fade
  <1>2. CASE \E screen \in {WhoThis, OTP} : a \in Shift(screen)
    BY <1>2 DEF Shift
  <1>3. CASE \E screen \in WhoThis..Home : a \in Exit(screen)
    BY <1>3 DEF Exit
  <1> QED BY <1>1, <1>2, <1>3, AnimationKinds

\* Time changes nothing of an animation but what is left of it.
LEMMA Relasting ==
    ASSUME NEW a \in Animation, NEW n \in Nat
    PROVE  LET b == [a EXCEPT !.left = n]
           IN  b \in Animation /\ b.screen = a.screen /\ b.then = a.then /\ b.left = n
  <1> DEFINE b == [a EXCEPT !.left = n]
  <1>1. CASE a \in Fade
    <2>1. b \in Fade /\ b.screen = a.screen /\ b.then = a.then /\ b.left = n
      BY <1>1 DEF Fade
    <2> QED BY <2>1, AnimationKinds
  <1>2. CASE \E screen \in {WhoThis, OTP} : a \in Shift(screen)
    <2>1. PICK screen \in {WhoThis, OTP} : a \in Shift(screen)
      BY <1>2
    <2>2. b \in Shift(screen) /\ b.screen = a.screen /\ b.then = a.then /\ b.left = n
      BY <2>1 DEF Shift
    <2> QED BY <2>2, AnimationKinds
  <1>3. CASE \E screen \in WhoThis..Home : a \in Exit(screen)
    <2>1. PICK screen \in WhoThis..Home : a \in Exit(screen)
      BY <1>3
    <2>2. b \in Exit(screen) /\ b.screen = a.screen /\ b.then = a.then /\ b.left = n
      BY <2>1 DEF Exit
    <2> QED BY <2>2, AnimationKinds
  <1> QED BY <1>1, <1>2, <1>3, AnimationKinds

LEMMA ControlsAreControl ==
    ASSUME NEW screen \in Screen
    PROVE  Controls(screen) \in SUBSET Control /\ Transparent(screen) \in SUBSET Control
  BY DEF Control, Transparent

\* What is in Control, by name.
LEMMA ControlNames ==
    /\ Who \subseteq Control /\ Sections \subseteq Control
    /\ {"OTPField", "submitButton", "backButton", "lockButton", "refreshButton", "nextButton",
        "titleStack", "userImage", "closeButton"} \subseteq Control
  <1>1. Who = Controls(WhoThis)
    BY DEF Controls
  <1>2. {"OTPField", "submitButton", "backButton"} = Controls(OTP)
    BY DEF Controls
  <1>3. {"lockButton", "refreshButton", "nextButton", "titleStack"} = Controls(MainScreen)
    BY DEF Controls
  <1>4. Sections \cup {"userImage"} = Controls(Home)
    BY DEF Controls
  <1>5. {"closeButton"} = Controls(Section)
    BY DEF Controls
  <1> QED BY <1>1, <1>2, <1>3, <1>4, <1>5, ControlsAreControl

LEMMA AppearanceTyped ==
    ASSUME NEW screen \in Screen, NEW fade \in Appearance(screen)
    PROVE  fade[1] \in SUBSET Control /\ fade[2] \in Nat
  <1>1. CASE screen = WhoThis
    <2>1. fade = <<Who, 10>>
      BY <1>1 DEF Appearance
    <2> QED BY <2>1, ControlNames
  <1>2. CASE screen = OTP
    <2>1. PICK control \in Controls(OTP) : fade = <<{control}, 10>>
      BY <1>2 DEF Appearance
    <2> QED BY <2>1, ControlsAreControl
  <1>3. CASE screen = MainScreen
    <2>1. fade \in {<<{"lockButton"}, 6>>, <<{"refreshButton"}, 6>>, <<{"nextButton"}, 10>>,
                    <<{"titleStack"}, 24>>}
      BY <1>3 DEF Appearance
    <2> QED BY <2>1, ControlNames
  <1>4. CASE screen = Home
    <2>1. \/ fade = <<{"userImage"}, 6>>
          \/ \E section \in Sections, n \in Nat : fade = <<{section}, n>>
      BY <1>4 DEF Appearance
    <2> QED BY <2>1, ControlNames
  <1>5. CASE screen \in {LaunchScreen, Section}
    BY <1>5 DEF Appearance
  <1> QED BY <1>1, <1>2, <1>3, <1>4, <1>5

LEMMA EffectTyped ==
    ASSUME NEW screen \in Screen, NEW controls \in SUBSET Control,
           NEW then \in {"rest", "show", "hide"}, NEW n \in Nat
    PROVE  /\ Effect(screen, controls, then, n) \in Animation
           /\ Effect(screen, controls, then, n).screen = screen
           /\ Effect(screen, controls, then, n).then = then
  BY AnimationKinds DEF Effect, Fade

LEMMA FadesInTyped ==
    ASSUME NEW screen \in Screen
    PROVE  \A a \in FadesIn(screen) : a \in Animation /\ a.screen = screen /\ a.then = "show"
  <1> SUFFICES ASSUME NEW a \in FadesIn(screen)
               PROVE  a \in Animation /\ a.screen = screen /\ a.then = "show"
    OBVIOUS
  <1>1. PICK fade \in Appearance(screen) : a = Effect(screen, fade[1], "show", fade[2])
    BY DEF FadesIn
  <1>2. fade[1] \in SUBSET Control /\ fade[2] \in Nat
    BY AppearanceTyped
  <1> QED BY <1>1, <1>2, AnimationKinds DEF Effect, Fade

LEMMA FadingInTyped ==
    ASSUME NEW screen \in Screen
    PROVE  FadingIn(screen) \in SUBSET Control
  BY AppearanceTyped DEF FadingIn

(***************************************************************************)
(* The invariant.                                                          *)
(***************************************************************************)
\* The launch screen and the first one are never dismissed.
TransitionInv ==
    /\ transition.kind = "none" => transition = Settled
    /\ transition.kind = "dismiss" => front >= OTP

\* What Submit started on the passcode screen and is still to complete.
Submitted == {a \in animations : a.screen = OTP /\ a.then \in {"rise", "done"}}

\* Such a completion would let somebody in, so it may not survive until the
\* passcode is asked for again: once the screen is covered it is due at
\* once, and nothing is due when the main screen begins to be dismissed.
CodeInv ==
    /\ code = "right" => typed
    /\ front = OTP /\ Submitted # {} => typed
    /\ front >= MainScreen => code # "right"
    /\ front >= MainScreen /\ (front = MainScreen => transition.kind # "present") =>
           \A a \in Submitted : a.left = 0
    /\ front = MainScreen /\ transition.kind = "dismiss" => Submitted = {}

NavigationInv == TypeOK /\ TransitionInv /\ CodeInv

\* TypeOK in parts that most actions keep as a whole.
ScreenTyped == front \in Screen /\ transition \in [kind : {"none", "present", "dismiss"}, left : Nat]
ViewTyped ==
    /\ faded \in SUBSET Control /\ hidden \in SUBSET Control
    /\ titles \in [{WhoThis, OTP} -> [Label -> {"home", "shifted", "risen"}]]
AnimationTyped == animations \in SUBSET Animation /\ \A a \in animations : a.screen <= front
OtpTyped == who \in Who /\ code \in Code /\ editing \in BOOLEAN /\ errorShown \in BOOLEAN
            /\ typed \in BOOLEAN
RestTyped == dateDiffType \in Units /\ tapped \in Who

LEMMA TypeOKParts ==
    TypeOK <=> ScreenTyped /\ ViewTyped /\ AnimationTyped /\ OtpTyped /\ RestTyped
  BY DEF TypeOK, ScreenTyped, ViewTyped, AnimationTyped, OtpTyped, RestTyped

LEMMA TypeOKPartsPrime ==
    TypeOK' <=> ScreenTyped' /\ ViewTyped' /\ AnimationTyped' /\ OtpTyped' /\ RestTyped'
  BY DEF TypeOK, ScreenTyped, ViewTyped, AnimationTyped, OtpTyped, RestTyped

LEMMA SameOtp == OtpTyped /\ UNCHANGED otpVars => OtpTyped'
  BY DEF OtpTyped, otpVars

LEMMA SameRest == RestTyped /\ UNCHANGED <<dateDiffType, tapped>> => RestTyped'
  BY DEF RestTyped

LEMMA SameViews == ViewTyped /\ UNCHANGED <<faded, hidden, titles>> => ViewTyped'
  BY DEF ViewTyped

LEMMA SameScreens == ScreenTyped /\ UNCHANGED <<front, transition>> => ScreenTyped'
  BY DEF ScreenTyped

\* Animations of screens that are there.
LEMMA MoreAnimations ==
    ASSUME AnimationTyped, ScreenTyped, front' \in Screen, front' >= front,
           \A a \in animations' \ animations : a \in Animation /\ a.screen <= front'
    PROVE  AnimationTyped'
  <1>1. \A a \in animations : a \in Animation /\ a.screen \in Screen /\ a.screen <= front
    BY AnimationParts DEF AnimationTyped
  <1> QED BY <1>1 DEF AnimationTyped, ScreenTyped

(***************************************************************************)
(* What handlers start and set.                                            *)
(***************************************************************************)
LEMMA PressTyped ==
    ASSUME NEW screen \in Screen, NEW control \in Control
    PROVE  /\ Press(screen, control) \in Animation
           /\ Press(screen, control).then = "rest"
           /\ Press(screen, control).screen = screen
  BY AnimationKinds DEF Press, Effect, Fade

LEMMA LeavingTyped ==
    ASSUME NEW screen \in {WhoThis, OTP}, NEW next \in Destinations(screen)
    PROVE  \A a \in Leaving(screen, next) : a \in Animation /\ a.screen = screen
  <1> SUFFICES ASSUME NEW a \in Leaving(screen, next)
               PROVE  a \in Animation /\ a.screen = screen
    OBVIOUS
  <1>1. PICK label \in Label :
            a = [screen |-> screen, controls |-> {}, then |-> "rise", label |-> label,
                 next |-> next, left |-> ShiftTicks(screen, label)]
    BY DEF Leaving
  <1>2. ShiftTicks(screen, label) \in Nat
    BY DEF ShiftTicks
  <1>3. a \in Shift(screen)
    BY <1>1, <1>2 DEF Shift
  <1> QED BY <1>1, <1>3, AnimationKinds

LEMMA LeavingMainTyped ==
    \A a \in LeavingMain : a \in Animation /\ a.screen = MainScreen
  <1> SUFFICES ASSUME NEW a \in LeavingMain
               PROVE  a \in Animation /\ a.screen = MainScreen
    OBVIOUS
  <1>1. CASE \E control \in Control : a = Effect(MainScreen, {control}, "hide", 12)
    BY <1>1, AnimationKinds DEF Effect, Fade
  <1>2. CASE a = [screen |-> MainScreen, controls |-> {"titleStack"}, then |-> "done",
                  next |-> "home", left |-> 12]
    <2>1. a \in Exit(MainScreen)
      BY <1>2, ControlNames DEF Exit, Destinations
    <2> QED BY <1>2, <2>1, AnimationKinds
  <1>3. \/ \E control \in {"lockButton", "refreshButton", "nextButton"} :
               a = Effect(MainScreen, {control}, "hide", 12)
        \/ a = [screen |-> MainScreen, controls |-> {"titleStack"}, then |-> "done",
                next |-> "home", left |-> 12]
    BY DEF LeavingMain
  <1> QED BY <1>1, <1>2, <1>3, ControlNames

LEMMA LeavingHomeTyped ==
    ASSUME NEW section \in Sections
    PROVE  \A a \in LeavingHome(section) : a \in Animation /\ a.screen = Home
  <1> SUFFICES ASSUME NEW a \in LeavingHome(section)
               PROVE  a \in Animation /\ a.screen = Home
    OBVIOUS
  <1>1. CASE a.then # "done"
    <2>1. PICK s \in Sections, n \in Nat : a = Effect(Home, {s}, "hide", n)
      BY <1>1 DEF LeavingHome
    <2> QED BY <2>1, AnimationKinds, ControlNames DEF Effect, Fade
  <1>2. CASE a.then = "done"
    <2>1. a = [screen |-> Home, controls |-> {"userImage"}, then |-> "done",
               next |-> section, left |-> 16]
      BY <1>2 DEF LeavingHome, Effect
    <2>2. a \in Exit(Home)
      BY <2>1, ControlNames DEF Exit, Destinations
    <2> QED BY <2>1, <2>2, AnimationKinds
  <1> QED BY <1>1, <1>2

LEMMA PresentTyped ==
    ASSUME ViewTyped, NEW screen \in Screen, Present(screen)
    PROVE  front' = screen /\ transition'.kind = "present" /\ ScreenTyped' /\ ViewTyped'
  <1>1. faded' \in SUBSET Control /\ hidden' \in SUBSET Control
    BY ControlsAreControl DEF Present, ViewTyped
  <1>2. titles' \in [{WhoThis, OTP} -> [Label -> {"home", "shifted", "risen"}]]
    BY DEF Present, ViewTyped, AtHome
  <1> QED BY <1>1, <1>2, TransitionAssumption DEF Present, ScreenTyped, ViewTyped

LEMMA AppearTyped ==
    ASSUME ViewTyped, NEW screen \in Screen, Appear(screen)
    PROVE  ViewTyped'
  <1>1. faded' \in SUBSET Control /\ hidden' \in SUBSET Control
    BY DEF Appear, ViewTyped
  <1>2. titles' \in [{WhoThis, OTP} -> [Label -> {"home", "shifted", "risen"}]]
    BY DEF Appear, ViewTyped, AtHome
  <1> QED BY <1>1, <1>2 DEF ViewTyped

(***************************************************************************)
(* Each action keeps the invariant.                                        *)
(***************************************************************************)
LEMMA InitInv == Init => NavigationInv
  <1> SUFFICES ASSUME Init PROVE NavigationInv
    OBVIOUS
  <1>1. ScreenTyped
    BY DEF Init, ScreenTyped, Settled
  <1>2. ViewTyped
    BY DEF Init, ViewTyped, AtHome
  <1>3. AnimationTyped /\ OtpTyped /\ RestTyped
    BY DEF Init, AnimationTyped, OtpTyped, RestTyped, Units, Code
  <1>4. TransitionInv /\ CodeInv
    BY DEF Init, TransitionInv, CodeInv, Settled
  <1> QED BY <1>1, <1>2, <1>3, <1>4, TypeOKParts DEF NavigationInv

\* Handlers that keep the screen and start nothing on the passcode screen.
LEMMA FewerSubmitted ==
    ASSUME NavigationInv, Submitted' \subseteq Submitted,
           UNCHANGED <<front, transition, typed>>, code' = code \/ code' = "short"
    PROVE  CodeInv' /\ TransitionInv'
  BY DEF NavigationInv, CodeInv, TransitionInv, Settled

LEMMA TickInv == NavigationInv /\ Tick => NavigationInv'
  <1> SUFFICES ASSUME NavigationInv, Tick PROVE NavigationInv'
    OBVIOUS
  <1>t. ScreenTyped /\ ViewTyped /\ AnimationTyped /\ OtpTyped /\ RestTyped
    BY TypeOKParts DEF NavigationInv
  <1>1. \A b \in animations' : \E a \in animations :
            b \in Animation /\ b.screen = a.screen /\ b.then = a.then /\ a.left # 0
    <2> SUFFICES ASSUME NEW b \in animations'
                 PROVE  \E a \in animations :
                            b \in Animation /\ b.screen = a.screen /\ b.then = a.then /\ a.left # 0
      OBVIOUS
    <2>1. PICK a \in animations : b = [a EXCEPT !.left = a.left - 1]
      BY DEF Tick
    <2>2. a \in Animation /\ a.left # 0
      BY <1>t DEF AnimationTyped, Tick, Due
    <2>3. a.left - 1 \in Nat
      BY <2>2, AnimationParts
    <2>4. b \in Animation /\ b.screen = a.screen /\ b.then = a.then
      BY <2>1, <2>2, <2>3, Relasting
    <2> QED BY <2>2, <2>4
  <1>2. /\ transition' \in [kind : {"none", "present", "dismiss"}, left : Nat]
        /\ transition'.kind = transition.kind
        /\ transition = Settled => transition' = Settled
    BY <1>t DEF Tick, Passing, ScreenTyped
  <1>3. front' = front /\ UNCHANGED <<faded, hidden, titles, otpVars, dateDiffType, tapped>>
    BY DEF Tick
  <1>4. ScreenTyped' /\ AnimationTyped'
    BY <1>t, <1>1, <1>2, <1>3 DEF ScreenTyped, AnimationTyped
  <1>5. TypeOK'
    BY <1>t, <1>3, <1>4, SameViews, SameOtp, SameRest, TypeOKPartsPrime
  <1>6. TransitionInv'
    BY <1>2, <1>3 DEF NavigationInv, TransitionInv, Settled
  <1>7. \A b \in Submitted' : \E a \in Submitted : a.left # 0
    BY <1>1 DEF Submitted
  <1>8. CodeInv'
    BY <1>2, <1>3, <1>7 DEF otpVars, NavigationInv, CodeInv
  <1> QED BY <1>5, <1>6, <1>8 DEF NavigationInv

LEMMA FadeCompletedInv ==
    ASSUME NavigationInv, NEW a \in animations, FadeCompleted(a)
    PROVE  NavigationInv'
  <1>t. ScreenTyped /\ ViewTyped /\ AnimationTyped /\ OtpTyped /\ RestTyped
    BY TypeOKParts DEF NavigationInv
  <1>1. a.controls \in SUBSET Control
    BY <1>t, AnimationParts DEF AnimationTyped
  <1>2. ViewTyped'
    BY <1>t, <1>1 DEF FadeCompleted, ViewTyped
  <1>3. animations' \subseteq animations /\ UNCHANGED <<front, transition, otpVars, dateDiffType, tapped>>
    BY DEF FadeCompleted
  <1>4. AnimationTyped'
    BY <1>t, <1>3 DEF AnimationTyped
  <1>5. TypeOK'
    BY <1>t, <1>2, <1>3, <1>4, SameScreens, SameOtp, SameRest, TypeOKPartsPrime
  <1>6. Submitted' \subseteq Submitted
    BY <1>3 DEF Submitted
  <1> QED BY <1>3, <1>5, <1>6, FewerSubmitted DEF NavigationInv, otpVars

\* What the first half starts is due at once on a screen that is covered.
LEMMA ShiftCompletedInv ==
    ASSUME NavigationInv, NEW a \in animations, ShiftCompleted(a)
    PROVE  NavigationInv'
  <1>t. ScreenTyped /\ ViewTyped /\ AnimationTyped /\ OtpTyped /\ RestTyped
    BY TypeOKParts DEF NavigationInv
  <1> DEFINE b == [screen |-> a.screen, controls |-> TakenAlong(a.screen, a.label),
                   then |-> "done", next |-> a.next, left |-> Lasting(a.screen, 8)]
  <1>1. a \in Animation /\ a \in Shift(a.screen) /\ a.left = 0 /\ a.then = "rise" /\ a.screen <= front
    BY <1>t, AnimationParts DEF AnimationTyped, ShiftCompleted, Due
  <1>2. a.screen \in {WhoThis, OTP}
    BY <1>1, AnimationKinds DEF Fade, Shift, Exit
  <1>3. a.label \in Label /\ a.next \in Destinations(a.screen)
    BY <1>1 DEF Shift
  <1>4. TakenAlong(a.screen, a.label) \in SUBSET Control
    BY ControlNames DEF TakenAlong
  <1>5. Lasting(a.screen, 8) \in Nat
    BY DEF Lasting
  <1>6. b \in Exit(a.screen)
    BY <1>3, <1>4, <1>5 DEF Exit
  <1>7. b \in Animation
    BY <1>2, <1>6, AnimationKinds
  <1>8. animations' = (animations \ {a}) \cup {b}
    BY DEF ShiftCompleted, Rise
  <1>9. UNCHANGED <<front, transition, hidden, otpVars, dateDiffType, tapped>>
    BY DEF ShiftCompleted
  <1>10. ViewTyped'
    <2>1. titles' \in [{WhoThis, OTP} -> [Label -> {"home", "shifted", "risen"}]]
      BY <1>t, <1>2, <1>3 DEF ShiftCompleted, Rise, ViewTyped
    <2> QED BY <1>t, <1>4, <1>9, <2>1 DEF ShiftCompleted, Rise, ViewTyped
  <1>11. AnimationTyped'
    BY <1>t, <1>1, <1>7, <1>8, <1>9 DEF AnimationTyped
  <1>12. TypeOK'
    BY <1>t, <1>9, <1>10, <1>11, SameScreens, SameOtp, SameRest, TypeOKPartsPrime
  <1>13. Submitted' \subseteq Submitted \cup {b} /\ (a.screen # OTP => Submitted' \subseteq Submitted)
    BY <1>8 DEF Submitted
  <1>14. CASE a.screen # OTP
    BY <1>9, <1>12, <1>13, <1>14, FewerSubmitted DEF NavigationInv, otpVars
  <1>15. CASE a.screen = OTP
    <2>1. a \in Submitted
      BY <1>1, <1>15 DEF Submitted
    <2>2. front > MainScreen \/ (front = MainScreen /\ transition.kind = "none") => b.left = 0
      BY <1>15 DEF Lasting, InWindow
    <2>3. front = MainScreen /\ transition.kind # "present" => transition.kind = "none"
      BY <1>t, <2>1 DEF NavigationInv, CodeInv, ScreenTyped
    <2>4. CodeInv'
      BY <1>9, <1>13, <1>t, <2>1, <2>2, <2>3 DEF NavigationInv, CodeInv, otpVars, ScreenTyped
    <2>5. TransitionInv'
      BY <1>9 DEF NavigationInv, TransitionInv, Settled
    <2> QED BY <1>12, <2>4, <2>5 DEF NavigationInv
  <1> QED BY <1>14, <1>15

LEMMA PresentOTPInv ==
    ASSUME NavigationInv, NEW a \in animations, PresentOTP(a)
    PROVE  NavigationInv'
  <1>t. ScreenTyped /\ ViewTyped /\ AnimationTyped /\ OtpTyped /\ RestTyped
    BY TypeOKParts DEF NavigationInv
  <1>1. animations' \subseteq animations /\ UNCHANGED <<dateDiffType, tapped>>
    BY DEF PresentOTP
  <1>2. CASE CanPresent(WhoThis)
    <2>1. front = WhoThis /\ Present(OTP)
      BY <1>2 DEF PresentOTP, CanPresent
    <2>2. a.next \in Who
      BY <1>t, AnimationParts DEF PresentOTP, AnimationTyped, Exit, Destinations
    <2>3. front' = OTP /\ transition'.kind = "present" /\ ScreenTyped' /\ ViewTyped'
      BY <1>t, <2>1, PresentTyped
    <2>4. who' = a.next /\ code' = "short" /\ editing' = FALSE /\ errorShown' = FALSE /\ typed' = FALSE
      BY <1>2 DEF PresentOTP
    <2>5. OtpTyped'
      BY <2>2, <2>4 DEF OtpTyped, Code
    <2>6. AnimationTyped'
      BY <1>t, <1>1, <2>1, <2>3, MoreAnimations
    <2>7. Submitted' = {}
      BY <1>t, <1>1, <2>1 DEF Submitted, AnimationTyped
    <2>8. TransitionInv' /\ CodeInv'
      BY <2>3, <2>4, <2>7 DEF TransitionInv, CodeInv
    <2> QED BY <1>t, <1>1, <2>3, <2>5, <2>6, <2>8, SameRest, TypeOKPartsPrime DEF NavigationInv
  <1>3. CASE ~CanPresent(WhoThis)
    <2>1. UNCHANGED <<front, transition, faded, hidden, titles, otpVars>>
      BY <1>3 DEF PresentOTP
    <2>2. AnimationTyped'
      BY <1>t, <1>1, <2>1 DEF AnimationTyped
    <2>3. Submitted' \subseteq Submitted
      BY <1>1 DEF Submitted
    <2>4. TypeOK'
      BY <1>t, <1>1, <2>1, <2>2, SameScreens, SameViews, SameOtp, SameRest, TypeOKPartsPrime
    <2> QED BY <2>1, <2>3, <2>4, FewerSubmitted DEF NavigationInv, otpVars
  <1> QED BY <1>2, <1>3

LEMMA TransitionToMainScreenInv ==
    ASSUME NavigationInv, NEW a \in animations, TransitionToMainScreen(a)
    PROVE  NavigationInv'
  <1>t. ScreenTyped /\ ViewTyped /\ AnimationTyped /\ OtpTyped /\ RestTyped
    BY TypeOKParts DEF NavigationInv
  <1>1. /\ animations' \subseteq animations /\ code' = "short"
        /\ UNCHANGED <<who, editing, errorShown, typed, tapped>>
    BY DEF TransitionToMainScreen, OTPDone
  <1>2. OtpTyped'
    BY <1>t, <1>1 DEF OtpTyped, Code
  <1>3. CASE CanPresent(OTP)
    <2>1. front = OTP /\ Present(MainScreen) /\ dateDiffType' = "days"
      BY <1>3 DEF TransitionToMainScreen, CanPresent
    <2>2. front' = MainScreen /\ transition'.kind = "present" /\ ScreenTyped' /\ ViewTyped'
      BY <1>t, <2>1, PresentTyped
    <2>3. AnimationTyped'
      BY <1>t, <1>1, <2>1, <2>2, MoreAnimations
    <2>4. RestTyped'
      BY <1>t, <1>1, <2>1 DEF RestTyped, Units
    <2>5. TransitionInv' /\ CodeInv'
      BY <1>1, <2>2 DEF TransitionInv, CodeInv
    <2> QED BY <1>2, <2>2, <2>3, <2>4, <2>5, TypeOKPartsPrime DEF NavigationInv
  <1>4. CASE ~CanPresent(OTP)
    <2>1. UNCHANGED <<front, transition, faded, hidden, titles, dateDiffType>>
      BY <1>4 DEF TransitionToMainScreen
    <2>2. AnimationTyped'
      BY <1>t, <1>1, <2>1 DEF AnimationTyped
    <2>3. Submitted' \subseteq Submitted
      BY <1>1 DEF Submitted
    <2>4. TypeOK'
      BY <1>t, <1>1, <1>2, <2>1, <2>2, SameScreens, SameViews, SameRest, TypeOKPartsPrime
    <2> QED BY <1>1, <2>1, <2>3, <2>4, FewerSubmitted DEF NavigationInv
  <1> QED BY <1>3, <1>4

LEMMA PresentNextInv ==
    ASSUME NavigationInv, NEW a \in animations, PresentNext(a)
    PROVE  NavigationInv'
  <1>t. ScreenTyped /\ ViewTyped /\ AnimationTyped /\ OtpTyped /\ RestTyped
    BY TypeOKParts DEF NavigationInv
  <1>1. /\ animations' \subseteq animations /\ a.screen \in {MainScreen, Home}
        /\ UNCHANGED <<otpVars, dateDiffType, tapped>>
    BY DEF PresentNext
  <1>2. Submitted' \subseteq Submitted
    BY <1>1 DEF Submitted
  <1>3. CASE CanPresent(a.screen)
    <2>1. front = a.screen /\ transition = Settled /\ Present(a.screen + 1) /\ a.screen + 1 \in Screen
      BY <1>1, <1>3 DEF PresentNext, CanPresent
    <2>2. front' = front + 1 /\ transition'.kind = "present" /\ ScreenTyped' /\ ViewTyped'
      BY <1>t, <2>1, PresentTyped
    <2>3. AnimationTyped'
      BY <1>1, <1>t, <2>1, <2>2, MoreAnimations
    <2>4. TransitionInv'
      BY <2>2 DEF TransitionInv
    <2>5. \A b \in Submitted : b.left = 0
      BY <1>1, <2>1 DEF NavigationInv, CodeInv, Settled
    <2>6. CodeInv'
      BY <1>1, <1>2, <2>1, <2>2, <2>5 DEF NavigationInv, CodeInv, otpVars
    <2> QED BY <1>1, <1>t, <2>2, <2>3, <2>4, <2>6, SameOtp, SameRest, TypeOKPartsPrime DEF NavigationInv
  <1>4. CASE ~CanPresent(a.screen)
    <2>1. UNCHANGED <<front, transition, faded, hidden, titles>>
      BY <1>4 DEF PresentNext
    <2>2. AnimationTyped'
      BY <1>t, <1>1, <2>1 DEF AnimationTyped
    <2>3. TypeOK'
      BY <1>t, <1>1, <2>1, <2>2, SameScreens, SameViews, SameOtp, SameRest, TypeOKPartsPrime
    <2> QED BY <1>1, <1>2, <2>1, <2>3, FewerSubmitted DEF NavigationInv, otpVars
  <1> QED BY <1>3, <1>4

LEMMA PresentationEndsInv == NavigationInv /\ PresentationEnds => NavigationInv'
  <1> SUFFICES ASSUME NavigationInv, PresentationEnds PROVE NavigationInv'
    OBVIOUS
  <1>t. ScreenTyped /\ ViewTyped /\ AnimationTyped /\ OtpTyped /\ RestTyped
    BY TypeOKParts DEF NavigationInv
  <1> DEFINE Settle(a) == IF a.screen < front THEN [a EXCEPT !.left = 0] ELSE a
  <1>1. front \in Screen /\ transition' = Settled /\ UNCHANGED <<front, otpVars, dateDiffType, tapped>>
    BY <1>t DEF PresentationEnds, ScreenTyped
  <1>2. \A a \in animations : /\ Settle(a) \in Animation
                              /\ Settle(a).screen = a.screen /\ Settle(a).then = a.then
                              /\ a.screen < front => Settle(a).left = 0
    BY <1>t, Relasting DEF AnimationTyped
  <1>3. animations' = FadesIn(front) \cup {Settle(a) : a \in animations}
    BY DEF PresentationEnds
  <1>4. ASSUME NEW b \in animations'
        PROVE  \/ b \in Animation /\ b.screen = front /\ b.then = "show"
               \/ \E a \in animations : b = Settle(a)
    <2>1. CASE b \in FadesIn(front)
      BY <1>1, <2>1, FadesInTyped
    <2>2. CASE b \in {Settle(a) : a \in animations}
      BY <2>2
    <2> QED BY <1>3, <2>1, <2>2
  <1> HIDE DEF Settle
  <1>5. AnimationTyped'
    BY <1>t, <1>1, <1>2, <1>4 DEF AnimationTyped, ScreenTyped
  <1>6. ScreenTyped' /\ ViewTyped'
    BY <1>t, <1>1, AppearTyped DEF PresentationEnds, ScreenTyped, Settled
  <1>7. TypeOK'
    BY <1>t, <1>1, <1>5, <1>6, SameOtp, SameRest, TypeOKPartsPrime
  <1>8. ASSUME NEW b \in Submitted'
        PROVE  \E a \in Submitted : b = Settle(a)
    <2>1. b \in animations' /\ b.screen = OTP /\ b.then \in {"rise", "done"}
      BY DEF Submitted
    <2>2. PICK a \in animations : b = Settle(a)
      BY <1>4, <2>1
    <2>3. a \in Submitted
      BY <1>2, <2>1, <2>2 DEF Submitted
    <2> QED BY <2>2, <2>3
  <1>9. Submitted' # {} => Submitted # {}
    BY <1>8
  <1>10. front >= MainScreen => \A b \in Submitted' : b.left = 0
    BY <1>1, <1>2, <1>8 DEF Submitted
  <1>11. CodeInv' /\ TransitionInv'
    BY <1>1, <1>9, <1>10 DEF NavigationInv, CodeInv, TransitionInv, Settled, otpVars
  <1> QED BY <1>7, <1>11 DEF NavigationInv

\* Nothing that Submit started is left when the main screen is gone.
LEMMA NoneSubmittedAfterLock ==
    NavigationInv /\ DismissalEnds /\ front >= MainScreen => Submitted = {}
  <1> SUFFICES ASSUME NavigationInv, DismissalEnds, front >= MainScreen, NEW a \in Submitted
               PROVE  FALSE
    OBVIOUS
  <1>1. a.left # 0
    BY DEF DismissalEnds, Due, Submitted
  <1> QED BY <1>1 DEF DismissalEnds, NavigationInv, CodeInv

LEMMA DismissalEndsInv == NavigationInv /\ DismissalEnds => NavigationInv'
  <1> SUFFICES ASSUME NavigationInv, DismissalEnds PROVE NavigationInv'
    OBVIOUS
  <1>t. ScreenTyped /\ ViewTyped /\ AnimationTyped /\ OtpTyped /\ RestTyped
    BY TypeOKParts DEF NavigationInv
  <1>1. /\ front >= OTP /\ front' = front - 1 /\ front' \in Screen /\ transition' = Settled
        /\ UNCHANGED <<who, code, dateDiffType, tapped>>
    BY <1>t DEF DismissalEnds, NavigationInv, TransitionInv, ScreenTyped
  <1>2. \A b \in animations' :
            \/ b \in Animation /\ b.screen = front' /\ b.then = "show"
            \/ b \in animations /\ b.screen < front
    BY <1>1, FadesInTyped DEF DismissalEnds, Remaining
  <1>3. AnimationTyped'
    <2> SUFFICES ASSUME NEW b \in animations'
                 PROVE  b \in Animation /\ b.screen <= front'
      BY DEF AnimationTyped
    <2>1. CASE b \in Animation /\ b.screen = front'
      BY <1>1, <2>1
    <2>2. CASE b \in animations /\ b.screen < front
      <3>1. b \in Animation /\ b.screen \in Screen
        BY <1>t, <2>2, AnimationParts DEF AnimationTyped
      <3> QED BY <1>1, <1>t, <2>2, <3>1 DEF ScreenTyped
    <2> QED BY <1>2, <2>1, <2>2
  <1>4. ScreenTyped' /\ ViewTyped'
    BY <1>t, <1>1, AppearTyped DEF DismissalEnds, ScreenTyped, Settled
  <1>5. OtpTyped'
    <2>1. editing' \in BOOLEAN /\ errorShown' \in BOOLEAN /\ typed' \in BOOLEAN
      BY <1>t DEF DismissalEnds, OtpTyped
    <2> QED BY <1>1, <1>t, <2>1 DEF OtpTyped
  <1>6. TypeOK'
    BY <1>t, <1>1, <1>3, <1>4, <1>5, SameRest, TypeOKPartsPrime
  <1>7. Submitted' \subseteq Submitted
    BY <1>2 DEF Submitted
  <1>8. front - 1 = OTP => code' # "right" /\ Submitted' = {}
    BY <1>1, <1>7, NoneSubmittedAfterLock DEF NavigationInv, CodeInv
  <1>9. front - 1 # OTP => typed' = typed
    BY DEF DismissalEnds
  <1>10. front' >= MainScreen => Submitted' = {}
    BY <1>1, <1>7, <1>t, NoneSubmittedAfterLock DEF ScreenTyped
  <1>11. CodeInv'
    BY <1>1, <1>8, <1>9, <1>10, <1>t DEF NavigationInv, CodeInv, ScreenTyped
  <1>12. TransitionInv'
    BY <1>1 DEF TransitionInv, Settled
  <1> QED BY <1>6, <1>11, <1>12 DEF NavigationInv

(***************************************************************************)
(* Touches.                                                                *)
(***************************************************************************)
\* Animations that are started on the screen on top.
LEMMA Started ==
    ASSUME NavigationInv, UNCHANGED <<front, transition>>,
           \A a \in animations' \ animations : a \in Animation /\ a.screen = front
    PROVE  AnimationTyped'
  <1>1. ScreenTyped /\ AnimationTyped
    BY TypeOKParts DEF NavigationInv
  <1> QED BY <1>1, MoreAnimations DEF ScreenTyped

LEMMA PersonTappedInv ==
    ASSUME NavigationInv, NEW person \in Who, PersonTapped(person)
    PROVE  NavigationInv'
  <1>t. ScreenTyped /\ ViewTyped /\ AnimationTyped /\ OtpTyped /\ RestTyped
    BY TypeOKParts DEF NavigationInv
  <1>1. front = WhoThis /\ UNCHANGED <<front, transition, faded, hidden, otpVars, dateDiffType>>
    BY DEF PersonTapped, Touchable, OnTop, CanPresent
  <1>2. person \in Destinations(WhoThis)
    BY DEF Destinations
  <1>3. \A a \in animations' \ animations : a \in Animation /\ a.screen = front
    BY <1>1, <1>2, PressTyped, LeavingTyped, ControlNames DEF PersonTapped
  <1>4. ViewTyped'
    BY <1>t, <1>1 DEF PersonTapped, ViewTyped
  <1>5. RestTyped'
    BY <1>t, <1>1 DEF PersonTapped, RestTyped
  <1>6. TypeOK'
    BY <1>t, <1>1, <1>3, <1>4, <1>5, Started, SameScreens, SameOtp, TypeOKPartsPrime
  <1>7. Submitted' \subseteq Submitted
    BY <1>1, <1>3 DEF Submitted
  <1> QED BY <1>1, <1>6, <1>7, FewerSubmitted DEF NavigationInv, otpVars

LEMMA SubmitRightInv == NavigationInv /\ SubmitRight => NavigationInv'
  <1> SUFFICES ASSUME NavigationInv, SubmitRight PROVE NavigationInv'
    OBVIOUS
  <1>t. ScreenTyped /\ ViewTyped /\ AnimationTyped /\ OtpTyped /\ RestTyped
    BY TypeOKParts DEF NavigationInv
  <1>1. /\ front = OTP /\ code = "right"
        /\ UNCHANGED <<front, transition, faded, hidden, otpVars, dateDiffType, tapped>>
    BY DEF SubmitRight, Touchable, OnTop, CanPresent
  <1>2. "main" \in Destinations(OTP)
    BY DEF Destinations
  <1>3. \A a \in animations' \ animations : a \in Animation /\ a.screen = front
    BY <1>1, <1>2, PressTyped, LeavingTyped, ControlNames DEF SubmitRight
  <1>4. ViewTyped'
    BY <1>t, <1>1 DEF SubmitRight, ViewTyped
  <1>5. TypeOK'
    BY <1>t, <1>1, <1>3, <1>4, Started, SameScreens, SameOtp, SameRest, TypeOKPartsPrime
  <1>6. CodeInv' /\ TransitionInv'
    BY <1>1 DEF NavigationInv, CodeInv, TransitionInv, otpVars, Settled
  <1> QED BY <1>5, <1>6 DEF NavigationInv

LEMMA GifDidStopInv == NavigationInv /\ GifDidStop => NavigationInv'
  <1> SUFFICES ASSUME NavigationInv, GifDidStop PROVE NavigationInv'
    OBVIOUS
  <1>t. ScreenTyped /\ ViewTyped /\ AnimationTyped /\ OtpTyped /\ RestTyped
    BY TypeOKParts DEF NavigationInv
  <1>1. /\ front = LaunchScreen /\ Present(WhoThis)
        /\ UNCHANGED <<animations, otpVars, dateDiffType, tapped>>
    BY DEF GifDidStop, OnTop, CanPresent
  <1>2. front' = WhoThis /\ transition'.kind = "present" /\ ScreenTyped' /\ ViewTyped'
    BY <1>t, <1>1, PresentTyped
  <1>3. AnimationTyped'
    BY <1>t, <1>1, <1>2, MoreAnimations
  <1>4. TypeOK'
    BY <1>t, <1>1, <1>2, <1>3, SameOtp, SameRest, TypeOKPartsPrime
  <1>5. CodeInv' /\ TransitionInv'
    BY <1>1, <1>2 DEF NavigationInv, CodeInv, TransitionInv, otpVars
  <1> QED BY <1>4, <1>5 DEF NavigationInv

\* FieldTapped, TappedAround, Type, SubmitShort and SubmitWrong: at most a
\* press is started, on the passcode screen.
LEMMA EditingInv ==
    ASSUME NavigationInv, front = OTP, OtpTyped',
           UNCHANGED <<front, transition, faded, hidden, titles, dateDiffType, tapped>>,
           \/ UNCHANGED animations
           \/ animations' = animations \cup {Press(OTP, "submitButton")},
           code' = "right" => typed', typed => typed'
    PROVE  NavigationInv'
  <1>t. ScreenTyped /\ ViewTyped /\ AnimationTyped /\ OtpTyped /\ RestTyped
    BY TypeOKParts DEF NavigationInv
  <1>1. /\ Press(OTP, "submitButton") \in Animation
        /\ Press(OTP, "submitButton").then = "rest" /\ Press(OTP, "submitButton").screen = OTP
    BY PressTyped, ControlNames
  <1>2. \A a \in animations' \ animations : a \in Animation /\ a.screen = front /\ a.then = "rest"
    BY <1>1
  <1>3. TypeOK'
    BY <1>t, <1>2, Started, SameScreens, SameViews, SameRest, TypeOKPartsPrime
  <1>4. Submitted' \subseteq Submitted
    BY <1>2 DEF Submitted
  <1>5. CodeInv' /\ TransitionInv'
    BY <1>4 DEF NavigationInv, CodeInv, TransitionInv, Settled
  <1> QED BY <1>3, <1>5 DEF NavigationInv

LEMMA FieldTappedInv == NavigationInv /\ FieldTapped => NavigationInv'
  <1> SUFFICES ASSUME NavigationInv, FieldTapped PROVE NavigationInv'
    OBVIOUS
  <1>1. front = OTP /\ OtpTyped
    BY TypeOKParts DEF NavigationInv, FieldTapped, Touchable, OnTop, CanPresent
  <1>2. OtpTyped'
    BY <1>1 DEF FieldTapped, OtpTyped
  <1> QED BY <1>1, <1>2, EditingInv DEF FieldTapped, viewVars, NavigationInv, CodeInv

LEMMA TappedAroundInv == NavigationInv /\ TappedAround => NavigationInv'
  <1> SUFFICES ASSUME NavigationInv, TappedAround PROVE NavigationInv'
    OBVIOUS
  <1>1. front = OTP /\ OtpTyped
    BY TypeOKParts DEF NavigationInv, TappedAround, OnTop, CanPresent
  <1>2. OtpTyped'
    BY <1>1 DEF TappedAround, OtpTyped
  <1> QED BY <1>1, <1>2, EditingInv DEF TappedAround, viewVars, NavigationInv, CodeInv

LEMMA TypeInv ==
    ASSUME NavigationInv, NEW text \in Code, Type(text)
    PROVE  NavigationInv'
  <1>1. front = OTP /\ OtpTyped
    BY TypeOKParts DEF NavigationInv, Type, OnTop, CanPresent
  <1>2. OtpTyped'
    BY <1>1 DEF Type, OtpTyped
  <1> QED BY <1>1, <1>2, EditingInv DEF Type, viewVars

LEMMA SubmitShortInv == NavigationInv /\ SubmitShort => NavigationInv'
  <1> SUFFICES ASSUME NavigationInv, SubmitShort PROVE NavigationInv'
    OBVIOUS
  <1>1. front = OTP /\ OtpTyped
    BY TypeOKParts DEF NavigationInv, SubmitShort, Touchable, OnTop, CanPresent
  <1>2. OtpTyped'
    BY <1>1 DEF SubmitShort, OtpTyped
  <1> QED BY <1>1, <1>2, EditingInv DEF SubmitShort, NavigationInv, CodeInv

LEMMA SubmitWrongInv == NavigationInv /\ SubmitWrong => NavigationInv'
  <1> SUFFICES ASSUME NavigationInv, SubmitWrong PROVE NavigationInv'
    OBVIOUS
  <1>1. front = OTP /\ OtpTyped
    BY TypeOKParts DEF NavigationInv, SubmitWrong, Touchable, OnTop, CanPresent
  <1>2. OtpTyped'
    BY <1>1 DEF SubmitWrong, OtpTyped
  <1> QED BY <1>1, <1>2, EditingInv DEF SubmitWrong, NavigationInv, CodeInv

\* A screen is dismissed only when nothing is due: what is left of Submit on
\* a screen behind the passcode screen would be.
LEMMA CloseTappedInv ==
    ASSUME NavigationInv, NEW screen, NEW control, CloseTapped(screen, control)
    PROVE  NavigationInv'
  <1>t. ScreenTyped /\ ViewTyped /\ AnimationTyped /\ OtpTyped /\ RestTyped
    BY TypeOKParts DEF NavigationInv
  <1>1. /\ front >= OTP /\ transition = Settled /\ Due = {}
        /\ UNCHANGED <<front, faded, hidden, titles, animations, otpVars, dateDiffType, tapped>>
    BY DEF CloseTapped, Touchable, OnTop, CanPresent, Dismiss, viewVars
  <1>2. transition'.kind = "dismiss" /\ ScreenTyped'
    BY <1>t, <1>1, TransitionAssumption DEF CloseTapped, Dismiss, ScreenTyped
  <1>3. AnimationTyped'
    BY <1>t, <1>1 DEF AnimationTyped
  <1>4. TypeOK'
    BY <1>t, <1>1, <1>2, <1>3, SameViews, SameOtp, SameRest, TypeOKPartsPrime
  <1>5. front >= MainScreen => Submitted = {}
    BY <1>1 DEF NavigationInv, CodeInv, Settled, Due, Submitted
  <1>6. Submitted' = Submitted
    BY <1>1 DEF Submitted
  <1>7. CodeInv' /\ TransitionInv'
    BY <1>1, <1>2, <1>5, <1>6 DEF NavigationInv, CodeInv, TransitionInv, otpVars
  <1> QED BY <1>4, <1>7 DEF NavigationInv

LEMMA TimeDateTappedInv == NavigationInv /\ TimeDateTapped => NavigationInv'
  <1> SUFFICES ASSUME NavigationInv, TimeDateTapped PROVE NavigationInv'
    OBVIOUS
  <1>t. ScreenTyped /\ ViewTyped /\ AnimationTyped /\ OtpTyped /\ RestTyped
    BY TypeOKParts DEF NavigationInv
  <1>1. UNCHANGED <<front, transition, faded, hidden, titles, animations, otpVars, tapped>>
    BY DEF TimeDateTapped, viewVars
  <1>2. RestTyped'
    BY <1>t, <1>1 DEF TimeDateTapped, RestTyped, NextUnit, DetermineDiffType, Units
  <1>3. AnimationTyped'
    BY <1>t, <1>1 DEF AnimationTyped
  <1>4. TypeOK'
    BY <1>t, <1>1, <1>2, <1>3, SameScreens, SameViews, SameOtp, TypeOKPartsPrime
  <1>5. Submitted' \subseteq Submitted
    BY <1>1 DEF Submitted
  <1> QED BY <1>1, <1>4, <1>5, FewerSubmitted DEF NavigationInv, otpVars

LEMMA NextTappedInv == NavigationInv /\ NextTapped => NavigationInv'
  <1> SUFFICES ASSUME NavigationInv, NextTapped PROVE NavigationInv'
    OBVIOUS
  <1>t. ScreenTyped /\ ViewTyped /\ AnimationTyped /\ OtpTyped /\ RestTyped
    BY TypeOKParts DEF NavigationInv
  <1>1. /\ front = MainScreen /\ animations' = animations \cup LeavingMain
        /\ UNCHANGED <<front, transition, hidden, titles, otpVars, dateDiffType, tapped>>
    BY DEF NextTapped, Touchable, OnTop, CanPresent
  <1>2. \A a \in animations' \ animations : a \in Animation /\ a.screen = front
    BY <1>1, LeavingMainTyped
  <1>3. ViewTyped'
    BY <1>t, <1>1, ControlsAreControl DEF NextTapped, ViewTyped
  <1>4. TypeOK'
    BY <1>t, <1>1, <1>2, <1>3, Started, SameScreens, SameOtp, SameRest, TypeOKPartsPrime
  <1>5. Submitted' \subseteq Submitted
    BY <1>1, <1>2 DEF Submitted
  <1> QED BY <1>1, <1>4, <1>5, FewerSubmitted DEF NavigationInv, otpVars

LEMMA SectionTappedInv ==
    ASSUME NavigationInv, NEW section \in Sections, SectionTapped(section)
    PROVE  NavigationInv'
  <1>t. ScreenTyped /\ ViewTyped /\ AnimationTyped /\ OtpTyped /\ RestTyped
    BY TypeOKParts DEF NavigationInv
  <1>1. /\ front = Home
        /\ animations' = animations \cup {Press(Home, section)} \cup LeavingHome(section)
        /\ UNCHANGED <<front, transition, hidden, titles, otpVars, dateDiffType, tapped>>
    BY DEF SectionTapped, Touchable, OnTop, CanPresent
  <1>2. \A a \in animations' \ animations : a \in Animation /\ a.screen = front
    BY <1>1, PressTyped, LeavingHomeTyped, ControlNames
  <1>3. ViewTyped'
    BY <1>t, <1>1, ControlsAreControl DEF SectionTapped, ViewTyped
  <1>4. TypeOK'
    BY <1>t, <1>1, <1>2, <1>3, Started, SameScreens, SameOtp, SameRest, TypeOKPartsPrime
  <1>5. Submitted' \subseteq Submitted
    BY <1>1, <1>2 DEF Submitted
  <1> QED BY <1>1, <1>4, <1>5, FewerSubmitted DEF NavigationInv, otpVars

LEMMA StutterInv == NavigationInv /\ UNCHANGED vars => NavigationInv'
  <1> SUFFICES ASSUME NavigationInv, UNCHANGED vars PROVE NavigationInv'
    OBVIOUS
  <1>t. ScreenTyped /\ ViewTyped /\ AnimationTyped /\ OtpTyped /\ RestTyped
    BY TypeOKParts DEF NavigationInv
  <1>1. UNCHANGED <<front, transition, faded, hidden, titles, animations, otpVars, dateDiffType, tapped>>
    BY DEF vars, viewVars
  <1>2. AnimationTyped'
    BY <1>t, <1>1 DEF AnimationTyped
  <1>3. TypeOK'
    BY <1>t, <1>1, <1>2, SameScreens, SameViews, SameOtp, SameRest, TypeOKPartsPrime
  <1>4. Submitted' \subseteq Submitted
    BY <1>1 DEF Submitted
  <1> QED BY <1>1, <1>3, <1>4, FewerSubmitted DEF NavigationInv, otpVars

LEMMA NextInv == NavigationInv /\ [Next]_vars => NavigationInv'
  <1> SUFFICES ASSUME NavigationInv, [Next]_vars PROVE NavigationInv'
    OBVIOUS
  <1>1. CASE UNCHANGED vars
    BY <1>1, StutterInv
  <1>2. CASE Tick
    BY <1>2, TickInv
  <1>3. CASE \E a \in animations : Completion(a)
    BY <1>3, FadeCompletedInv, ShiftCompletedInv, PresentOTPInv, TransitionToMainScreenInv,
       PresentNextInv DEF Completion
  <1>4. CASE PresentationEnds
    BY <1>4, PresentationEndsInv
  <1>5. CASE DismissalEnds
    BY <1>5, DismissalEndsInv
  <1>6. CASE Touch
    BY <1>6, GifDidStopInv, PersonTappedInv, FieldTappedInv, TappedAroundInv, TypeInv,
       SubmitShortInv, SubmitRightInv, SubmitWrongInv, CloseTappedInv, TimeDateTappedInv,
       NextTappedInv, SectionTappedInv DEF Touch
  <1> QED BY <1>1, <1>2, <1>3, <1>4, <1>5, <1>6 DEF Next

LEMMA InvariantHolds == Spec => []NavigationInv
  <1> QED BY InitInv, NextInv, PTL DEF Spec

\* The variables keep their types, and nothing is animated on a screen that
\* is gone (fadeIn, fadeOut, present, dismiss), for any persons, sections
\* and durations of transitions.
THEOREM NavigationTypeCorrect == Spec => []TypeOK
  <1>1. NavigationInv => TypeOK
    BY DEF NavigationInv
  <1> QED BY <1>1, InvariantHolds, PTL

(***************************************************************************)
(* Navigation implements PasscodeGate.                                     *)
(***************************************************************************)
\* Steps that keep the screen keep the person's place.
LEMMA SamePlace ==
    UNCHANGED <<front, typed>> => UNCHANGED Gate!gateVars
  BY DEF Gate!gateVars

\* A completion that presents the main screen was started by Submit.
LEMMA CompletionGate ==
    ASSUME NavigationInv, NEW a \in animations, Completion(a)
    PROVE  [Gate!GateNext]_Gate!gateVars
  <1>1. CASE FadeCompleted(a) \/ ShiftCompleted(a)
    BY <1>1, SamePlace DEF FadeCompleted, ShiftCompleted, otpVars
  <1>2. CASE PresentOTP(a)
    <2>1. CASE CanPresent(WhoThis)
      <3>1. front = WhoThis /\ front' = OTP /\ typed' = FALSE
        BY <1>2, <2>1 DEF PresentOTP, Present, CanPresent
      <3> QED BY <3>1 DEF Gate!GateNext, Gate!Ask
    <2>2. CASE ~CanPresent(WhoThis)
      BY <1>2, <2>2, SamePlace DEF PresentOTP, otpVars
    <2> QED BY <2>1, <2>2
  <1>3. CASE TransitionToMainScreen(a)
    <2>1. CASE CanPresent(OTP)
      <3>1. front = OTP /\ front' = MainScreen /\ typed' = typed
        BY <1>3, <2>1 DEF TransitionToMainScreen, Present, CanPresent
      <3>2. a \in Submitted
        BY <1>3 DEF TransitionToMainScreen, Submitted
      <3>3. typed = TRUE
        BY <3>1, <3>2, TypeOKParts DEF NavigationInv, CodeInv, OtpTyped
      <3> QED BY <3>1, <3>3 DEF Gate!GateNext, Gate!Enter
    <2>2. CASE ~CanPresent(OTP)
      BY <1>3, <2>2, SamePlace DEF TransitionToMainScreen
    <2> QED BY <2>1, <2>2
  <1>4. CASE PresentNext(a)
    <2>1. CASE CanPresent(a.screen)
      <3>1. front \in {MainScreen, Home} /\ front' = front + 1 /\ typed' = typed
        BY <1>4, <2>1 DEF PresentNext, Present, CanPresent, otpVars
      <3> QED BY <3>1 DEF Gate!gateVars
    <2>2. CASE ~CanPresent(a.screen)
      BY <1>4, <2>2, SamePlace DEF PresentNext, otpVars
    <2> QED BY <2>1, <2>2
  <1> QED BY <1>1, <1>2, <1>3, <1>4 DEF Completion

LEMMA DismissalGate ==
    ASSUME NavigationInv, DismissalEnds
    PROVE  [Gate!GateNext]_Gate!gateVars
  <1>1. front \in OTP..Section /\ front' = front - 1
    BY TypeOKParts DEF NavigationInv, TransitionInv, ScreenTyped, DismissalEnds
  <1>2. CASE front = OTP
    <2>1. typed' = typed
      BY <1>2 DEF DismissalEnds
    <2> QED BY <1>1, <1>2, <2>1 DEF Gate!GateNext, Gate!Leave
  <1>3. CASE front = MainScreen
    <2>1. typed' = FALSE
      BY <1>3 DEF DismissalEnds
    <2> QED BY <1>1, <1>3, <2>1 DEF Gate!GateNext, Gate!Lock
  <1>4. CASE front > MainScreen
    <2>1. front - 1 # OTP
      BY <1>1, <1>4
    <2>2. typed' = typed
      BY <2>1 DEF DismissalEnds
    <2> QED BY <1>1, <1>4, <2>2 DEF Gate!gateVars
  <1> QED BY <1>1, <1>2, <1>3, <1>4

LEMMA TouchGate ==
    ASSUME NavigationInv, Touch
    PROVE  [Gate!GateNext]_Gate!gateVars
  <1>1. CASE GifDidStop
    <2>1. front = LaunchScreen /\ front' = WhoThis /\ typed' = typed
      BY <1>1 DEF GifDidStop, OnTop, CanPresent, Present, otpVars
    <2> QED BY <2>1 DEF Gate!gateVars
  <1>2. CASE \E text \in Code : Type(text)
    <2>1. PICK text \in Code : Type(text)
      BY <1>2
    <2>2. front = OTP /\ front' = OTP
      BY <2>1 DEF Type, OnTop, CanPresent
    <2>3. typed \in BOOLEAN /\ typed' = (typed \/ text = "right")
      BY <2>1, TypeOKParts DEF Type, NavigationInv, OtpTyped
    <2>4. typed' = typed \/ typed' = TRUE
      BY <2>3
    <2>5. CASE typed' = typed
      BY <2>2, <2>5, SamePlace
    <2>6. CASE typed' = TRUE
      BY <2>2, <2>6 DEF Gate!GateNext, Gate!Type
    <2> QED BY <2>4, <2>5, <2>6
  <1>3. CASE \/ \E person \in Who : PersonTapped(person)
             \/ FieldTapped \/ TappedAround
             \/ SubmitShort \/ SubmitRight \/ SubmitWrong
             \/ \E screen \in Screen, control \in Control : CloseTapped(screen, control)
             \/ TimeDateTapped \/ NextTapped
             \/ \E section \in Sections : SectionTapped(section)
    <2>1. UNCHANGED <<front, typed>>
      BY <1>3 DEF PersonTapped, FieldTapped, TappedAround, SubmitShort, SubmitRight, SubmitWrong,
                  CloseTapped, Dismiss, TimeDateTapped, NextTapped, SectionTapped, otpVars
    <2> QED BY <2>1, SamePlace
  <1> QED BY <1>1, <1>2, <1>3 DEF Touch

LEMMA GateStep == NavigationInv /\ [Next]_vars => [Gate!GateNext]_Gate!gateVars
  <1> SUFFICES ASSUME NavigationInv, [Next]_vars PROVE [Gate!GateNext]_Gate!gateVars
    OBVIOUS
  <1>1. CASE UNCHANGED vars \/ Tick \/ PresentationEnds
    BY <1>1, SamePlace DEF vars, otpVars, Tick, PresentationEnds
  <1> QED BY <1>1, CompletionGate, DismissalGate, TouchGate DEF Next

\* Nobody gets behind the passcode screen without having typed the passcode
\* since it came up, whatever taps fall between Submit and the completions
\* of the animation it starts (OTPViewController).
THEOREM PasscodeIsTyped == Spec => GateSpec
  <1>1. Init => Gate!GateInit
    BY DEF Init, Gate!GateInit
  <1> QED BY <1>1, InvariantHolds, GateStep, PTL DEF Spec, GateSpec, Gate!GateSpec

(***************************************************************************)
(* Where animations are, from which the other properties follow.  They are *)
(* on the front screen or on the one that it covers.  While a screen is    *)
(* presented they are those of the screen below, and while one is          *)
(* dismissed its own; what a covered screen has left is due before         *)
(* anything is tapped.                                                     *)
(***************************************************************************)
InView ==
    \A a \in animations : a.screen \in {front - 1, front} /\ a.controls \subseteq Controls(a.screen)

OnFront == \A a \in animations : a.screen = front

WindowInv ==
    /\ InView
    /\ transition.kind = "present" => \A a \in animations : a.screen = front - 1
    /\ transition.kind = "dismiss" => OnFront
    /\ transition.kind = "none" =>
        \/ OnFront
        \/ \A a \in animations : IF a.screen = front THEN a.then = "show" ELSE a.left = 0

LEMMA TypedParts ==
    ASSUME NavigationInv
    PROVE  /\ front \in Screen
           /\ transition.kind \in {"none", "present", "dismiss"}
           /\ transition.kind = "none" <=> transition = Settled
           /\ transition.kind = "dismiss" => front >= OTP
           /\ \A a \in animations : a \in Animation /\ a.left \in Nat
  <1>1. ScreenTyped /\ AnimationTyped /\ TransitionInv
    BY TypeOKParts DEF NavigationInv
  <1>2. \A a \in animations : a \in Animation /\ a.left \in Nat
    BY <1>1, AnimationParts DEF AnimationTyped
  <1> QED BY <1>1, <1>2 DEF ScreenTyped, TransitionInv, Settled

\* What changing the time that is left does not change.
LEMMA RelastingKeeps ==
    ASSUME NEW a \in Animation, NEW n \in Nat
    PROVE  LET b == [a EXCEPT !.left = n]
           IN  /\ b.screen = a.screen /\ b.then = a.then /\ b.left = n /\ b.controls = a.controls
               /\ a.then \in {"rise", "done"} => b.next = a.next
               /\ a.then = "rise" => b.label = a.label
  <1> DEFINE b == [a EXCEPT !.left = n]
  <1>1. CASE a \in Fade
    BY <1>1 DEF Fade
  <1>2. CASE \E screen \in {WhoThis, OTP} : a \in Shift(screen)
    <2>1. PICK screen \in {WhoThis, OTP} : a \in Shift(screen)
      BY <1>2
    <2> QED BY <2>1 DEF Shift
  <1>3. CASE \E screen \in WhoThis..Home : a \in Exit(screen)
    <2>1. PICK screen \in WhoThis..Home : a \in Exit(screen)
      BY <1>3
    <2> QED BY <2>1 DEF Exit
  <1> QED BY <1>1, <1>2, <1>3, AnimationKinds

SameButTime(b, a) ==
    /\ b.screen = a.screen /\ b.then = a.then /\ b.controls = a.controls
    /\ a.then \in {"rise", "done"} => b.next = a.next
    /\ a.then = "rise" => b.label = a.label

LEMMA Ticked ==
    ASSUME NavigationInv, Tick
    PROVE  /\ \A b \in animations' : \E a \in animations :
                SameButTime(b, a) /\ a.left > 0 /\ b.left = a.left - 1
           /\ \A a \in animations : \E b \in animations' :
                SameButTime(b, a) /\ a.left > 0 /\ b.left = a.left - 1
           /\ front' = front /\ transition'.kind = transition.kind
           /\ UNCHANGED <<faded, hidden, titles, tapped>>
  <1>1. \A a \in animations : a \in Animation /\ a.left \in Nat /\ a.left # 0
    BY TypedParts DEF Tick, Due
  <1>2. \A a \in animations : LET b == [a EXCEPT !.left = a.left - 1]
                              IN  b \in animations' /\ SameButTime(b, a) /\ b.left = a.left - 1
    <2> SUFFICES ASSUME NEW a \in animations
                 PROVE  LET b == [a EXCEPT !.left = a.left - 1]
                        IN  b \in animations' /\ SameButTime(b, a) /\ b.left = a.left - 1
      OBVIOUS
    <2>1. a \in Animation /\ a.left - 1 \in Nat
      BY <1>1
    <2>2. [a EXCEPT !.left = a.left - 1] \in animations'
      BY DEF Tick
    <2> QED BY <2>1, <2>2, RelastingKeeps DEF SameButTime
  <1>3. \A b \in animations' : \E a \in animations : b = [a EXCEPT !.left = a.left - 1]
    BY DEF Tick
  <1>4. transition'.kind = transition.kind
    BY TypeOKParts DEF Tick, NavigationInv, ScreenTyped, Settled
  <1>5. \A a \in animations : a.left > 0
    BY <1>1
  <1>6. \A b \in animations' : \E a \in animations :
            SameButTime(b, a) /\ a.left > 0 /\ b.left = a.left - 1
    <2> SUFFICES ASSUME NEW b \in animations'
                 PROVE  \E a \in animations : SameButTime(b, a) /\ a.left > 0 /\ b.left = a.left - 1
      OBVIOUS
    <2>1. PICK a \in animations : b = [a EXCEPT !.left = a.left - 1]
      BY <1>3
    <2>2. SameButTime(b, a) /\ b.left = a.left - 1
      BY <1>2, <2>1
    <2> QED BY <1>5, <2>2
  <1>7. \A a \in animations : \E b \in animations' :
            SameButTime(b, a) /\ a.left > 0 /\ b.left = a.left - 1
    BY <1>2, <1>5
  <1> QED BY <1>4, <1>6, <1>7 DEF Tick

LEMMA ControlsApart ==
    ASSUME NEW screen \in Screen
    PROVE  /\ screen > LaunchScreen => Controls(screen) \cap Controls(screen - 1) = {}
           /\ Controls(LaunchScreen) = {}
  BY NamesAreDistinct DEF Controls

\* What fades in is all that the screen has.
LEMMA AppearsInFull ==
    ASSUME NEW screen \in Screen
    PROVE  /\ screen \in WhoThis..Home => FadingIn(screen) = Controls(screen)
           /\ \A fade \in Appearance(screen) : fade[1] \subseteq Controls(screen)
           /\ screen \notin WhoThis..Home => Appearance(screen) = {}
  <1>1. CASE screen = WhoThis
    BY <1>1 DEF Appearance, FadingIn, Controls
  <1>2. CASE screen = OTP
    <2>1. \A fade : fade \in Appearance(OTP) <=> \E control \in Controls(OTP) : fade = <<{control}, 10>>
      BY DEF Appearance
    <2>2. \A fade \in Appearance(OTP) : \E control \in Controls(OTP) : fade[1] = {control}
      BY <2>1
    <2>3. ASSUME NEW control \in Controls(OTP)
          PROVE  \E fade \in Appearance(OTP) : fade[1] = {control}
      <3>1. <<{control}, 10>> \in Appearance(OTP) /\ <<{control}, 10>>[1] = {control}
        BY <2>1
      <3> QED BY <3>1
    <2>4. \A control : control \in FadingIn(OTP) <=> \E fade \in Appearance(OTP) : control \in fade[1]
      BY DEF FadingIn
    <2>5. FadingIn(OTP) = Controls(OTP)
      BY <2>2, <2>3, <2>4
    <2> QED BY <1>2, <2>2, <2>5
  <1>3. CASE screen = MainScreen
    BY <1>3 DEF Appearance, FadingIn, Controls
  <1>4. CASE screen = Home
    <2> DEFINE Ticks(section) == CASE section = "calendarView" -> 10
                                   [] section = "couponsView"  -> 14
                                   [] OTHER                    -> 16
    <2>0. Appearance(Home) = {<<{"userImage"}, 6>>} \cup {<<{section}, Ticks(section)>> : section \in Sections}
      BY DEF Appearance
    <2> HIDE DEF Ticks
    <2>1. \A fade \in Appearance(Home) :
            fade[1] = {"userImage"} \/ \E section \in Sections : fade[1] = {section}
      BY <2>0
    <2>2. \E fade \in Appearance(Home) : fade[1] = {"userImage"}
      <3>1. <<{"userImage"}, 6>> \in Appearance(Home) /\ <<{"userImage"}, 6>>[1] = {"userImage"}
        BY <2>0
      <3> QED BY <3>1
    <2>3. ASSUME NEW section \in Sections
          PROVE  \E fade \in Appearance(Home) : fade[1] = {section}
      <3>1. <<{section}, Ticks(section)>> \in Appearance(Home) /\ <<{section}, Ticks(section)>>[1] = {section}
        BY <2>0
      <3> QED BY <3>1
    <2>4. \A control : control \in FadingIn(Home) <=> \E fade \in Appearance(Home) : control \in fade[1]
      BY DEF FadingIn
    <2>5. Controls(Home) = Sections \cup {"userImage"}
      BY DEF Controls
    <2>6. \A control : control \in FadingIn(Home) <=> control \in Controls(Home)
      BY <2>1, <2>2, <2>3, <2>4, <2>5
    <2> QED BY <1>4, <2>1, <2>5, <2>6
  <1>5. CASE screen \in {LaunchScreen, Section}
    BY <1>5 DEF Appearance
  <1> QED BY <1>1, <1>2, <1>3, <1>4, <1>5

LEMMA FadesInShow ==
    ASSUME NEW screen \in Screen
    PROVE  \A a \in FadesIn(screen) :
                a.screen = screen /\ a.then = "show" /\ a.controls \subseteq Controls(screen)
  <1> SUFFICES ASSUME NEW a \in FadesIn(screen)
               PROVE  a.screen = screen /\ a.then = "show" /\ a.controls \subseteq Controls(screen)
    OBVIOUS
  <1>1. PICK fade \in Appearance(screen) : a = Effect(screen, fade[1], "show", fade[2])
    BY DEF FadesIn
  <1> QED BY <1>1, AppearsInFull DEF Effect

\* The screen can be touched only when the one below has come to its end.
LEMMA TouchedOnFront ==
    ASSUME NavigationInv, WindowInv, NEW screen, OnTop(screen)
    PROVE  OnFront /\ screen = front /\ transition.kind = "none"
  <1>1. screen = front /\ transition = Settled /\ \A a \in animations : a.left # 0
    BY DEF OnTop, CanPresent, Due
  <1> QED BY <1>1 DEF WindowInv, Settled, OnFront

\* What is under way stays in view when animations start on the front screen.
LEMMA StartedInView ==
    ASSUME NavigationInv, WindowInv, OnTop(front), UNCHANGED <<front, transition>>,
           \A a \in animations' \ animations : a.screen = front /\ a.controls \subseteq Controls(front)
    PROVE  WindowInv'
  <1>1. OnFront /\ transition.kind = "none"
    BY TouchedOnFront
  <1>2. OnFront' /\ InView'
    BY <1>1 DEF OnFront, WindowInv, InView
  <1> QED BY <1>1, <1>2 DEF WindowInv

LEMMA EndedInView ==
    ASSUME WindowInv, UNCHANGED <<front, transition>>, animations' \subseteq animations
    PROVE  WindowInv'
  BY DEF WindowInv, InView, OnFront

\* What the touches start.
LEMMA PressParts ==
    ASSUME NEW screen, NEW control
    PROVE  /\ Press(screen, control).screen = screen /\ Press(screen, control).then = "rest"
           /\ Press(screen, control).controls = {control}
  BY DEF Press, Effect

LEMMA LeavingParts ==
    ASSUME NEW screen, NEW next
    PROVE  /\ \A a \in Leaving(screen, next) :
                /\ a.screen = screen /\ a.controls = {} /\ a.then = "rise" /\ a.next = next
                /\ a.label \in Label /\ a.left = ShiftTicks(screen, a.label)
           /\ \A label \in Label : \E a \in Leaving(screen, next) : a.label = label
  <1>1. \A a : a \in Leaving(screen, next) <=> \E label \in Label :
            a = [screen |-> screen, controls |-> {}, then |-> "rise", label |-> label,
                 next |-> next, left |-> ShiftTicks(screen, label)]
    BY DEF Leaving
  <1>2. ASSUME NEW label \in Label
        PROVE  \E a \in Leaving(screen, next) : a.label = label
    <2> DEFINE a == [screen |-> screen, controls |-> {}, then |-> "rise", label |-> label,
                     next |-> next, left |-> ShiftTicks(screen, label)]
    <2>1. a \in Leaving(screen, next) /\ a.label = label
      BY <1>1
    <2> QED BY <2>1
  <1>3. ASSUME NEW a \in Leaving(screen, next)
        PROVE  /\ a.screen = screen /\ a.controls = {} /\ a.then = "rise" /\ a.next = next
               /\ a.label \in Label /\ a.left = ShiftTicks(screen, a.label)
    <2>1. PICK label \in Label :
            a = [screen |-> screen, controls |-> {}, then |-> "rise", label |-> label,
                 next |-> next, left |-> ShiftTicks(screen, label)]
      BY <1>1
    <2>2. a.label = label
      BY <2>1
    <2> QED BY <2>1, <2>2
  <1> QED BY <1>2, <1>3

LEMMA LeavingMainParts ==
    /\ \A a \in LeavingMain : a.screen = MainScreen /\ a.controls \subseteq Controls(MainScreen)
    /\ \E a \in LeavingMain : a.screen = MainScreen /\ a.then = "done"
  <1>1. \A a \in LeavingMain : a.screen = MainScreen /\ a.controls \subseteq Controls(MainScreen)
    BY DEF LeavingMain, Effect, Controls
  <1>2. \E a \in LeavingMain : a.screen = MainScreen /\ a.then = "done"
    <2> DEFINE a == [screen |-> MainScreen, controls |-> {"titleStack"}, then |-> "done",
                     next |-> "home", left |-> 12]
    <2>1. a \in LeavingMain /\ a.screen = MainScreen /\ a.then = "done"
      BY DEF LeavingMain
    <2> QED BY <2>1
  <1> QED BY <1>1, <1>2

LEMMA LeavingHomeParts ==
    ASSUME NEW section
    PROVE  /\ \A a \in LeavingHome(section) : a.screen = Home /\ a.controls \subseteq Controls(Home)
           /\ \E a \in LeavingHome(section) : a.screen = Home /\ a.then = "done"
  <1>1. \A a \in LeavingHome(section) : a.screen = Home /\ a.controls \subseteq Controls(Home)
    <2> SUFFICES ASSUME NEW a \in LeavingHome(section)
                 PROVE  a.screen = Home /\ a.controls \subseteq Controls(Home)
      OBVIOUS
    <2>1. \/ \E s \in Sections : a.screen = Home /\ a.controls = {s}
          \/ a.screen = Home /\ a.controls = {"userImage"}
      BY DEF LeavingHome, Effect
    <2> QED BY <2>1 DEF Controls
  <1>2. \E a \in LeavingHome(section) : a.screen = Home /\ a.then = "done"
    <2> DEFINE a == [screen |-> Home, controls |-> {"userImage"}, then |-> "done",
                     next |-> section, left |-> 16]
    <2>1. a \in LeavingHome(section) /\ a.screen = Home /\ a.then = "done"
      BY DEF LeavingHome
    <2> QED BY <2>1
  <1> QED BY <1>1, <1>2

\* The touches that start animations.
Starts(New) ==
    /\ OnTop(front) /\ UNCHANGED <<front, transition, hidden>>
    /\ animations' = animations \cup New
    /\ \A a \in New : a.screen = front /\ a.controls \subseteq Controls(front)
    /\ \/ UNCHANGED faded /\ \A a \in New : a.then = "rest"
       \/ \E a \in New : a.then \in {"rise", "done"}

LEMMA TouchKinds ==
    ASSUME NavigationInv, Touch
    PROVE  \/ GifDidStop
           \/ \E screen \in Screen, control \in Control : CloseTapped(screen, control)
           \/ UNCHANGED <<front, transition, faded, hidden, animations>>
           \/ \E New : Starts(New)
  <1>1. ASSUME NEW person \in Who, PersonTapped(person)
        PROVE  Starts({Press(WhoThis, person)} \cup Leaving(WhoThis, person))
    <2>1. person \in Controls(WhoThis) /\ "title" \in Label
      BY DEF Controls, Label
    <2>2. OnTop(WhoThis) /\ front = WhoThis
      BY <1>1 DEF PersonTapped, Touchable, OnTop, CanPresent
    <2> QED BY <1>1, <2>1, <2>2, PressParts, LeavingParts DEF PersonTapped, Starts
  <1>2. ASSUME SubmitRight
        PROVE  Starts({Press(OTP, "submitButton")} \cup Leaving(OTP, "main"))
    <2>1. "submitButton" \in Controls(OTP) /\ "title" \in Label
      BY DEF Controls, Label
    <2>2. OnTop(OTP) /\ front = OTP
      BY <1>2 DEF SubmitRight, Touchable, OnTop, CanPresent
    <2> QED BY <1>2, <2>1, <2>2, PressParts, LeavingParts DEF SubmitRight, Starts
  <1>3. ASSUME SubmitShort \/ SubmitWrong
        PROVE  Starts({Press(OTP, "submitButton")})
    <2>1. "submitButton" \in Controls(OTP)
      BY DEF Controls
    <2>2. OnTop(OTP) /\ front = OTP
      BY <1>3 DEF SubmitShort, SubmitWrong, Touchable, OnTop, CanPresent
    <2> QED BY <1>3, <2>1, <2>2, PressParts DEF SubmitShort, SubmitWrong, Starts
  <1>4. ASSUME NextTapped PROVE Starts(LeavingMain)
    <2>1. OnTop(MainScreen) /\ front = MainScreen
      BY <1>4 DEF NextTapped, Touchable, OnTop, CanPresent
    <2> QED BY <1>4, <2>1, LeavingMainParts DEF NextTapped, Starts
  <1>5. ASSUME NEW section \in Sections, SectionTapped(section)
        PROVE  Starts({Press(Home, section)} \cup LeavingHome(section))
    <2>1. section \in Controls(Home)
      BY DEF Controls
    <2>2. OnTop(Home) /\ front = Home
      BY <1>5 DEF SectionTapped, Touchable, OnTop, CanPresent
    <2> QED BY <1>5, <2>1, <2>2, PressParts, LeavingHomeParts DEF SectionTapped, Starts
  <1>6. ASSUME FieldTapped \/ TappedAround \/ TimeDateTapped \/ \E text \in Code : Type(text)
        PROVE  UNCHANGED <<front, transition, faded, hidden, animations>>
    BY <1>6 DEF FieldTapped, TappedAround, TimeDateTapped, Type, viewVars
  <1> QED BY <1>1, <1>2, <1>3, <1>4, <1>5, <1>6 DEF Touch

LEMMA CloseParts ==
    ASSUME NavigationInv, WindowInv, NEW screen, NEW control, CloseTapped(screen, control)
    PROVE  /\ OnFront /\ UNCHANGED <<front, faded, hidden, animations, titles, tapped>>
           /\ transition'.kind = "dismiss" /\ front >= OTP
  <1>1. OnTop(screen) /\ screen >= OTP
    BY DEF CloseTapped, Touchable
  <1>2. OnFront /\ front >= OTP
    BY <1>1, TouchedOnFront
  <1> QED BY <1>2 DEF CloseTapped, Dismiss, viewVars

\* A screen that has faded out presents the next one, if it is in front and
\* nothing is presented or dismissed.
Exited(a) ==
    /\ a \in Due /\ a.then = "done" /\ animations' = animations \ {a}
    /\ \/ CanPresent(a.screen) /\ a.screen \in WhoThis..Home /\ Present(a.screen + 1)
       \/ ~CanPresent(a.screen) /\ UNCHANGED <<front, transition, faded, hidden, titles>>

LEMMA CompletionKinds ==
    ASSUME NavigationInv, NEW a \in animations, Completion(a)
    PROVE  FadeCompleted(a) \/ ShiftCompleted(a) \/ Exited(a)
  BY DEF Completion, PresentOTP, TransitionToMainScreen, PresentNext, Exited

LEMMA RisenParts ==
    ASSUME NavigationInv, NEW a \in animations, ShiftCompleted(a)
    PROVE  \E b :
            /\ a.screen \in {WhoThis, OTP} /\ a.label \in Label /\ a.left = 0 /\ a.then = "rise"
            /\ b.screen = a.screen /\ b.then = "done" /\ b.next = a.next
            /\ b.controls = TakenAlong(a.screen, a.label)
            /\ TakenAlong(a.screen, a.label) \subseteq Controls(a.screen)
            /\ b.left = Lasting(a.screen, 8)
            /\ animations' = (animations \ {a}) \cup {b}
            /\ faded' = faded \cup TakenAlong(a.screen, a.label)
            /\ titles' = [titles EXCEPT ![a.screen][a.label] = "risen"]
            /\ UNCHANGED <<front, transition, hidden, tapped>>
  <1> DEFINE b == [screen |-> a.screen, controls |-> TakenAlong(a.screen, a.label),
                   then |-> "done", next |-> a.next, left |-> Lasting(a.screen, 8)]
  <1>1. a \in Animation /\ a \in Shift(a.screen) /\ a.left = 0 /\ a.then = "rise"
    BY TypedParts, AnimationParts DEF ShiftCompleted, Due
  <1>2. a.screen \in {WhoThis, OTP}
    BY <1>1, AnimationKinds DEF Fade, Shift, Exit
  <1>3. a.label \in Label
    BY <1>1 DEF Shift
  <1>4. TakenAlong(a.screen, a.label) \subseteq Controls(a.screen)
    BY <1>2 DEF TakenAlong, Controls
  <1>5. /\ b.screen = a.screen /\ b.then = "done" /\ b.next = a.next
        /\ b.controls = TakenAlong(a.screen, a.label) /\ b.left = Lasting(a.screen, 8)
    OBVIOUS
  <1>6. /\ animations' = (animations \ {a}) \cup {b}
        /\ faded' = faded \cup TakenAlong(a.screen, a.label)
        /\ titles' = [titles EXCEPT ![a.screen][a.label] = "risen"]
        /\ UNCHANGED <<front, transition, hidden, tapped>>
    BY DEF ShiftCompleted, Rise
  <1> HIDE DEF b
  <1> QED BY <1>1, <1>2, <1>3, <1>4, <1>5, <1>6

\* A screen that is presented or dismissed.
LEMMA PresentParts ==
    ASSUME NavigationInv, NEW screen \in Screen, Present(screen)
    PROVE  front' = screen /\ transition'.kind = "present"
  <1>1. ViewTyped
    BY TypeOKParts DEF NavigationInv
  <1> QED BY <1>1, PresentTyped

LEMMA PresentationEndsParts ==
    ASSUME NavigationInv, WindowInv, PresentationEnds
    PROVE  /\ front' = front /\ transition'.kind = "none" /\ transition.kind = "present"
           /\ Appear(front)
           /\ \A b \in animations' :
                \/ b \in FadesIn(front)
                \/ \E a \in animations : /\ SameButTime(b, a) /\ b.left = 0
                                        /\ a.screen = front - 1
           /\ UNCHANGED tapped
  <1>1. /\ front' = front /\ transition' = Settled /\ transition.kind = "present" /\ Appear(front)
        /\ UNCHANGED tapped
    BY DEF PresentationEnds
  <1>2. front \in Screen /\ \A a \in animations : a \in Animation /\ a.screen = front - 1
    BY <1>1, TypedParts DEF WindowInv
  <1>3. \A b \in animations' : b \in FadesIn(front) \/ \E a \in animations :
            b = IF a.screen < front THEN [a EXCEPT !.left = 0] ELSE a
    BY DEF PresentationEnds
  <1>4. \A a \in animations : a.screen < front
    BY <1>2
  <1>5. \A a \in animations : LET b == [a EXCEPT !.left = 0]
                              IN  SameButTime(b, a) /\ b.left = 0
    <2> SUFFICES ASSUME NEW a \in animations
                 PROVE  LET b == [a EXCEPT !.left = 0] IN SameButTime(b, a) /\ b.left = 0
      OBVIOUS
    <2> QED BY <1>2, RelastingKeeps DEF SameButTime
  <1>6. ASSUME NEW b \in animations', b \notin FadesIn(front)
        PROVE  \E a \in animations : SameButTime(b, a) /\ b.left = 0 /\ a.screen = front - 1
    <2>1. PICK a \in animations : b = [a EXCEPT !.left = 0]
      BY <1>3, <1>4, <1>6
    <2> QED BY <1>2, <1>5, <2>1
  <1> QED BY <1>1, <1>6 DEF Settled

LEMMA DismissalEndsParts ==
    ASSUME NavigationInv, WindowInv, DismissalEnds
    PROVE  /\ front' = front - 1 /\ front - 1 \in WhoThis..Home /\ transition'.kind = "none"
           /\ Appear(front - 1) /\ animations' = FadesIn(front - 1)
           /\ UNCHANGED tapped
  <1>1. /\ transition' = Settled /\ transition.kind = "dismiss" /\ front' = front - 1
        /\ Appear(front - 1) /\ animations' = FadesIn(front - 1) \cup Remaining
        /\ UNCHANGED tapped
    BY DEF DismissalEnds
  <1>2. front \in Screen /\ front >= OTP /\ OnFront
    BY <1>1, TypedParts DEF WindowInv
  <1>3. Remaining = {}
    BY <1>2 DEF Remaining, OnFront
  <1> QED BY <1>1, <1>2, <1>3 DEF Settled

LEMMA WindowStep == NavigationInv /\ WindowInv /\ [Next]_vars => WindowInv'
  <1> SUFFICES ASSUME NavigationInv, WindowInv, [Next]_vars PROVE WindowInv'
    OBVIOUS
  <1>0. front \in Screen /\ transition.kind \in {"none", "present", "dismiss"}
    BY TypedParts
  <1>1. CASE UNCHANGED <<front, transition, faded, hidden, animations>>
    BY <1>1 DEF WindowInv, InView, OnFront
  <1>2. CASE Tick
    <2>1. /\ \A b \in animations' : \E a \in animations : SameButTime(b, a) /\ a.left > 0
          /\ front' = front /\ transition'.kind = transition.kind
      BY <1>2, Ticked
    <2>2. InView' /\ (OnFront => OnFront')
      BY <2>1 DEF WindowInv, InView, OnFront, SameButTime
    <2>3. transition.kind = "none" => OnFront
      BY <1>2, TypedParts, TouchedOnFront DEF OnTop, CanPresent, Tick
    <2> QED BY <2>1, <2>2, <2>3 DEF WindowInv, SameButTime
  <1>3. ASSUME NEW a \in animations, FadeCompleted(a) PROVE WindowInv'
    <2>1. UNCHANGED <<front, transition>> /\ animations' \subseteq animations
      BY <1>3 DEF FadeCompleted
    <2> QED BY <2>1, EndedInView
  <1>4. ASSUME NEW a \in animations, ShiftCompleted(a) PROVE WindowInv'
    <2>1. PICK b : /\ a.screen \in {WhoThis, OTP} /\ a.then = "rise"
                   /\ b.screen = a.screen /\ b.then = "done"
                   /\ b.controls \subseteq Controls(a.screen)
                   /\ b.left = Lasting(a.screen, 8)
                   /\ animations' = (animations \ {a}) \cup {b}
                   /\ UNCHANGED <<front, transition>>
      BY <1>4, RisenParts
    <2>2. InView' /\ (OnFront => OnFront')
      BY <2>1 DEF WindowInv, InView, OnFront
    <2>3. transition.kind = "none" /\ a.screen # front => b.left = 0
      BY <2>1 DEF Lasting, InWindow
    <2> QED BY <2>1, <2>2, <2>3 DEF WindowInv
  <1>5. ASSUME NEW a \in animations, Exited(a) PROVE WindowInv'
    <2>1. CASE CanPresent(a.screen)
      <3>1. /\ front = a.screen /\ transition.kind = "none" /\ a.then = "done"
            /\ front' = front + 1 /\ transition'.kind = "present"
            /\ animations' \subseteq animations
        BY <1>5, <2>1, PresentParts DEF Exited, CanPresent, Settled
      <3>2. OnFront
        BY <3>1 DEF WindowInv
      <3>3. \A b \in animations' : b.screen = front' - 1 /\ b.controls \subseteq Controls(b.screen)
        BY <1>0, <3>1, <3>2 DEF WindowInv, InView, OnFront
      <3> QED BY <3>1, <3>3 DEF WindowInv, InView
    <2>2. CASE ~CanPresent(a.screen)
      BY <1>5, <2>2, EndedInView DEF Exited
    <2> QED BY <2>1, <2>2
  <1>6. CASE PresentationEnds
    <2>1. /\ front' = front /\ transition'.kind = "none"
          /\ \A b \in animations' : \/ b \in FadesIn(front)
                                    \/ \E a \in animations : /\ SameButTime(b, a) /\ b.left = 0
                                                            /\ a.screen = front - 1
      BY <1>6, PresentationEndsParts
    <2>2. \A b \in FadesIn(front) :
            b.screen = front /\ b.then = "show" /\ b.controls \subseteq Controls(front)
      BY <1>0, FadesInShow
    <2>3. \A b \in animations' :
            /\ b.screen \in {front - 1, front} /\ b.controls \subseteq Controls(b.screen)
            /\ IF b.screen = front THEN b.then = "show" ELSE b.left = 0
      BY <1>0, <2>1, <2>2 DEF SameButTime, WindowInv, InView
    <2> QED BY <2>1, <2>3 DEF WindowInv, InView
  <1>7. CASE DismissalEnds
    <2>1. /\ front' = front - 1 /\ front - 1 \in Screen /\ transition'.kind = "none"
          /\ animations' = FadesIn(front - 1)
      BY <1>7, DismissalEndsParts
    <2>2. \A b \in FadesIn(front - 1) :
            b.screen = front - 1 /\ b.controls \subseteq Controls(front - 1)
      BY <2>1, FadesInShow
    <2> QED BY <2>1, <2>2 DEF WindowInv, InView, OnFront
  <1>8. CASE GifDidStop
    <2>1. /\ OnTop(LaunchScreen) /\ animations' = animations
          /\ front' = WhoThis /\ transition'.kind = "present"
      BY <1>8, PresentParts DEF GifDidStop
    <2>2. OnFront /\ front = LaunchScreen
      BY <2>1, TouchedOnFront
    <2> QED BY <2>1, <2>2 DEF WindowInv, InView, OnFront
  <1>9. ASSUME NEW screen \in Screen, NEW control \in Control, CloseTapped(screen, control)
        PROVE  WindowInv'
    BY <1>9, CloseParts DEF WindowInv, InView, OnFront
  <1>10. ASSUME NEW New, Starts(New) PROVE WindowInv'
    BY <1>10, StartedInView DEF Starts
  <1>11. CASE UNCHANGED vars
    BY <1>1, <1>11 DEF vars, viewVars
  <1> QED BY <1>1, <1>2, <1>3, <1>4, <1>5, <1>6, <1>7, <1>8, <1>9, <1>10, <1>11,
             CompletionKinds, TouchKinds DEF Next

(***************************************************************************)
(* No screen is left without its controls: as long as one of them is away, *)
(* the screen in front is about to present the next.                       *)
(***************************************************************************)
Exiting == \E a \in animations : a.screen = front /\ a.then \in {"rise", "done"}

Rested ==
    /\ Controls(front) \cap (faded \cup hidden) = {}
    /\ \A a \in animations : a.screen = front => a.then # "hide"

\* A section has nothing that would bring its button back.
ControlsBack ==
    /\ transition.kind = "none" => Exiting \/ Rested
    /\ transition.kind = "present" /\ front = Section =>
            Controls(Section) \cap (faded \cup hidden) = {}

\* Steps after which nothing has changed but an animation of the screen below.
LEMMA BelowKeepsBack ==
    ASSUME ControlsBack, UNCHANGED <<front, transition>>,
           NEW away, away \cap Controls(front) = {},
           faded' \cup hidden' \subseteq faded \cup hidden \cup away,
           \A b \in animations' : b.screen = front /\ b.then = "hide" =>
                \E a \in animations : a.screen = front /\ a.then = "hide",
           Exiting => Exiting'
    PROVE  ControlsBack'
  <1>1. Rested => Rested'
    BY DEF Rested
  <1>2. Controls(front) \cap (faded \cup hidden) = {} =>
            Controls(front)' \cap (faded \cup hidden)' = {}
    OBVIOUS
  <1>3. (transition.kind = "none")' => (Exiting \/ Rested)'
    BY <1>1 DEF ControlsBack
  <1>4. (transition.kind = "present")' /\ (front = Section)' =>
            Controls(Section) \cap (faded \cup hidden)' = {}
    BY <1>2 DEF ControlsBack
  <1> QED BY <1>3, <1>4 DEF ControlsBack

LEMMA ControlsBackStep == NavigationInv /\ WindowInv /\ ControlsBack /\ [Next]_vars => ControlsBack'
  <1> SUFFICES ASSUME NavigationInv, WindowInv, ControlsBack, [Next]_vars PROVE ControlsBack'
    OBVIOUS
  <1>0. /\ front \in Screen /\ transition.kind \in {"none", "present", "dismiss"}
        /\ transition.kind = "none" <=> transition = Settled
        /\ \A a \in animations : a.screen # front => front > LaunchScreen /\ a.screen = front - 1
    <2>1. \A a \in animations : a.screen \in Screen /\ a.screen \in {front - 1, front}
      BY TypedParts, AnimationParts DEF WindowInv, InView
    <2> QED BY <2>1, TypedParts
  <1>1. CASE UNCHANGED <<front, transition, faded, hidden, animations>>
    BY <1>1 DEF ControlsBack, Exiting, Rested
  <1>2. CASE Tick
    <2>1. /\ \A b \in animations' : \E a \in animations : SameButTime(b, a)
          /\ \A a \in animations : \E b \in animations' : SameButTime(b, a)
          /\ front' = front /\ transition'.kind = transition.kind /\ UNCHANGED <<faded, hidden>>
      BY <1>2, Ticked
    <2>2. (Exiting => Exiting') /\ (Rested => Rested')
      BY <2>1 DEF Exiting, Rested, SameButTime
    <2> QED BY <2>1, <2>2 DEF ControlsBack
  <1>3. ASSUME NEW a \in animations, FadeCompleted(a) PROVE ControlsBack'
    <2>1. /\ UNCHANGED <<front, transition, faded>> /\ animations' = animations \ {a}
          /\ a.then \notin {"rise", "done"}
          /\ hidden' \subseteq hidden \cup a.controls
          /\ a.then # "hide" => hidden' \subseteq hidden
      BY <1>3 DEF FadeCompleted
    <2>2. Exiting => Exiting'
      BY <2>1 DEF Exiting
    <2>3. CASE a.screen # front
      <3>1. a.controls \cap Controls(front) = {}
        BY <1>0, <2>3, ControlsApart DEF WindowInv, InView
      <3> QED BY <2>1, <2>2, <3>1, BelowKeepsBack
    <2>4. CASE a.screen = front /\ a.then = "hide"
      <3>1. transition.kind = "none" => Exiting
        BY <2>4 DEF ControlsBack, Rested
      <3>2. transition.kind # "present"
        BY <1>0, <2>4 DEF WindowInv
      <3> QED BY <2>1, <2>2, <3>1, <3>2 DEF ControlsBack
    <2>5. CASE a.then # "hide"
      <3>1. hidden' \subseteq hidden
        BY <2>1, <2>5
      <3>2. Rested => Rested'
        BY <2>1, <3>1 DEF Rested
      <3> QED BY <2>1, <2>2, <3>1, <3>2 DEF ControlsBack
    <2> QED BY <2>3, <2>4, <2>5
  <1>4. ASSUME NEW a \in animations, ShiftCompleted(a) PROVE ControlsBack'
    <2>1. PICK b : /\ a.then = "rise" /\ b.screen = a.screen /\ b.then = "done"
                   /\ TakenAlong(a.screen, a.label) \subseteq Controls(a.screen)
                   /\ animations' = (animations \ {a}) \cup {b}
                   /\ faded' = faded \cup TakenAlong(a.screen, a.label)
                   /\ UNCHANGED <<front, transition, hidden>>
      BY <1>4, RisenParts
    <2>2. Exiting => Exiting'
      BY <2>1 DEF Exiting
    <2>3. CASE a.screen # front
      <3>1. TakenAlong(a.screen, a.label) \cap Controls(front) = {}
        BY <1>0, <2>1, <2>3, ControlsApart
      <3> QED BY <2>1, <2>2, <3>1, BelowKeepsBack
    <2>4. CASE a.screen = front
      <3>1. Exiting'
        BY <2>1, <2>4 DEF Exiting
      <3>2. transition.kind # "present"
        BY <1>0, <2>4 DEF WindowInv
      <3> QED BY <2>1, <3>1, <3>2 DEF ControlsBack
    <2> QED BY <2>3, <2>4
  <1>5. ASSUME NEW a \in animations, Exited(a) PROVE ControlsBack'
    <2>1. CASE CanPresent(a.screen)
      <3>1. /\ a.screen \in WhoThis..Home /\ Present(a.screen + 1)
            /\ front' = a.screen + 1 /\ transition'.kind = "present"
        BY <1>5, <2>1, PresentParts DEF Exited
      <3>2. front' = Section => Controls(Section) \cap (faded' \cup hidden') = {}
        BY <3>1 DEF Present, Transparent
      <3> QED BY <3>1, <3>2 DEF ControlsBack
    <2>2. CASE ~CanPresent(a.screen)
      <3>1. /\ UNCHANGED <<front, transition, faded, hidden>> /\ animations' = animations \ {a}
        BY <1>5, <2>2 DEF Exited
      <3>2. transition.kind = "none" => a.screen # front
        BY <1>0, <2>2 DEF CanPresent
      <3>3. transition.kind = "none" /\ Exiting => Exiting'
        BY <3>1, <3>2 DEF Exiting
      <3>4. Rested => Rested'
        BY <3>1 DEF Rested
      <3> QED BY <3>1, <3>3, <3>4 DEF ControlsBack
    <2> QED BY <2>1, <2>2
  <1>6. CASE PresentationEnds
    <2>1. /\ front' = front /\ transition'.kind = "none" /\ transition.kind = "present"
          /\ faded' = faded \ FadingIn(front) /\ hidden' = hidden \ FadingIn(front)
          /\ \A b \in animations' : \/ b \in FadesIn(front)
                                    \/ \E a \in animations : /\ SameButTime(b, a) /\ b.left = 0
                                                            /\ a.screen = front - 1
      BY <1>6, PresentationEndsParts DEF Appear
    <2>2. Controls(front) \cap (faded' \cup hidden') = {}
      <3>1. CASE front \in WhoThis..Home
        BY <2>1, <3>1, AppearsInFull
      <3>2. CASE front = LaunchScreen
        BY <3>2, ControlsApart
      <3>3. CASE front = Section
        BY <2>1, <3>3 DEF ControlsBack
      <3> QED BY <1>0, <3>1, <3>2, <3>3
    <2>3. \A b \in animations' : b.screen = front => b.then # "hide"
      BY <1>0, <2>1, FadesInShow DEF SameButTime
    <2> QED BY <2>1, <2>2, <2>3 DEF ControlsBack, Rested
  <1>7. CASE DismissalEnds
    <2>1. /\ front' = front - 1 /\ front - 1 \in WhoThis..Home /\ transition'.kind = "none"
          /\ faded' = faded \ FadingIn(front - 1) /\ hidden' = hidden \ FadingIn(front - 1)
          /\ animations' = FadesIn(front - 1)
      BY <1>7, DismissalEndsParts DEF Appear
    <2>2. Controls(front - 1) \cap (faded' \cup hidden') = {}
      BY <2>1, AppearsInFull
    <2>3. \A b \in animations' : b.then # "hide"
      BY <2>1, FadesInShow
    <2> QED BY <2>1, <2>2, <2>3 DEF ControlsBack, Rested
  <1>8. CASE GifDidStop
    BY <1>8, PresentParts DEF GifDidStop, ControlsBack
  <1>9. ASSUME NEW screen \in Screen, NEW control \in Control, CloseTapped(screen, control)
        PROVE  ControlsBack'
    BY <1>9, CloseParts DEF ControlsBack
  <1>10. ASSUME NEW New, Starts(New) PROVE ControlsBack'
    <2>1. transition.kind = "none" /\ UNCHANGED <<front, transition>>
      BY <1>10, TouchedOnFront DEF Starts
    <2>2. CASE UNCHANGED faded /\ \A a \in New : a.then = "rest"
      <3>1. (Exiting => Exiting') /\ (Rested => Rested')
        BY <1>10, <2>2 DEF Starts, Exiting, Rested
      <3> QED BY <2>1, <3>1 DEF ControlsBack
    <2>3. CASE \E a \in New : a.then \in {"rise", "done"}
      <3>1. Exiting'
        BY <1>10, <2>3 DEF Starts, Exiting
      <3> QED BY <2>1, <3>1 DEF ControlsBack
    <2> QED BY <1>10, <2>2, <2>3 DEF Starts
  <1>11. CASE UNCHANGED vars
    BY <1>1, <1>11 DEF vars, viewVars
  <1> QED BY <1>1, <1>2, <1>3, <1>4, <1>5, <1>6, <1>7, <1>8, <1>9, <1>10, <1>11,
             CompletionKinds, TouchKinds DEF Next

LEMMA ScreensInit == Init => WindowInv /\ ControlsBack
  <1> SUFFICES ASSUME Init PROVE WindowInv /\ ControlsBack
    OBVIOUS
  <1>1. animations = {} /\ transition.kind = "none" /\ front = LaunchScreen
    BY DEF Init, Settled
  <1> QED BY <1>1, ControlsApart DEF WindowInv, InView, OnFront, ControlsBack, Rested

LEMMA ScreensHold == Spec => [](NavigationInv /\ WindowInv /\ ControlsBack)
  <1>1. Init => NavigationInv /\ WindowInv /\ ControlsBack
    BY InitInv, ScreensInit
  <1>2. (NavigationInv /\ WindowInv /\ ControlsBack) /\ [Next]_vars
            => (NavigationInv /\ WindowInv /\ ControlsBack)'
    BY NextInv, WindowStep, ControlsBackStep
  <1> QED BY <1>1, <1>2, PTL DEF Spec

\* Nobody is left before a screen that has come to rest without its controls,
\* whatever was tapped while it faded and however long transitions take.
THEOREM ScreensComeBack == Spec => []NoDeadScreen
  <1>1. NavigationInv /\ WindowInv /\ ControlsBack => NoDeadScreen
    <2> SUFFICES ASSUME NavigationInv, ControlsBack, transition = Settled, animations = {},
                        NEW control \in Controls(front)
                 PROVE  Touchable(front, control)
      BY DEF NoDeadScreen
    <2>1. ~Exiting /\ transition.kind = "none"
      BY DEF Exiting, Settled
    <2>2. Rested
      BY <2>1 DEF ControlsBack
    <2> QED BY <2>2 DEF Rested, Touchable, OnTop, CanPresent, Due
  <1> QED BY <1>1, ScreensHold, PTL

(***************************************************************************)
(* The passcode screen greets the person tapped last: what a later tap     *)
(* starts is over sooner, because the labels have been shifted already.    *)
(***************************************************************************)
LeavingWho == {a \in animations : a.screen = WhoThis /\ a.then \in {"rise", "done"}}

\* When an animation presents the passcode screen, if it is the first.
Until(a) == IF a.then = "rise" THEN a.left + 8 ELSE a.left

\* The persons are about to fade, not later than n ticks from now.
TitleRises(n) == \E b \in LeavingWho : b.then = "rise" /\ b.label = "title" /\ b.left <= n

RisesWith(a) == TitleRises(IF a.then = "rise" THEN a.left ELSE 0)

LastWins == \A a \in LeavingWho :
    a.next # tapped => \E b \in LeavingWho : b.next = tapped /\ Until(b) < Until(a)

PersonsFade == Who \subseteq faded \/ \A a \in LeavingWho : RisesWith(a)

LabelsShifted ==
    \/ Who \subseteq faded
    \/ titles[WhoThis]["title"] = "shifted"
    \/ LeavingWho = {} /\ titles[WhoThis] = AtHome

LastIsFirst == front = WhoThis => LastWins /\ PersonsFade /\ LabelsShifted

LEMMA LeavingWhoParts ==
    ASSUME NavigationInv
    PROVE  \A a \in LeavingWho : a \in animations /\ a.left \in Nat /\ a.screen = WhoThis
                                 /\ a.then \in {"rise", "done"}
  BY TypedParts DEF LeavingWho

\* Nobody is leaving a screen that is still on its way.
LEMMA NobodyLeavesYet ==
    ASSUME NavigationInv, WindowInv, front = WhoThis, LeavingWho # {}
    PROVE  transition = Settled
  <1>1. PICK a \in animations : a.screen = front
    BY DEF LeavingWho
  <1> QED BY <1>1, TypedParts DEF WindowInv

LEMMA SameLeaving ==
    ASSUME LastIsFirst, UNCHANGED <<front, titles, tapped>>, LeavingWho' = LeavingWho,
           faded \subseteq faded'
    PROVE  LastIsFirst'
  <1>1. UNCHANGED <<front, titles, tapped, LeavingWho>>
    OBVIOUS
  <1>2. LastWins => LastWins'
    BY <1>1 DEF LastWins
  <1>3. \A a : RisesWith(a) => RisesWith(a)'
    BY <1>1 DEF RisesWith, TitleRises
  <1>4. PersonsFade => PersonsFade'
    BY <1>1, <1>3 DEF PersonsFade
  <1>5. LabelsShifted => LabelsShifted'
    BY <1>1 DEF LabelsShifted
  <1> QED BY <1>1, <1>2, <1>4, <1>5 DEF LastIsFirst

LEMMA NobodyLeaving ==
    ASSUME LeavingWho = {}, Who \subseteq faded \/ titles[WhoThis] = AtHome
    PROVE  LastIsFirst
  BY DEF LastIsFirst, LastWins, PersonsFade, LabelsShifted

LEMMA TickLast ==
    ASSUME NavigationInv, WindowInv, LastIsFirst, Tick
    PROVE  LastIsFirst'
  <1> SUFFICES ASSUME front = WhoThis PROVE (LastWins /\ PersonsFade /\ LabelsShifted)'
    BY Ticked DEF LastIsFirst
  <1>0. LastWins /\ PersonsFade /\ LabelsShifted
    BY DEF LastIsFirst
  <1>1. /\ \A b \in animations' : \E a \in animations :
                SameButTime(b, a) /\ a.left > 0 /\ b.left = a.left - 1
        /\ \A a \in animations : \E b \in animations' :
                SameButTime(b, a) /\ a.left > 0 /\ b.left = a.left - 1
        /\ UNCHANGED <<faded, titles, tapped>>
    BY Ticked
  <1> DEFINE Older(b, a) == /\ a.then = b.then /\ a.next = b.next /\ a.left = b.left + 1
                            /\ a.then = "rise" => a.label = b.label
  <1>2. \A b \in LeavingWho' : \E a \in LeavingWho : Older(b, a) /\ a.left \in Nat /\ b.left \in Nat
    <2> SUFFICES ASSUME NEW b \in LeavingWho'
                 PROVE  \E a \in LeavingWho : Older(b, a) /\ a.left \in Nat /\ b.left \in Nat
      OBVIOUS
    <2>1. b \in animations' /\ b.screen = WhoThis /\ b.then \in {"rise", "done"}
      BY DEF LeavingWho
    <2>2. PICK a \in animations : SameButTime(b, a) /\ a.left > 0 /\ b.left = a.left - 1
      BY <1>1, <2>1
    <2>3. a \in LeavingWho /\ a.left \in Nat
      BY <2>1, <2>2, TypedParts DEF LeavingWho, SameButTime
    <2> QED BY <2>1, <2>2, <2>3 DEF SameButTime
  <1>3. \A a \in LeavingWho : \E b \in LeavingWho' : Older(b, a) /\ a.left \in Nat /\ b.left \in Nat
    <2> SUFFICES ASSUME NEW a \in LeavingWho
                 PROVE  \E b \in LeavingWho' : Older(b, a) /\ a.left \in Nat /\ b.left \in Nat
      OBVIOUS
    <2>1. a \in animations /\ a.left \in Nat /\ a.screen = WhoThis /\ a.then \in {"rise", "done"}
      BY LeavingWhoParts
    <2>2. PICK b \in animations' : SameButTime(b, a) /\ a.left > 0 /\ b.left = a.left - 1
      BY <1>1, <2>1
    <2>3. b \in LeavingWho'
      BY <2>1, <2>2 DEF LeavingWho, SameButTime
    <2> QED BY <2>1, <2>2, <2>3 DEF SameButTime
  <1>4. LastWins'
    <2> SUFFICES ASSUME NEW b \in LeavingWho', b.next # tapped
                 PROVE  \E c \in LeavingWho' : c.next = tapped /\ Until(c) < Until(b)
      BY <1>1 DEF LastWins
    <2>1. PICK a \in LeavingWho : Older(b, a) /\ a.left \in Nat /\ b.left \in Nat
      BY <1>2
    <2>2. PICK first \in LeavingWho : first.next = tapped /\ Until(first) < Until(a)
      BY <1>0, <2>1 DEF LastWins
    <2>3. PICK c \in LeavingWho' : Older(c, first) /\ first.left \in Nat /\ c.left \in Nat
      BY <1>3
    <2>4. Until(a) = Until(b) + 1 /\ Until(first) = Until(c) + 1 /\ Until(b) \in Nat /\ Until(c) \in Nat
      BY <2>1, <2>3 DEF Until
    <2> QED BY <2>2, <2>3, <2>4
  <1>5. PersonsFade'
    <2> SUFFICES ASSUME ~(Who \subseteq faded), NEW b \in LeavingWho' PROVE RisesWith(b)'
      BY <1>1 DEF PersonsFade
    <2>1. PICK a \in LeavingWho : Older(b, a) /\ a.left \in Nat /\ b.left \in Nat
      BY <1>2
    <2>2. PICK t \in LeavingWho : /\ t.then = "rise" /\ t.label = "title"
                                  /\ t.left <= IF a.then = "rise" THEN a.left ELSE 0
      BY <1>0 DEF PersonsFade, RisesWith, TitleRises
    <2>3. PICK c \in LeavingWho' : Older(c, t) /\ t.left \in Nat /\ c.left \in Nat
      BY <1>3
    <2>4. c.then = "rise" /\ c.label = "title" /\ c.left <= IF b.then = "rise" THEN b.left ELSE 0
      BY <2>1, <2>2, <2>3
    <2> QED BY <2>3, <2>4 DEF RisesWith, TitleRises
  <1>6. LabelsShifted'
    <2>1. LeavingWho = {} => LeavingWho' = {}
      BY <1>2
    <2> QED BY <1>0, <1>1, <2>1 DEF LabelsShifted
  <1> QED BY <1>4, <1>5, <1>6

\* The second half of leaving begins: it takes the persons away, or the
\* title that does so is due as well.
LEMMA RiseLast ==
    ASSUME NavigationInv, WindowInv, LastIsFirst, NEW a \in animations, ShiftCompleted(a)
    PROVE  LastIsFirst'
  <1>1. PICK b :
            /\ a.screen \in {WhoThis, OTP} /\ a.label \in Label /\ a.left = 0 /\ a.then = "rise"
            /\ b.screen = a.screen /\ b.then = "done" /\ b.next = a.next
            /\ b.left = Lasting(a.screen, 8)
            /\ animations' = (animations \ {a}) \cup {b}
            /\ faded' = faded \cup TakenAlong(a.screen, a.label)
            /\ titles' = [titles EXCEPT ![a.screen][a.label] = "risen"]
            /\ UNCHANGED <<front, transition, tapped>>
    BY RisenParts
  <1> SUFFICES ASSUME front = WhoThis PROVE (LastWins /\ PersonsFade /\ LabelsShifted)'
    BY <1>1 DEF LastIsFirst
  <1>0. LastWins /\ PersonsFade /\ LabelsShifted
    BY DEF LastIsFirst
  <1>2. a.screen = WhoThis /\ b.left = 8
    BY <1>1 DEF WindowInv, InView, Lasting, InWindow
  <1>3. a \in LeavingWho /\ LeavingWho' = (LeavingWho \ {a}) \cup {b}
    BY <1>1, <1>2 DEF LeavingWho
  <1>4. Until(a) = 8 /\ Until(b) = 8
    BY <1>1, <1>2 DEF Until
  <1>5. LastWins'
    <2> SUFFICES ASSUME NEW x \in LeavingWho', x.next # tapped
                 PROVE  \E y \in LeavingWho' : y.next = tapped /\ Until(y) < Until(x)
      BY <1>1 DEF LastWins
    <2>1. PICK z \in LeavingWho : z.next = x.next /\ Until(z) = Until(x)
      BY <1>1, <1>3, <1>4
    <2>2. PICK first \in LeavingWho : first.next = tapped /\ Until(first) < Until(x)
      BY <1>0, <2>1 DEF LastWins
    <2>3. CASE first = a
      BY <1>1, <1>3, <1>4, <2>2, <2>3
    <2>4. CASE first # a
      BY <1>3, <2>2, <2>4
    <2> QED BY <2>3, <2>4
  <1>6. PersonsFade'
    <2>1. CASE Who \subseteq faded \/ a.label = "title"
      BY <1>1, <1>2, <2>1 DEF PersonsFade, TakenAlong
    <2>2. CASE ~(Who \subseteq faded) /\ a.label # "title"
      <3>1. PICK t \in LeavingWho : t.then = "rise" /\ t.label = "title" /\ t.left <= 0
        BY <1>0, <1>1, <1>3, <2>2 DEF PersonsFade, RisesWith, TitleRises
      <3>2. t \in LeavingWho'
        BY <1>3, <2>2, <3>1
      <3>3. \A x \in LeavingWho' : x.then = "rise" => x.left \in Nat
        BY <1>1, <1>3, LeavingWhoParts
      <3>4. t.left \in Nat
        BY LeavingWhoParts
      <3>5. \A x \in LeavingWho' : t.left <= IF x.then = "rise" THEN x.left ELSE 0
        BY <3>1, <3>3, <3>4
      <3> QED BY <3>1, <3>2, <3>5 DEF PersonsFade, RisesWith, TitleRises
    <2> QED BY <2>1, <2>2
  <1>7. LabelsShifted'
    <2>1. CASE Who \subseteq faded \/ a.label = "title"
      BY <1>1, <1>2, <2>1 DEF LabelsShifted, TakenAlong
    <2>2. CASE ~(Who \subseteq faded) /\ a.label # "title"
      <3>1. titles[WhoThis]["title"] = "shifted"
        BY <1>0, <1>3, <2>2 DEF LabelsShifted
      <3>2. titles \in [{WhoThis, OTP} -> [Label -> {"home", "shifted", "risen"}]]
        BY TypeOKParts DEF NavigationInv, ViewTyped
      <3>3. titles'[WhoThis]["title"] = "shifted"
        BY <1>1, <1>2, <2>2, <3>1, <3>2 DEF Label
      <3> QED BY <3>3 DEF LabelsShifted
    <2> QED BY <2>1, <2>2
  <1> QED BY <1>5, <1>6, <1>7

\* A person is tapped: what this starts is over before all that is under way.
LEMMA TapLast ==
    ASSUME NavigationInv, WindowInv, LastIsFirst, NEW person \in Who, PersonTapped(person)
    PROVE  LastIsFirst'
  <1>1. /\ front = WhoThis /\ OnTop(WhoThis) /\ front' = front /\ person \notin faded
        /\ animations' = animations \cup {Press(WhoThis, person)} \cup Leaving(WhoThis, person)
        /\ titles' = [titles EXCEPT ![WhoThis] = [label \in Label |-> "shifted"]]
        /\ tapped' = person /\ faded' = faded
    BY DEF PersonTapped, Touchable, OnTop, CanPresent
  <1> SUFFICES (LastWins /\ PersonsFade /\ LabelsShifted)'
    BY DEF LastIsFirst
  <1>2. titles \in [{WhoThis, OTP} -> [Label -> {"home", "shifted", "risen"}]]
    BY TypeOKParts DEF NavigationInv, ViewTyped
  <1>3. \A a \in LeavingWho : a.left \in Nat /\ a.left > 0 /\ a.then \in {"rise", "done"}
    BY <1>1, LeavingWhoParts DEF OnTop, Due
  <1>4. LeavingWho' = LeavingWho \cup Leaving(WhoThis, person)
    BY <1>1, PressParts, LeavingParts DEF LeavingWho
  <1>5. /\ PersonsFade /\ LabelsShifted /\ ~(Who \subseteq faded)
    BY <1>1 DEF LastIsFirst
  <1>6. LeavingWho # {} => titles[WhoThis]["title"] = "shifted"
    BY <1>5 DEF LabelsShifted
  \* No second half is under way, or the persons would have faded.
  <1>7. \A a \in LeavingWho : a.then = "rise"
    <2> SUFFICES ASSUME NEW a \in LeavingWho, a.then # "rise" PROVE FALSE
      OBVIOUS
    <2>1. PICK t \in LeavingWho : t.left <= 0
      BY <1>5 DEF PersonsFade, RisesWith, TitleRises
    <2> QED BY <1>3, <2>1
  <1>8. \A a \in LeavingWho : Until(a) > 8
    BY <1>3, <1>7 DEF Until
  <1>9. PICK t \in Leaving(WhoThis, person) : t.label = "title"
    BY LeavingParts DEF Label
  <1>10. /\ t \in LeavingWho' /\ t.next = person /\ t.then = "rise"
         /\ t.left = ShiftTicks(WhoThis, "title")
    BY <1>4, <1>9, LeavingParts
  <1>11. LastWins'
    <2> SUFFICES ASSUME NEW x \in LeavingWho', x.next # person
                 PROVE  t.next = person /\ Until(t) < Until(x)
      BY <1>1, <1>10 DEF LastWins
    <2>1. x \in LeavingWho
      BY <1>4, LeavingParts
    <2>2. t.left = 0
      BY <1>6, <1>10, <2>1 DEF ShiftTicks
    <2> QED BY <1>8, <1>10, <2>1, <2>2 DEF Until
  <1>12. PersonsFade'
    <2> SUFFICES ASSUME NEW x \in LeavingWho'
                 PROVE  t.left <= IF x.then = "rise" THEN x.left ELSE 0
      BY <1>9, <1>10 DEF PersonsFade, RisesWith, TitleRises
    <2>1. CASE x \in LeavingWho
      <3>1. t.left = 0
        BY <1>6, <1>10, <2>1 DEF ShiftTicks
      <3> QED BY <1>3, <1>7, <2>1, <3>1
    <2>2. CASE x \in Leaving(WhoThis, person)
      <3>1. x.then = "rise" /\ x.label \in Label /\ x.left = ShiftTicks(WhoThis, x.label)
        BY <2>2, LeavingParts
      <3>2. titles[WhoThis]["title"] = "shifted" \/ titles[WhoThis] = AtHome
        BY <1>5 DEF LabelsShifted
      <3> QED BY <1>10, <3>1, <3>2 DEF ShiftTicks, AtHome, Label
    <2> QED BY <1>4, <2>1, <2>2
  <1>13. LabelsShifted'
    BY <1>1, <1>2 DEF LabelsShifted, Label
  <1> QED BY <1>11, <1>12, <1>13

LEMMA LastStep == NavigationInv /\ WindowInv /\ LastIsFirst /\ [Next]_vars => LastIsFirst'
  <1> SUFFICES ASSUME NavigationInv, WindowInv, LastIsFirst, [Next]_vars, front' = WhoThis
               PROVE  LastIsFirst'
    BY DEF LastIsFirst
  <1>0. front \in Screen
    BY TypedParts
  <1>1. ASSUME NEW a \in animations, FadeCompleted(a) PROVE LastIsFirst'
    <2>1. /\ UNCHANGED <<front, titles, tapped, faded>> /\ animations' = animations \ {a}
          /\ a.then \notin {"rise", "done"}
      BY <1>1 DEF FadeCompleted
    <2>2. LeavingWho' = LeavingWho
      BY <2>1 DEF LeavingWho
    <2> QED BY <2>1, <2>2, SameLeaving
  <1>2. ASSUME NEW a \in animations, Exited(a) PROVE LastIsFirst'
    <2>1. front = WhoThis /\ ~CanPresent(a.screen)
      BY <1>2, PresentParts DEF Exited
    <2>2. a.screen \in {LaunchScreen, WhoThis} /\ a.then = "done"
      BY <1>2, <2>1 DEF WindowInv, InView, Exited
    <2>3. a.screen = WhoThis
      <3>1. a \in Exit(a.screen)
        BY <2>2, TypedParts, AnimationParts
      <3> QED BY <2>2, <3>1, TypedParts, AnimationKinds DEF Exit, Shift, Fade
    <2>4. transition = Settled
      <3>1. a \in LeavingWho
        BY <2>2, <2>3 DEF LeavingWho
      <3> QED BY <2>1, <3>1, NobodyLeavesYet
    <2> QED BY <2>1, <2>3, <2>4 DEF CanPresent
  <1>3. CASE PresentationEnds
    <2>1. /\ front = WhoThis /\ titles' = [titles EXCEPT ![WhoThis] = AtHome]
          /\ \A b \in animations' : \/ b \in FadesIn(front)
                                    \/ \E a \in animations : /\ SameButTime(b, a)
                                                            /\ a.screen = front - 1
      BY <1>3, PresentationEndsParts DEF Appear
    <2>2. \A b \in animations' : b.screen = WhoThis => b.then = "show"
      BY <2>1, FadesInShow DEF SameButTime
    <2>3. LeavingWho' = {}
      BY <2>2 DEF LeavingWho
    <2>4. titles'[WhoThis] = AtHome
      BY <2>1, TypeOKParts DEF NavigationInv, ViewTyped
    <2> QED BY <2>3, <2>4 DEF LastIsFirst, LastWins, PersonsFade, LabelsShifted
  <1>4. CASE DismissalEnds
    <2>1. /\ front - 1 = WhoThis /\ titles' = [titles EXCEPT ![WhoThis] = AtHome]
          /\ animations' = FadesIn(WhoThis)
      BY <1>4, DismissalEndsParts DEF Appear
    <2>2. LeavingWho' = {}
      BY <2>1, FadesInShow DEF LeavingWho
    <2>3. titles'[WhoThis] = AtHome
      BY <2>1, TypeOKParts DEF NavigationInv, ViewTyped
    <2> QED BY <2>2, <2>3 DEF LastIsFirst, LastWins, PersonsFade, LabelsShifted
  <1>5. CASE GifDidStop
    <2>1. OnFront /\ front = LaunchScreen /\ animations' = animations
      BY <1>5, TouchedOnFront DEF GifDidStop
    <2>2. LeavingWho' = {}
      BY <2>1 DEF LeavingWho, OnFront
    <2>3. Who \subseteq faded'
      <3>1. Who \subseteq Transparent(WhoThis)
        BY NamesAreDistinct DEF Transparent, Controls
      <3> QED BY <1>5, <3>1 DEF GifDidStop, Present
    <2> QED BY <2>2, <2>3 DEF LastIsFirst, LastWins, PersonsFade, LabelsShifted
  <1>6. ASSUME NEW screen \in Screen, NEW control \in Control, CloseTapped(screen, control)
        PROVE  LastIsFirst'
    BY <1>6, CloseParts
  <1>7. CASE \/ FieldTapped \/ TappedAround \/ \E text \in Code : Type(text)
             \/ SubmitShort \/ SubmitRight \/ SubmitWrong \/ TimeDateTapped \/ NextTapped
             \/ \E section \in Sections : SectionTapped(section)
    BY <1>7 DEF FieldTapped, TappedAround, Type, SubmitShort, SubmitRight, SubmitWrong,
                TimeDateTapped, NextTapped, SectionTapped, Touchable, OnTop, CanPresent
  <1>8. CASE UNCHANGED vars
    <2>1. UNCHANGED <<front, titles, tapped, faded, animations>>
      BY <1>8 DEF vars, viewVars
    <2>2. LeavingWho' = LeavingWho
      BY <2>1 DEF LeavingWho
    <2> QED BY <2>1, <2>2, SameLeaving
  <1> QED BY <1>1, <1>2, <1>3, <1>4, <1>5, <1>6, <1>7, <1>8, TickLast, RiseLast, TapLast,
             CompletionKinds DEF Next, Touch

\* The step that presents the passcode screen.
LEMMA AsksStep ==
    ASSUME NavigationInv, WindowInv, LastIsFirst, [Next]_vars, front = WhoThis, front' = OTP
    PROVE  who' = tapped
  <1>1. \E a \in animations : PresentOTP(a) /\ CanPresent(WhoThis)
    <2>1. ~Tick /\ ~PresentationEnds /\ ~DismissalEnds /\ ~UNCHANGED vars
      BY DEF Tick, PresentationEnds, DismissalEnds, vars
    <2>2. ~Touch
      BY DEF Touch, GifDidStop, PersonTapped, FieldTapped, TappedAround, Type, SubmitShort,
             SubmitRight, SubmitWrong, CloseTapped, Dismiss, TimeDateTapped, NextTapped,
             SectionTapped, OnTop, CanPresent, viewVars
    <2>3. ASSUME NEW a \in animations, Completion(a) PROVE PresentOTP(a) /\ CanPresent(WhoThis)
      BY <2>3 DEF Completion, FadeCompleted, ShiftCompleted, PresentOTP, TransitionToMainScreen,
                  PresentNext, CanPresent
    <2> QED BY <2>1, <2>2, <2>3 DEF Next
  <1>2. PICK a \in animations : PresentOTP(a) /\ CanPresent(WhoThis)
    BY <1>1
  <1>3. who' = a.next /\ a \in LeavingWho /\ a.left = 0 /\ a.then = "done"
    BY <1>2 DEF PresentOTP, LeavingWho, Due
  <1>4. a.next = tapped
    <2> SUFFICES ASSUME a.next # tapped PROVE FALSE
      OBVIOUS
    <2>1. PICK b \in LeavingWho : Until(b) < Until(a)
      BY <1>3 DEF LastIsFirst, LastWins
    <2>2. Until(a) = 0 /\ Until(b) \in Nat
      BY <1>3, LeavingWhoParts DEF Until
    <2> QED BY <2>1, <2>2
  <1> QED BY <1>3, <1>4

\* If both persons are tapped before their screen has gone, the passcode
\* screen asks the one who was tapped last (handleDisappearAnimation), for
\* any number of persons.
THEOREM LastTappedIsAsked == Spec => AsksLastTapped
  <1>1. Init => LastIsFirst
    BY DEF Init, LastIsFirst
  <1>2. NavigationInv /\ WindowInv /\ LastIsFirst /\ [Next]_vars
            => [front = WhoThis /\ front' = OTP => who' = tapped]_vars
    BY AsksStep
  <1> QED BY <1>1, <1>2, ScreensHold, LastStep, PTL DEF Spec, AsksLastTapped
===================================================================================
