------------------------------ MODULE Explorer ------------------------------
(***************************************************************************)
(* The depth-first exploration of an app by packages/explorer              *)
(* (engine.ts, explore): a stack of frames, one per page on the way down,  *)
(* each with a cursor into the elements still to be tapped, and a device   *)
(* whose screen only approximately follows it.  A page is an opaque value; *)
(* TitleOf, StructOf and AppOf give what the engine reads off a snapshot,  *)
(* and the screen id, the hash of the visible texts, is the page itself.   *)
(*                                                                         *)
(* One iteration of the main loop is several steps, named by pc, so that   *)
(* the deadline can pass between any two calls to the device: "loop" (the  *)
(* head and the frame guard), "relaunch", "expand", "visit", "tap", the    *)
(* further taps of one element in "retry", and "land".  A call that throws *)
(* ends the run in "thrown".  The device moves only when the engine acts.  *)
(***************************************************************************)
EXTENDS Naturals, Sequences

CONSTANTS
  Pages, None,      \* the screens of the device; no title
  TitleOf,          \* a page's normalised title, or None
  StructOf,         \* the structural hash of a page's tree
  AppOf, Target,    \* the app a page belongs to; the explored one
  Homes,            \* where launching the target app can lead at first
  Leads,            \* where a tap on a page can lead
  Offers,           \* how many elements a page may offer after rules and sampling
  More,             \* how many new elements a scroll may uncover
  Scrolls,          \* the pages with a scrollable container
  Gated, Stateful,  \* the pages that rules record without expanding them
  Dialogs,          \* the pages validateNavigation takes for system dialogs
  Unsafe,           \* the pages with only side effects and back controls
  Links, Budgeted,  \* labels of external links; labels tapped once per page
  Options,          \* the platforms and failure strategies: records android, strategy
  Threshold, MaxPages, MaxSegments, ExternalLinkMaxDepth,
  MaxTaps           \* bound of the model: no iteration starts after so many taps

Apps == {AppOf[p] : p \in Pages} \cup {Target}
Labels == Nat \X Nat   \* an element is named by its segment and its place there

Strategies == {"retry-3", "skip", "handoff"}

ASSUME PagesAssumption ==
  /\ DOMAIN TitleOf = Pages /\ DOMAIN StructOf = Pages /\ DOMAIN AppOf = Pages
  /\ Homes \subseteq Pages /\ \A h \in Homes : AppOf[h] = Target
  /\ Leads \in [Pages -> SUBSET Pages]
  /\ Offers \in [Pages -> SUBSET Nat]

ASSUME LimitsAssumption ==
  /\ More \subseteq Nat \ {0}
  /\ Options \subseteq [android : BOOLEAN, strategy : Strategies]
  /\ Threshold \in Nat \ {0} /\ MaxSegments \in Nat \ {0}
  /\ MaxPages \in Nat \ {0} /\ ExternalLinkMaxDepth \in Nat /\ MaxTaps \in Nat

VARIABLES
  pc,          \* where in an iteration the engine is
  screen,      \* the page the device shows
  stack,       \* the frames, the home page's first
  visited,     \* the registry: pages with the path they were reached on
  count,       \* the number of entries of the registry
  failures,    \* both counters of the circuit breaker, which are always equal
  currentApp,  \* currentAppId
  spent,       \* budgeted actions that have succeeded, with their page
  retries,     \* elementRetries of the tap in progress
  sent, committed, rejected,  \* transitionLifecycle
  late,        \* the run's time is up
  opts         \* the platform and the failure strategy of the run

device == <<screen, currentApp>>
registry == <<visited, count>>
ledger == <<sent, committed, rejected>>
outside == <<late, opts>>
vars == <<pc, device, stack, registry, failures, spent, retries, ledger, outside>>

Top == stack[Len(stack)]
Pop(s) == SubSeq(s, 1, Len(s) - 1)
WithTop(f) == [stack EXCEPT ![Len(stack)] = f]

\* frame.elements holds segment 0; scrollState.segmentIndex is always the last.
SegmentSize(f) == IF f.segs = <<>> THEN f.size ELSE f.segs[Len(f.segs)]
Exhausted(f) == f.cursor >= SegmentSize(f)
Segment(f) == IF f.segs = <<>> THEN 1 ELSE Len(f.segs)
Label(f) == <<Segment(f), f.cursor>>     \* of the element tapped last

\* lookalike is history that no action reads: the frame has been expanded as a
\* page that has only the structure of its own in common with it.
RootFrame(p, n) ==
  [page |-> p, app |-> Target, depth |-> 0, path |-> <<>>, cursor |-> 0, size |-> n,
   segs |-> IF p \in Scrolls THEN <<n>> ELSE <<>>,
   probed |-> FALSE, noOp |-> {}, ext |-> FALSE, lookalike |-> FALSE]

\* Slip: a foreign page is pushed at its parent's depth.
ChildFrameLevel(f, p, foreign) ==
  [page |-> p, app |-> AppOf[p], depth |-> f.depth + (IF foreign THEN 0 ELSE 1),
   path |-> Append(f.path, Label(f)), cursor |-> 0, size |-> 0, segs |-> <<>>,
   probed |-> FALSE, noOp |-> {}, ext |-> foreign, lookalike |-> FALSE]

ChildFrame(f, p, foreign) ==
  [page |-> p, app |-> AppOf[p], depth |-> f.depth + 1, path |-> Append(f.path, Label(f)),
   cursor |-> 0, size |-> 0, segs |-> <<>>, probed |-> FALSE, noOp |-> {}, ext |-> foreign,
   lookalike |-> FALSE]

Topmost(S) == CHOOSE i \in S : \A j \in S : j <= i

\* The title a frame was pushed under: its nearest titled ancestor's.
ParentTitle ==
  LET titled == {i \in 1 .. Len(stack) - 1 : TitleOf[stack[i].page] # None}
  IN  IF titled = {} THEN None ELSE TitleOf[stack[Topmost(titled)].page]

SameTitle(p, q) == TitleOf[p] = TitleOf[q] /\ TitleOf[p] # None

\* isOnExpectedPage; the inspection behind it may also fail.
Resembles(p, f) == p = f.page \/ StructOf[p] = StructOf[f.page] \/ SameTitle(p, f.page)

\* The outcomes of navigateBack: once it reports success the device shows the
\* parent it was asked for (or, without two titles to compare, just another page),
\* or the target app relaunched;
\* after a failure its attempts may have left the device anywhere.
BackReaches(ok, title, to) ==
  ok => \/ IF None \in {title, TitleOf[to]} THEN to # screen ELSE TitleOf[to] = title
        \/ opts.android /\ AppOf[to] = Target

----------------------------------------------------------------------------
(* The frame reconciler and the page registry.                             *)

\* Slip: only the screen id counts, as before screens were known to drift.
FindAncestorByScreen(s, p) ==
  LET same == {i \in 1 .. Len(s) : s[i].page = p /\ s[i].app = AppOf[p]}
  IN  IF same # {} THEN Topmost(same) ELSE 0

FindAncestor(s, p) ==
  LET same == {i \in 1 .. Len(s) : s[i].page = p /\ s[i].app = AppOf[p]}
      titled == {i \in 1 .. Len(s) : SameTitle(s[i].page, p) /\ s[i].app = AppOf[p]}
  IN  IF same # {} THEN Topmost(same) ELSE IF titled # {} THEN Topmost(titled) ELSE 0

Resumed(f, p) == [f EXCEPT !.page = p, !.app = AppOf[p], !.ext = FALSE]

UnwindTo(s, i, f) == Append(SubSeq(s, 1, i - 1), f)

Resumes(s, p, reset) ==
  s # <<>> /\ (FindAncestor(s, p) > 0 \/ (AppOf[p] = Target /\ reset))

Reconcile(s, p, reset) ==
  LET a == FindAncestor(s, p)
  IN  IF ~Resumes(s, p, reset) THEN s
      ELSE IF a > 0
           THEN UnwindTo(s, a, [Resumed(s[a], p) EXCEPT
                  !.segs = IF TitleOf[p] = None THEN <<>> ELSE @])
           ELSE <<[Resumed(s[1], p) EXCEPT !.depth = 0, !.path = <<>>,
                                           !.cursor = 0, !.size = 0, !.segs = <<>>]>>

\* captureAndReconcileVisiblePage on page p for the stack s.
Recapture(s, p, reset) ==
  /\ stack' = Reconcile(s, p, reset)
  /\ currentApp' = IF Resumes(s, p, reset) THEN AppOf[p] ELSE currentApp

Register(p, path) == visited' = visited \cup {<<p, path>>} /\ count' = count + 1

Known(p) == \E e \in visited : e[1] = p

----------------------------------------------------------------------------
(* Coming back from the page of the top frame f, which is popped.          *)

Leave(f, mayReconcile) ==
  IF f.depth = 0
  THEN stack' = Pop(stack) /\ UNCHANGED device
  ELSE \E ok \in BOOLEAN, p \in Pages :
         LET s == Pop(stack)
             found == mayReconcile /\ ok /\ opts.android /\ Resumes(s, p, TRUE)
         IN  /\ BackReaches(ok, ParentTitle, p)
             /\ screen' = p
             /\ stack' = IF found THEN Reconcile(s, p, TRUE) ELSE s
             /\ currentApp' = CASE f.ext -> Target
                                [] found /\ ~f.ext -> AppOf[p]
                                [] OTHER -> currentApp

\* returnToTargetAppFromForeignPage: on Android the system back first (b, matched
\* or not), then launchApp, then, if that throws and strict is not asked, back.
ReturnToTarget(strict) ==
  LET s == Pop(stack)
      matched(b) == Resumes(s, b, TRUE) /\ (strict => AppOf[b] = Target)
      after(b) == IF opts.android THEN Reconcile(s, b, TRUE) ELSE s
  IN  \E ok \in BOOLEAN, b \in (IF opts.android THEN Pages ELSE {screen}), p \in Pages :
        /\ opts.android => BackReaches(ok, None, b)
        /\ \/ opts.android /\ matched(b) /\ p = b
              /\ screen' = b /\ stack' = after(b) /\ currentApp' = AppOf[b]
           \/ ~(opts.android /\ matched(b))
              /\ screen' = p
              /\ stack' = Reconcile(after(b), p, TRUE)
              /\ currentApp' = IF Resumes(after(b), p, TRUE) THEN AppOf[p] ELSE Target
           \/ ~(opts.android /\ matched(b)) /\ ~strict
              /\ screen' = p /\ stack' = after(b) /\ UNCHANGED currentApp

----------------------------------------------------------------------------
Init ==
  /\ pc = "launch" /\ screen \in Pages /\ stack = <<>>
  /\ visited = {} /\ count = 0 /\ failures = 0 /\ currentApp = Target /\ spent = {}
  /\ retries = 0 /\ sent = 0 /\ committed = 0 /\ rejected = 0 /\ late = FALSE /\ opts \in Options

\* launchApp or the first wait fails, or the home page h is registered; a gated
\* home page may be left by a Cancel, for q.
Launch ==
  /\ pc = "launch"
  /\ \/ pc' = "ended" /\ UNCHANGED <<device, stack, registry>>
     \/ \E h \in Homes :
          \E q \in (IF h \in Gated THEN Pages ELSE {h}) : \E n \in Offers[q] :
            /\ pc' = "loop" /\ screen' = q
            /\ stack' = <<RootFrame(q, n)>>
            /\ Register(q, <<>>) /\ UNCHANGED currentApp
  /\ UNCHANGED <<failures, spent, retries, ledger, outside>>

CircuitOpen == failures >= 2 * Threshold
\* Slip: the page budget is not looked at.
OverUnbudgeted == stack = <<>> \/ late \/ CircuitOpen

Over == stack = <<>> \/ count >= MaxPages \/ late \/ CircuitOpen

Finish ==
  /\ pc = "loop" /\ Over
  /\ pc' = "ended"
  /\ UNCHANGED <<device, stack, registry, failures, spent, retries, ledger, outside>>

AtHead == pc = "loop" /\ ~Over /\ sent < MaxTaps

NextStage(f) == IF f.cursor = 0 /\ f.size = 0 THEN "expand" ELSE "visit"

\* Slip: the guard trusts the home page, as the plan of the engine had it.
FrameAlignedAtHome ==
  /\ AtHead /\ (Top.depth = 0 \/ Resembles(screen, Top))
  /\ pc' = NextStage(Top)
  /\ UNCHANGED <<device, stack, registry, failures, spent, retries, ledger, outside>>

FrameAligned ==
  /\ AtHead /\ Resembles(screen, Top)
  /\ pc' = NextStage(Top)
  /\ UNCHANGED <<device, stack, registry, failures, spent, retries, ledger, outside>>

\* The screen is not the frame's (or could not be read): one navigateBack, then on
\* Android a reconciliation, which may leave another frame on top.
Realign(ok, p) ==
  /\ AtHead /\ BackReaches(ok, ParentTitle, p)
  /\ screen' = p
  /\ IF opts.android /\ (ok \/ Top.ext) THEN Recapture(stack, p, TRUE)
     ELSE UNCHANGED <<stack, currentApp>>
  /\ UNCHANGED <<registry, failures, spent, retries, ledger, outside>>

FrameResumed ==
  \E ok \in BOOLEAN, p \in Pages :
    /\ Realign(ok, p) /\ Len(stack') < Len(stack) /\ pc' = "loop"

FrameRecovered ==
  \E p \in Pages :
    /\ Realign(TRUE, p) /\ Len(stack') = Len(stack)
    /\ Resembles(p, stack'[Len(stack)])
    /\ pc' = NextStage(stack'[Len(stack)])

FrameLost ==
  \E ok \in BOOLEAN, p \in Pages :
    /\ AtHead /\ BackReaches(ok, ParentTitle, p) /\ screen' = p
    /\ LET tried == opts.android /\ (ok \/ Top.ext)
           s == IF tried THEN Reconcile(stack, p, TRUE) ELSE stack
           f == s[Len(s)]
       IN /\ Len(s) = Len(stack)
          /\ currentApp' = IF tried /\ Resumes(stack, p, TRUE) THEN AppOf[p] ELSE currentApp
          /\ IF f.depth = 0
             THEN stack' = s /\ pc' = IF f.cursor >= f.size THEN "ended" ELSE "relaunch"
             ELSE stack' = Pop(s) /\ pc' = "loop"
    /\ UNCHANGED <<registry, failures, spent, retries, ledger, outside>>

\* Slip: the popped home frame is not followed by a continue.
RelaunchGoesOn ==
  /\ pc = "relaunch"
  /\ \E p \in Pages : Resembles(p, Top) /\ screen' = p
  /\ pc' = "visit" /\ stack' = Pop(stack)
  /\ UNCHANGED <<currentApp, registry, failures, spent, retries, ledger, outside>>

\* launchApp for a lost home page: it throws or misses the page and the run is
\* aborted, or it finds the page, and the frame is then popped all the same.
Relaunch ==
  /\ pc = "relaunch"
  /\ \/ UNCHANGED screen /\ pc' = "ended" /\ UNCHANGED stack
     \/ \E p \in Pages : screen' = p /\ pc' = "ended" /\ UNCHANGED stack
     \/ \E p \in Pages : /\ Resembles(p, Top) /\ screen' = p
                         /\ pc' = "loop" /\ stack' = Pop(stack)
  /\ UNCHANGED <<currentApp, registry, failures, spent, retries, ledger, outside>>

----------------------------------------------------------------------------
\* Expanding the page on the screen, for a frame without elements.

ExpandKnown ==
  /\ pc = "expand" /\ Known(screen)
  /\ IF <<screen, Top.path>> \in visited THEN UNCHANGED registry
     ELSE Register(screen, Top.path)
  /\ Leave(Top, TRUE)
  /\ pc' = "loop"
  /\ UNCHANGED <<failures, spent, retries, ledger, outside>>

ExpandGated ==
  /\ pc = "expand" /\ ~Known(screen) /\ screen \in Gated
  /\ Register(screen, Top.path) /\ failures' = 0
  /\ Leave(Top, FALSE)
  /\ pc' = "loop"
  /\ UNCHANGED <<spent, retries, ledger, outside>>

\* shouldGateExternalAppFrame for frame f on page p with n elements
GatesForeign(f, p, n) ==
  f.ext /\ f.depth > ExternalLinkMaxDepth /\ (n = 0 \/ p \in Unsafe)

ExpandForeign ==
  /\ pc = "expand" /\ ~Known(screen) /\ screen \notin Gated
  /\ \E n \in Offers[screen] : GatesForeign(Top, screen, n)
  /\ Register(screen, Top.path) /\ failures' = 0
  /\ LET parent == stack[Len(stack) - 1] IN
     IF GatesForeign(parent, parent.page, parent.size)
     THEN ReturnToTarget(TRUE)
     ELSE \E ok \in BOOLEAN, p \in Pages :
            BackReaches(ok, ParentTitle, p) /\ screen' = p /\ Recapture(Pop(stack), p, TRUE)
  /\ pc' = "loop"
  /\ UNCHANGED <<spent, retries, ledger, outside>>

ExpandPage ==
  /\ pc = "expand" /\ ~Known(screen) /\ screen \notin Gated
  /\ \E n \in Offers[screen] :
       /\ ~GatesForeign(Top, screen, n)
       /\ stack' = WithTop([Top EXCEPT !.page = screen, !.size = n,
                     !.segs = IF screen \in Scrolls THEN <<n>> ELSE @,
                     !.lookalike = @ \/ ~(screen = Top.page \/ SameTitle(screen, Top.page))])
  /\ Register(screen, Top.path) /\ failures' = 0
  /\ pc' = "visit"
  /\ UNCHANGED <<device, spent, retries, ledger, outside>>

----------------------------------------------------------------------------
\* Visiting: the next element, or what is done when the segment has none left.

ToLoop(f) ==
  /\ stack' = WithTop(f) /\ pc' = "loop"
  /\ UNCHANGED <<device, registry, failures, spent, retries, ledger, outside>>

NextSegment ==
  /\ pc = "visit" /\ Exhausted(Top) /\ Top.segs # <<>> /\ Len(Top.segs) < MaxSegments
  /\ \E n \in More : ToLoop([Top EXCEPT !.segs = Append(@, n), !.cursor = 0])

HorizontalProbe ==
  /\ pc = "visit" /\ Exhausted(Top) /\ Top.segs # <<>> /\ ~Top.probed
  /\ ToLoop([Top EXCEPT !.segs = <<0>>, !.cursor = 0, !.probed = TRUE])

PopFrame ==
  /\ pc = "visit" /\ Exhausted(Top)
  /\ IF Top.ext THEN ReturnToTarget(FALSE) ELSE Leave(Top, TRUE)
  /\ pc' = "loop"
  /\ UNCHANGED <<registry, failures, spent, retries, ledger, outside>>

Skipped(f, i) ==
  LET label == <<Segment(f), i>>
  IN  label \in f.noOp \/ (label \in Budgeted /\ <<f.page, label>> \in spent)

Usable(f) == {i \in f.cursor + 1 .. SegmentSize(f) : ~Skipped(f, i)}

\* All that is left is skipped, or a later segment cannot be scrolled back to.
SkipSegment ==
  /\ pc = "visit" /\ ~Exhausted(Top) /\ (Usable(Top) = {} \/ Segment(Top) > 1)
  /\ ToLoop([Top EXCEPT !.cursor = SegmentSize(Top)])

StartTap ==
  /\ pc = "visit" /\ Usable(Top) # {}
  /\ stack' = WithTop([Top EXCEPT !.cursor =
                 CHOOSE i \in Usable(Top) : \A j \in Usable(Top) : i <= j])
  /\ sent' = sent + 1 /\ retries' = 0 /\ pc' = "tap"
  /\ UNCHANGED <<device, registry, failures, spent, committed, rejected, outside>>

----------------------------------------------------------------------------
\* Tapping: a tap may move the device and still fail, when the page does not settle.

TapSucceeds ==
  /\ pc \in {"tap", "retry"} /\ ~late
  /\ \E p \in Leads[screen] \cup {screen} : screen' = p
  /\ spent' = IF Label(Top) \in Budgeted THEN spent \cup {<<Top.page, Label(Top)>>} ELSE spent
  /\ pc' = "land"
  /\ UNCHANGED <<currentApp, stack, registry, failures, retries, ledger, outside>>

MayRetry == opts.strategy = "handoff" \/ (opts.strategy = "retry-3" /\ retries < 3)

\* Slip: a tap given up because time is up is not counted.
TapFailsUncounted ==
  /\ pc \in {"tap", "retry"}
  /\ \E p \in Leads[screen] \cup {screen} : screen' = p
  /\ IF MayRetry /\ ~late
     THEN pc' = "retry" /\ UNCHANGED <<retries, rejected>>
     ELSE pc' = "loop" /\ retries' = 0 /\ rejected' = rejected + (IF late THEN 0 ELSE 1)
  /\ UNCHANGED <<currentApp, stack, registry, failures, spent, sent, committed, outside>>

\* Slip: the deadline does not end the retries.
TapFailsForever ==
  /\ pc \in {"tap", "retry"}
  /\ UNCHANGED screen
  /\ IF MayRetry
     THEN pc' = "retry" /\ UNCHANGED <<retries, rejected>>
     ELSE pc' = "loop" /\ retries' = 0 /\ rejected' = rejected + 1
  /\ UNCHANGED <<currentApp, stack, registry, failures, spent, sent, committed, outside>>

TapFails ==
  /\ pc \in {"tap", "retry"}
  /\ \E p \in Leads[screen] \cup {screen} : screen' = p
  /\ IF MayRetry /\ ~late
     THEN /\ pc' = "retry"
          /\ retries' = IF opts.strategy = "handoff" THEN retries ELSE retries + 1
          /\ UNCHANGED rejected
     ELSE pc' = "loop" /\ retries' = 0 /\ rejected' = rejected + 1
  /\ UNCHANGED <<currentApp, stack, registry, failures, spent, sent, committed, outside>>

----------------------------------------------------------------------------
\* Landing: what the page a successful tap led to is taken for.

NewPath == Append(Top.path, Label(Top))
Commit == committed' = committed + 1 /\ UNCHANGED <<sent, rejected>>

LandExternalLink ==
  /\ pc = "land" /\ Label(Top) \in Links
  /\ Register(screen, NewPath) /\ Commit
  /\ IF AppOf[screen] = currentApp THEN UNCHANGED <<device, stack>>
     ELSE \E p \in Pages : /\ screen' = p /\ currentApp' = Target
                           /\ stack' = Reconcile(stack, p, TRUE)
  /\ pc' = "loop"
  /\ UNCHANGED <<failures, spent, retries, outside>>

\* A gated page is left by Cancel, if that uncovers a page of the stack, or by
\* navigateBack; a stateful form by navigateBack alone.
LandUnexpanded ==
  /\ pc = "land" /\ Label(Top) \notin Links /\ screen \in Gated \cup Stateful
  /\ Register(screen, NewPath) /\ Commit
  /\ \/ \E p \in Pages : /\ screen \in Gated /\ Resumes(stack, p, FALSE)
                         /\ screen' = p /\ Recapture(stack, p, FALSE)
     \/ \E p \in Pages : screen' = p /\ UNCHANGED <<stack, currentApp>>
  /\ pc' = "loop"
  /\ UNCHANGED <<failures, spent, retries, outside>>

InApp == pc = "land" /\ Label(Top) \notin Links /\ screen \notin Gated \cup Stateful

\* validateNavigation: the same screen, a dialog, or an element that bears the
\* title both pages have.
LandNowhere ==
  /\ InApp
  /\ LET same == screen = Top.page \/ SameTitle(screen, Top.page) IN
     /\ same \/ screen \in Dialogs
     /\ LET f == IF same THEN [Top EXCEPT !.noOp = @ \cup {Label(Top)}] ELSE Top
            keepsScroll == f.segs # <<>> /\ Exhausted(f)
        IN stack' = WithTop(IF failures + 1 >= Threshold /\ ~keepsScroll
                            THEN [f EXCEPT !.cursor = f.size] ELSE f)
  /\ failures' = failures + 1
  /\ rejected' = rejected + 1 /\ UNCHANGED <<sent, committed>>
  /\ pc' = "loop"
  /\ UNCHANGED <<device, registry, spent, retries, outside>>

Navigated == InApp /\ screen # Top.page /\ screen \notin Dialogs

Arrive ==
  /\ currentApp' = AppOf[screen] /\ UNCHANGED screen
  /\ failures' = 0 /\ Commit /\ pc' = "loop"
  /\ UNCHANGED <<registry, spent, retries, outside>>

LandDrifted ==
  /\ Navigated /\ FindAncestor(stack, screen) = Len(stack)
  /\ stack' = WithTop([Top EXCEPT !.page = screen])
  /\ Arrive

LandOnAncestor ==
  /\ Navigated
  /\ LET a == FindAncestor(stack, screen) IN
     /\ a \in 1 .. Len(stack) - 1
     /\ stack' = UnwindTo(stack, a, Resumed(stack[a], screen))
  /\ Arrive

LandOnChild ==
  /\ Navigated /\ FindAncestor(stack, screen) = 0
  /\ stack' = Append(stack, ChildFrame(Top, screen,
                 AppOf[screen] # currentApp \/ AppOf[screen] # Target))
  /\ Arrive

----------------------------------------------------------------------------
\* The deadline passes; a call to the device throws out of explore.
TimeIsUp ==
  /\ ~late /\ late' = TRUE
  /\ UNCHANGED <<opts, pc, device, stack, registry, failures, spent, retries, ledger>>

Throws ==
  /\ pc \notin {"relaunch", "tap", "ended", "thrown"}
  /\ pc = "retry" => opts.strategy = "handoff"
  /\ pc' = "thrown"
  /\ UNCHANGED <<device, stack, registry, failures, spent, retries, ledger, outside>>

Explore ==
  \/ Launch \/ Finish \/ FrameAligned \/ FrameResumed \/ FrameRecovered \/ FrameLost
  \/ Relaunch \/ ExpandKnown \/ ExpandGated \/ ExpandForeign \/ ExpandPage
  \/ NextSegment \/ HorizontalProbe \/ PopFrame \/ SkipSegment \/ StartTap
  \/ TapSucceeds \/ TapFails \/ LandExternalLink \/ LandUnexpanded \/ LandNowhere
  \/ LandDrifted \/ LandOnAncestor \/ LandOnChild

Next == Explore \/ Throws \/ TimeIsUp

Spec == Init /\ [][Next]_vars

\* Every call to the device returns (adb and simctl calls have time limits of their
\* own), so the loop goes on; the clock does too.
FairSpec == Spec /\ WF_vars(Explore) /\ WF_vars(TimeIsUp)

----------------------------------------------------------------------------
Frames ==
  [page : Pages, app : Apps, depth : Nat, path : Seq(Labels),
   cursor : Nat, size : Nat, segs : Seq(Nat), probed : BOOLEAN,
   noOp : SUBSET Labels, ext : BOOLEAN, lookalike : BOOLEAN]

IsPath(s) ==
  \A i \in 1 .. Len(s) :
    /\ s[i].depth = i - 1 /\ Len(s[i].path) = i - 1
    /\ i > 1 => s[i].path = Append(s[i - 1].path, s[i].path[i - 1])

IsAcyclic(s) ==
  \A i, j \in 1 .. Len(s) :
    i < j /\ s[i].app = s[j].app /\ ~s[j].lookalike =>
      s[i].page # s[j].page /\ ~SameTitle(s[i].page, s[j].page)

\* The variables have their types; outside launch and the two ends there is a
\* frame to work on wherever the loop's body runs.
TypeOK ==
  /\ pc \in {"launch", "loop", "relaunch", "expand", "visit", "tap", "retry", "land",
             "ended", "thrown"}
  /\ screen \in Pages /\ currentApp \in Apps
  /\ stack \in Seq(Frames)
  /\ pc \in {"relaunch", "expand", "visit", "tap", "retry", "land"} => stack # <<>>
  /\ visited \subseteq Pages \X Seq(Labels) /\ count \in Nat /\ failures \in Nat
  /\ spent \subseteq Pages \X Labels /\ retries \in Nat
  /\ late \in BOOLEAN /\ opts \in Options
  /\ sent \in Nat /\ committed \in Nat /\ rejected \in Nat

\* The stack is one way down the app: whatever frames were dropped and whatever
\* was found on the screen, each frame is one deeper than the frame below it and
\* its path is that frame's path and one tap more (the paths and depths the
\* reports print, page-registry.ts 157-162).
StackIsPath == IsPath(stack)

\* The descent runs in a circle only through a look-alike: no frame is of a page, or
\* of the title of a page, that a frame of its app below it is of, however the screens
\* drift, unless its own page was expanded when another page of the same structure
\* was shown (isOnExpectedPage takes that for the frame's own, backtrack.ts 896-902).
NoCycle == IsAcyclic(stack)

\* An element is first tapped on a page that passes for the page it was found on,
\* whatever a failed way back or a failed tap left on the screen before ("does not
\* tap stale siblings when frame recovery fails", engine.test.ts 299).
FirstTapOnPage == pc = "tap" => Resembles(screen, Top)

\* Every action sent is committed or rejected once, except the one in flight.
TransitionsAccounted ==
  pc # "thrown" =>
    sent = committed + rejected + (IF pc \in {"tap", "retry", "land"} THEN 1 ELSE 0)

\* The page budget is overrun by one entry at most: the iteration that uses it up
\* by expanding a page may still record where its first tap leads.
PagesWithinLimit == count <= MaxPages + 1

\* Every run comes to an end, by whatever of its limits, once its time is up.
Terminates == <>(pc \in {"ended", "thrown"})
=============================================================================
