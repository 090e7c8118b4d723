--------------------------- MODULE ExplorerProofs ---------------------------
(***************************************************************************)
(* Proofs about Explorer, for any app and any limits.                      *)
(*                                                                         *)
(* DescentInv joins the types, a good stack (one path, no circle) and      *)
(* Aligned, that the screen passes for the top frame from the frame guard  *)
(* to the first tap, which the theorem on stale taps needs.                *)
(* First come the operators on the stack (what Reconcile, UnwindTo and     *)
(* ChildFrame preserve), then the ways back, then one lemma per kind of    *)
(* step.  The two accounts at the end have invariants of their own.        *)
(***************************************************************************)
EXTENDS Explorer, FiniteSetTheorems, WellFoundedInduction, SequenceTheorems, TLAPS

\* A set of positions has a topmost one: the segments above its members are finite sets.
LEMMA TopmostIsMax ==
  ASSUME NEW n \in Nat, NEW S \in SUBSET (1 .. n), S # {}
  PROVE  Topmost(S) \in S /\ \A j \in S : j <= Topmost(S)
<1> DEFINE Above(i) == {k \in 1 .. n : k > i}
           Family == {Above(i) : i \in S}
<1>1. IsFiniteSet(1 .. n)
  BY FS_Interval
<1>2. IsWellFoundedOn(StrictSubsetOrdering(1 .. n), SUBSET (1 .. n))
  BY <1>1, FS_StrictSubsetOrderingWellFounded, FS_FiniteSubsetsOfFinite, Zenon
<1>3. Family \subseteq SUBSET (1 .. n) /\ Family # {}
  OBVIOUS
<1>4. PICK A \in Family : \A B \in Family : <<B, A>> \notin StrictSubsetOrdering(1 .. n)
  <2> HIDE DEF Family
  <2> QED BY <1>2, <1>3, WFMin, Zenon
<1>5. PICK i \in S : A = Above(i)
  BY <1>4
<1>6. ASSUME NEW j \in S, j > i PROVE FALSE
  <2>1. Above(j) \in Family /\ Above(j) \subseteq Above(i)
    BY <1>6
  <2>2. j \in Above(i) /\ j \notin Above(j)
    BY <1>6
  <2>3. Above(j) # Above(i)
    BY <2>2
  <2> QED
    BY <1>4, <1>5, <2>1, <2>3 DEF StrictSubsetOrdering
<1>7. \A j \in S : j <= i
  BY <1>6
<1> QED
  BY <1>5, <1>7 DEF Topmost

----------------------------------------------------------------------------
(* What the operators on the stack preserve.                               *)

Good(s) ==
  s \in Seq(Frames) /\ IsPath(s) /\ IsAcyclic(s)

\* No frame of s at or below n is of page p in app a or shares p's title there.
Fresh(s, n, p, a) ==
  \A j \in 1 .. n : s[j].app = a => s[j].page # p /\ ~SameTitle(s[j].page, p)

\* A frame that may stand on the first n of s: a look-alike, or one new to them.
Fits(s, n, f) == f.lookalike \/ Fresh(s, n, f.page, f.app)

\* findAncestorFrameIndex: what it finds is of the page's app, and is a look-alike or has
\* nothing of that page or title below it; where it finds nothing, the stack is free of both.
LEMMA AncestorFound ==
  ASSUME NEW s \in Seq(Frames), NEW p \in Pages
  PROVE  /\ FindAncestor(s, p) \in 0 .. Len(s)
         /\ FindAncestor(s, p) > 0 =>
              /\ s[FindAncestor(s, p)].app = AppOf[p]
              /\ IsAcyclic(s) => \/ s[FindAncestor(s, p)].lookalike
                                  \/ Fresh(s, FindAncestor(s, p) - 1, p, AppOf[p])
         /\ FindAncestor(s, p) = 0 => Fresh(s, Len(s), p, AppOf[p])
<1> DEFINE same == {i \in 1 .. Len(s) : s[i].page = p /\ s[i].app = AppOf[p]}
           titled == {i \in 1 .. Len(s) : SameTitle(s[i].page, p) /\ s[i].app = AppOf[p]}
           a == FindAncestor(s, p)
<1>1. Len(s) \in Nat
  OBVIOUS
<1>2. CASE same # {}
  <2>1. a = Topmost(same) /\ a \in same
    <3>1. Topmost(same) \in same
      BY <1>1, <1>2, TopmostIsMax
    <3> QED
      BY <1>2, <3>1 DEF FindAncestor
  <2>2. a \in 1 .. Len(s) /\ s[a].page = p /\ s[a].app = AppOf[p]
    BY <2>1
  <2> QED
    BY <1>1, <2>2 DEF IsAcyclic, Fresh
<1>3. CASE same = {} /\ titled # {}
  <2>1. a = Topmost(titled) /\ a \in titled
    <3>1. Topmost(titled) \in titled
      BY <1>1, <1>3, TopmostIsMax
    <3> QED
      BY <1>3, <3>1 DEF FindAncestor
  <2>2. a \in 1 .. Len(s) /\ SameTitle(s[a].page, p) /\ s[a].app = AppOf[p]
    BY <2>1
  <2>3. \A j \in 1 .. Len(s) : s[j].app = AppOf[p] => s[j].page # p
    BY <1>3
  <2> QED
    BY <1>1, <2>2, <2>3 DEF IsAcyclic, Fresh, SameTitle
<1>4. CASE same = {} /\ titled = {}
  BY <1>1, <1>4 DEF FindAncestor, Fresh
<1> QED
  BY <1>2, <1>3, <1>4

\* Dropping frames from the top keeps the others.
LEMMA FrontOf ==
  ASSUME NEW s \in Seq(Frames), NEW n \in Nat, n <= Len(s)
  PROVE  /\ SubSeq(s, 1, n) \in Seq(Frames) /\ Len(SubSeq(s, 1, n)) = n
         /\ \A i \in 1 .. n : SubSeq(s, 1, n)[i] = s[i]
<1>1. \A i \in 1 .. n : s[i] \in Frames
  OBVIOUS
<1>2. /\ SubSeq(s, 1, n) \in Seq(Frames)
      /\ Len(SubSeq(s, 1, n)) = IF 1 <= n THEN n - 1 + 1 ELSE 0
      /\ \A i \in 1 .. n - 1 + 1 : SubSeq(s, 1, n)[i] = s[1 + i - 1]
  BY <1>1, SubSeqProperties
<1> QED
  BY <1>2

\* Being one path depends on depths and paths only.
LEMMA KeepsPath ==
  ASSUME NEW s \in Seq(Frames), NEW t \in Seq(Frames), IsPath(s), Len(t) <= Len(s),
         \A i \in 1 .. Len(t) : t[i].depth = s[i].depth /\ t[i].path = s[i].path
  PROVE  IsPath(t)
<1> SUFFICES ASSUME NEW i \in 1 .. Len(t)
             PROVE  /\ t[i].depth = i - 1 /\ Len(t[i].path) = i - 1
                    /\ i > 1 => t[i].path = Append(t[i - 1].path, t[i].path[i - 1])
  BY DEF IsPath
<1>1. i \in 1 .. Len(s) /\ (i > 1 => i - 1 \in 1 .. Len(t))
  OBVIOUS
<1>2. /\ s[i].depth = i - 1 /\ Len(s[i].path) = i - 1
      /\ i > 1 => s[i].path = Append(s[i - 1].path, s[i].path[i - 1])
  BY <1>1 DEF IsPath
<1> QED
  BY <1>1, <1>2

\* stack.pop() keeps the stack good.
LEMMA PopGood ==
  ASSUME NEW s, Good(s), s # <<>>
  PROVE  Good(Pop(s)) /\ Len(Pop(s)) = Len(s) - 1
<1>1. s \in Seq(Frames) /\ Len(s) \in Nat \ {0}
  BY DEF Good
<1>2. /\ Pop(s) \in Seq(Frames) /\ Len(Pop(s)) = Len(s) - 1
      /\ \A i \in 1 .. Len(s) - 1 : Pop(s)[i] = s[i]
  <2>1. Len(s) - 1 \in Nat /\ Len(s) - 1 <= Len(s)
    BY <1>1
  <2> QED
    BY <1>1, <2>1, FrontOf DEF Pop
<1>3. IsPath(Pop(s))
  <2>1. /\ Len(Pop(s)) <= Len(s)
        /\ \A i \in 1 .. Len(Pop(s)) :
             Pop(s)[i].depth = s[i].depth /\ Pop(s)[i].path = s[i].path
    BY <1>1, <1>2
  <2> QED
    BY <1>1, <1>2, <2>1, KeepsPath DEF Good
<1>4. IsAcyclic(Pop(s))
  BY <1>1, <1>2 DEF Good, IsAcyclic
<1> QED
  BY <1>2, <1>3, <1>4 DEF Good

\* So does unwinding to a frame that takes a page new to those below it.
LEMMA UnwindGood ==
  ASSUME NEW s, Good(s), NEW i \in 1 .. Len(s), NEW f \in Frames,
         f.depth = s[i].depth, f.path = s[i].path,
         Fits(s, i - 1, f)
  PROVE  /\ Good(UnwindTo(s, i, f)) /\ Len(UnwindTo(s, i, f)) = i
         /\ UnwindTo(s, i, f)[i] = f
<1> DEFINE t == UnwindTo(s, i, f)
<1>1. s \in Seq(Frames) /\ Len(s) \in Nat /\ i \in Nat
  BY DEF Good
<1>2. /\ SubSeq(s, 1, i - 1) \in Seq(Frames) /\ Len(SubSeq(s, 1, i - 1)) = i - 1
      /\ \A j \in 1 .. i - 1 : SubSeq(s, 1, i - 1)[j] = s[j]
  BY <1>1, FrontOf
<1>3. /\ t \in Seq(Frames) /\ Len(t) = i /\ t[i] = f
      /\ \A j \in 1 .. i - 1 : t[j] = s[j]
  BY <1>1, <1>2, AppendProperties, Z3 DEF UnwindTo
<1> HIDE DEF t
<1>4. IsPath(t)
  <2>1. \A j \in 1 .. Len(t) : t[j].depth = s[j].depth /\ t[j].path = s[j].path
    BY <1>1, <1>3
  <2> QED
    BY <1>1, <1>3, <2>1, KeepsPath DEF Good
<1>5. IsAcyclic(t)
  BY <1>1, <1>3 DEF Good, IsAcyclic, Fresh, Fits
<1> QED
  BY <1>3, <1>4, <1>5 DEF Good, t

\* So does changing the top frame, to a page new to those below it.
LEMMA WithTopGood ==
  ASSUME Good(stack), stack # <<>>, NEW f \in Frames,
         f.depth = Top.depth, f.path = Top.path,
         Fits(stack, Len(stack) - 1, f)
  PROVE  /\ Good(WithTop(f)) /\ Len(WithTop(f)) = Len(stack)
         /\ WithTop(f)[Len(stack)] = f
<1>1. stack \in Seq(Frames) /\ Len(stack) \in 1 .. Len(stack) /\ Len(stack) \in Nat \ {0}
  BY DEF Good
<1>2. /\ WithTop(f) \in Seq(Frames) /\ Len(WithTop(f)) = Len(stack)
      /\ WithTop(f)[Len(stack)] = f
      /\ \A j \in 1 .. Len(stack) - 1 : WithTop(f)[j] = stack[j]
  BY <1>1 DEF WithTop
<1>3. IsPath(WithTop(f))
  <2>1. \A j \in 1 .. Len(WithTop(f)) :
          WithTop(f)[j].depth = stack[j].depth /\ WithTop(f)[j].path = stack[j].path
    BY <1>1, <1>2 DEF Top
  <2> QED
    BY <1>1, <1>2, <2>1, KeepsPath DEF Good
<1>4. IsAcyclic(WithTop(f))
  BY <1>1, <1>2 DEF Good, IsAcyclic, Fresh, Fits
<1> QED
  BY <1>2, <1>3, <1>4 DEF Good

\* The top frame fits on those below it.
LEMMA SameTopFresh ==
  ASSUME Good(stack), stack # <<>>
  PROVE  /\ Top \in Frames
         /\ Fits(stack, Len(stack) - 1, Top)
<1>1. stack \in Seq(Frames) /\ Len(stack) \in Nat \ {0}
  BY DEF Good
<1> QED
  BY <1>1 DEF Good, IsAcyclic, Fresh, Fits, Top

\* So does pushing the page that was found nowhere on the stack.
LEMMA ChildGood ==
  ASSUME Good(stack), stack # <<>>, NEW p \in Pages, NEW b \in BOOLEAN,
         FindAncestor(stack, p) = 0
  PROVE  Good(Append(stack, ChildFrame(Top, p, b)))
<1> DEFINE f == ChildFrame(Top, p, b)
           n == Len(stack)
           t == Append(stack, f)
<1>1. stack \in Seq(Frames) /\ n \in Nat \ {0}
  BY DEF Good
<1>2. /\ Top \in Frames /\ Top.depth = n - 1 /\ Len(Top.path) = n - 1
      /\ Top.path \in Seq(Labels) /\ Label(Top) \in Labels
  <2>1. Top \in Frames /\ Top.depth = n - 1 /\ Len(Top.path) = n - 1
    BY <1>1 DEF Top, Good, IsPath
  <2>2. Top.path \in Seq(Labels) /\ Top.cursor \in Nat /\ Top.segs \in Seq(Nat)
    BY <2>1 DEF Frames
  <2> QED
    BY <2>1, <2>2 DEF Label, Segment, Labels
<1>3. /\ f.path \in Seq(Labels) /\ Len(f.path) = n
      /\ f.path = Append(Top.path, f.path[n])
      /\ f.depth = n /\ f.page = p /\ f.app = AppOf[p]
  <2>1. /\ Append(Top.path, Label(Top)) \in Seq(Labels)
        /\ Len(Append(Top.path, Label(Top))) = n
        /\ Append(Top.path, Label(Top))[n] = Label(Top)
    BY <1>1, <1>2, AppendProperties
  <2>2. /\ f.path = Append(Top.path, Label(Top))
        /\ f.depth = Top.depth + 1 /\ f.page = p /\ f.app = AppOf[p]
    BY DEF ChildFrame
  <2> QED
    BY <1>1, <1>2, <2>1, <2>2
<1>4. f \in Frames
  <2>1. <<>> \in Seq(Nat) /\ AppOf[p] \in Apps
    BY DEF Apps
  <2>2. Append(Top.path, Label(Top)) \in Seq(Labels) /\ Top.depth + 1 \in Nat
    BY <1>1, <1>2, AppendProperties
  <2> QED
    BY <2>1, <2>2 DEF ChildFrame, Frames
<1> HIDE DEF f
<1>5. /\ t \in Seq(Frames) /\ Len(t) = n + 1 /\ t[n + 1] = f
      /\ \A i \in 1 .. n : t[i] = stack[i]
  BY <1>1, <1>4, AppendProperties
<1> HIDE DEF t
<1>6. IsPath(t)
  <2> SUFFICES ASSUME NEW i \in 1 .. Len(t)
               PROVE  /\ t[i].depth = i - 1 /\ Len(t[i].path) = i - 1
                      /\ i > 1 => t[i].path = Append(t[i - 1].path, t[i].path[i - 1])
    BY DEF IsPath
  <2>1. CASE i = n + 1
    BY <1>1, <1>3, <1>5, <2>1 DEF Top
  <2>2. CASE i \in 1 .. n
    <3>1. /\ stack[i].depth = i - 1 /\ Len(stack[i].path) = i - 1
          /\ i > 1 => stack[i].path = Append(stack[i - 1].path, stack[i].path[i - 1])
      BY <2>2 DEF Good, IsPath
    <3>2. t[i] = stack[i] /\ (i > 1 => t[i - 1] = stack[i - 1])
      BY <1>1, <1>5, <2>2
    <3> QED
      BY <3>1, <3>2
  <2> QED
    BY <1>1, <1>5, <2>1, <2>2
<1>7. IsAcyclic(t)
  <2>1. Fresh(stack, n, p, AppOf[p])
    BY <1>1, AncestorFound
  <2> SUFFICES ASSUME NEW i \in 1 .. n + 1, NEW j \in 1 .. n + 1, i < j,
                      t[i].app = t[j].app, ~t[j].lookalike
               PROVE  t[i].page # t[j].page /\ ~SameTitle(t[i].page, t[j].page)
    BY <1>1, <1>5 DEF IsAcyclic
  <2>2. i \in 1 .. n /\ t[i] = stack[i]
    BY <1>1, <1>5
  <2>3. CASE j = n + 1
    BY <1>3, <1>5, <2>1, <2>2, <2>3 DEF Fresh
  <2>4. CASE j \in 1 .. n
    BY <1>5, <2>2, <2>4 DEF Good, IsAcyclic
  <2> QED
    BY <1>1, <2>3, <2>4
<1> QED
  BY <1>5, <1>6, <1>7 DEF Good, t, f

\* A resumed frame keeps its place and takes the page of the screen.
LEMMA ResumedFrame ==
  ASSUME NEW f \in Frames, NEW p \in Pages
  PROVE  /\ Resumed(f, p) \in Frames
         /\ Resumed(f, p).depth = f.depth /\ Resumed(f, p).path = f.path
         /\ Resumed(f, p).page = p /\ Resumed(f, p).app = AppOf[p]
         /\ Resumed(f, p).lookalike = f.lookalike
BY DEF Resumed, Frames, Apps

\* reconcileStackToSnapshot keeps a stack good, and never empties it.
LEMMA ReconcileGood ==
  ASSUME NEW s, Good(s), NEW p \in Pages, NEW reset \in BOOLEAN
  PROVE  /\ Good(Reconcile(s, p, reset))
         /\ s # <<>> => Reconcile(s, p, reset) # <<>>
         /\ Len(Reconcile(s, p, reset)) <= Len(s)
<1> DEFINE a == FindAncestor(s, p)
<1>1. s \in Seq(Frames) /\ Len(s) \in Nat
  BY DEF Good
<1>2. CASE ~Resumes(s, p, reset)
  BY <1>1, <1>2 DEF Reconcile
<1>3. CASE Resumes(s, p, reset) /\ a > 0
  <2> DEFINE f == [Resumed(s[a], p) EXCEPT !.segs = IF TitleOf[p] = None THEN <<>> ELSE @]
  <2>1. /\ a \in 1 .. Len(s) /\ s[a] \in Frames
        /\ s[a].lookalike \/ Fresh(s, a - 1, p, AppOf[p])
    BY <1>1, <1>3, AncestorFound DEF Good
  <2>2. /\ f \in Frames /\ f.depth = s[a].depth /\ f.path = s[a].path
        /\ Fits(s, a - 1, f)
    <3>1. /\ Resumed(s[a], p) \in Frames
          /\ Resumed(s[a], p).depth = s[a].depth /\ Resumed(s[a], p).path = s[a].path
          /\ Resumed(s[a], p).page = p /\ Resumed(s[a], p).app = AppOf[p]
          /\ Resumed(s[a], p).lookalike = s[a].lookalike
      BY <2>1, ResumedFrame
    <3>2. <<>> \in Seq(Nat) /\ Resumed(s[a], p).segs \in Seq(Nat)
      BY <3>1 DEF Frames
    <3>3. /\ f \in Frames /\ f.depth = s[a].depth /\ f.path = s[a].path
          /\ f.page = p /\ f.app = AppOf[p] /\ f.lookalike = s[a].lookalike
      BY <3>1, <3>2 DEF Frames
    <3> QED
      BY <2>1, <3>3 DEF Fits
  <2>3. Reconcile(s, p, reset) = UnwindTo(s, a, f)
    BY <1>3 DEF Reconcile
  <2> HIDE DEF f, a
  <2>4. Good(UnwindTo(s, a, f)) /\ Len(UnwindTo(s, a, f)) = a
    BY <2>1, <2>2, UnwindGood
  <2> QED
    BY <1>1, <2>1, <2>3, <2>4
<1>4. CASE Resumes(s, p, reset) /\ ~(a > 0)
  <2> DEFINE f == [Resumed(s[1], p) EXCEPT !.depth = 0, !.path = <<>>,
                                           !.cursor = 0, !.size = 0, !.segs = <<>>]
  <2>1. s # <<>> /\ Len(s) >= 1 /\ s[1] \in Frames
    BY <1>1, <1>4 DEF Resumes
  <2>2. f \in Frames /\ f.depth = 0 /\ f.path = <<>>
    <3>1. Resumed(s[1], p) \in Frames
      BY <2>1, ResumedFrame
    <3>2. <<>> \in Seq(Nat) /\ <<>> \in Seq(Labels)
      OBVIOUS
    <3> QED
      BY <3>1, <3>2 DEF Frames
  <2>3. Reconcile(s, p, reset) = <<f>>
    BY <1>4 DEF Reconcile
  <2> HIDE DEF f
  <2>4. Good(<<f>>)
    BY <2>2 DEF Good, IsPath, IsAcyclic
  <2> QED
    BY <1>1, <2>1, <2>3, <2>4
<1> QED
  BY <1>2, <1>3, <1>4

----------------------------------------------------------------------------
(* What the ways back leave behind.                                        *)

BackSafe == Good(stack) /\ screen \in Pages /\ currentApp \in Apps

\* The apps the engine can take for the current one.
LEMMA AppsClosed == Target \in Apps /\ \A p \in Pages : AppOf[p] \in Apps
BY DEF Apps

\* captureAndReconcileVisiblePage keeps the stack good.
LEMMA RecaptureSafe ==
  ASSUME BackSafe, NEW s, Good(s), NEW p \in Pages, NEW reset \in BOOLEAN,
         Recapture(s, p, reset)
  PROVE  Good(stack') /\ currentApp' \in Apps
BY ReconcileGood, AppsClosed DEF Recapture, BackSafe

\* Popping the top frame and going back, reconciled or not, does too.
LEMMA LeaveSafe ==
  ASSUME BackSafe, stack # <<>>, NEW m \in BOOLEAN, Leave(Top, m)
  PROVE  BackSafe'
<1>1. Good(Pop(stack))
  BY PopGood DEF BackSafe
<1>2. CASE Top.depth = 0
  BY <1>1, <1>2 DEF Leave, BackSafe, device
<1>3. CASE Top.depth # 0
  <2>1. PICK ok \in BOOLEAN, p \in Pages :
          LET found == m /\ ok /\ opts.android /\ Resumes(Pop(stack), p, TRUE)
          IN  /\ screen' = p
              /\ stack' = IF found THEN Reconcile(Pop(stack), p, TRUE) ELSE Pop(stack)
              /\ currentApp' = CASE Top.ext -> Target
                                 [] found /\ ~Top.ext -> AppOf[p]
                                 [] OTHER -> currentApp
    BY <1>3, Zenon DEF Leave
  <2>2. Good(Reconcile(Pop(stack), p, TRUE))
    BY <1>1, ReconcileGood
  <2> QED
    BY <1>1, <2>1, <2>2, AppsClosed DEF BackSafe
<1> QED
  BY <1>2, <1>3

\* So does the return from a foreign app, by whichever of its three ways.
LEMMA ReturnSafe ==
  ASSUME BackSafe, stack # <<>>, NEW strict \in BOOLEAN, ReturnToTarget(strict)
  PROVE  BackSafe'
<1> DEFINE s == Pop(stack)
           after(b) == IF opts.android THEN Reconcile(s, b, TRUE) ELSE s
<1>1. Good(s)
  BY PopGood DEF BackSafe
<1>2. PICK b \in Pages, p \in Pages :
        \/ screen' = b /\ stack' = after(b) /\ currentApp' = AppOf[b]
        \/ /\ screen' = p
           /\ stack' = Reconcile(after(b), p, TRUE)
           /\ currentApp' = IF Resumes(after(b), p, TRUE) THEN AppOf[p] ELSE Target
        \/ screen' = p /\ stack' = after(b) /\ currentApp' = currentApp
  <2>1. (IF opts.android THEN Pages ELSE {screen}) \subseteq Pages
    BY DEF BackSafe
  <2> QED
    BY <2>1 DEF ReturnToTarget
<1>3. Good(after(b))
  BY <1>1, ReconcileGood
<1>4. Good(Reconcile(after(b), p, TRUE))
  BY <1>3, ReconcileGood
<1> QED
  BY <1>2, <1>3, <1>4, AppsClosed DEF BackSafe

----------------------------------------------------------------------------
(* The invariant of the descent.                                           *)

\* From the frame guard to the first tap the screen passes for the top frame's page.
Aligned == pc \in {"expand", "visit", "tap"} => Resembles(screen, Top)

DescentInv == TypeOK /\ Good(stack) /\ Aligned

\* The type of the top frame, and its place on the path.
LEMMA TopFrame ==
  ASSUME Good(stack), stack # <<>>
  PROVE  /\ Top \in Frames /\ Top.page \in Pages /\ Top.app \in Apps
         /\ Top.depth \in Nat /\ Top.path \in Seq(Labels)
         /\ Top.cursor \in Nat /\ Top.size \in Nat /\ Top.segs \in Seq(Nat)
         /\ Top.noOp \subseteq Labels /\ Label(Top) \in Labels
         /\ SegmentSize(Top) \in Nat /\ Len(stack) \in Nat \ {0}
<1>1. Top \in Frames /\ Len(stack) \in Nat \ {0}
  BY DEF Good, Top
<1>2. /\ Top.page \in Pages /\ Top.app \in Apps /\ Top.depth \in Nat
      /\ Top.path \in Seq(Labels) /\ Top.noOp \subseteq Labels
      /\ Top.cursor \in Nat /\ Top.size \in Nat /\ Top.segs \in Seq(Nat)
  BY <1>1 DEF Frames
<1>3. SegmentSize(Top) \in Nat
  BY <1>2 DEF SegmentSize
<1>4. Label(Top) \in Labels
  BY <1>2 DEF Label, Segment, Labels
<1> QED
  BY <1>1, <1>2, <1>3, <1>4

\* A step that edits the top frame and keeps its page keeps the stack good.
LEMMA EditTop ==
  ASSUME Good(stack), stack # <<>>, NEW f \in Frames,
         f.page = Top.page, f.app = Top.app, f.depth = Top.depth, f.path = Top.path,
         f.lookalike = Top.lookalike
  PROVE  /\ Good(WithTop(f)) /\ WithTop(f) # <<>>
         /\ Len(WithTop(f)) = Len(stack) /\ WithTop(f)[Len(WithTop(f))] = f
<1>1. /\ Good(WithTop(f)) /\ Len(WithTop(f)) = Len(stack)
      /\ WithTop(f)[Len(stack)] = f
  BY SameTopFresh, WithTopGood DEF Fits
<1>2. Len(stack) \in Nat \ {0}
  BY TopFrame
<1> QED
  BY <1>1, <1>2

\* An expansion gives the frame the page of the screen, and marks it a look-alike unless
\* the two are of one page or title.
LEMMA ExpandedFits ==
  ASSUME Good(stack), stack # <<>>, screen \in Pages, NEW f \in Frames,
         f.page = screen, f.app = Top.app,
         f.lookalike = (Top.lookalike \/ ~(screen = Top.page \/ SameTitle(screen, Top.page)))
  PROVE  Fits(stack, Len(stack) - 1, f)
<1> SUFFICES ASSUME ~f.lookalike
             PROVE  Fresh(stack, Len(stack) - 1, screen, Top.app)
  BY DEF Fits
<1>1. ~Top.lookalike /\ (screen = Top.page \/ SameTitle(screen, Top.page))
  OBVIOUS
<1>2. Fresh(stack, Len(stack) - 1, Top.page, Top.app)
  BY <1>1, SameTopFresh DEF Fits
<1> QED
  BY <1>1, <1>2 DEF Fresh, SameTitle

\* The stack of the home page alone is good.
LEMMA RootGood ==
  ASSUME NEW p \in Pages, NEW n \in Nat
  PROVE  Good(<<RootFrame(p, n)>>)
<1>1. /\ <<>> \in Seq(Nat) /\ <<n>> \in Seq(Nat) /\ <<>> \in Seq(Labels)
      /\ Target \in Apps
  BY AppsClosed
<1>2. /\ RootFrame(p, n) \in Frames /\ RootFrame(p, n).depth = 0
      /\ RootFrame(p, n).path = <<>>
  BY <1>1 DEF RootFrame, Frames
<1> HIDE DEF RootFrame
<1> QED
  BY <1>2 DEF Good, IsPath, IsAcyclic

\* The invariant holds before the launch.
LEMMA DescentInit == Init => DescentInv
<1> SUFFICES ASSUME Init PROVE DescentInv
  OBVIOUS
<1>1. TypeOK
  <2>1. <<>> \in Seq(Frames)
    OBVIOUS
  <2> QED
    BY <2>1, AppsClosed DEF Init, TypeOK
<1>2. Good(stack)
  BY DEF Init, Good, IsPath, IsAcyclic
<1> QED
  BY <1>1, <1>2 DEF DescentInv, Init, Aligned

\* What the steps that only choose the next stage leave alone.
LEMMA StageStep ==
  ASSUME DescentInv, UNCHANGED <<device, stack, registry, spent, outside>>,
         pc' \in {"loop", "relaunch", "expand", "visit", "ended", "thrown"},
         pc' \in {"relaunch", "expand", "visit"} => stack # <<>>,
         pc' \in {"expand", "visit"} => Resembles(screen, Top),
         failures' \in Nat, retries' \in Nat,
         sent' \in Nat, committed' \in Nat, rejected' \in Nat
  PROVE  DescentInv'
<1>1. TypeOK'
  BY DEF DescentInv, TypeOK, device, registry, outside
<1>2. Good(stack')
  BY DEF DescentInv
<1>3. Aligned'
  BY DEF DescentInv, Aligned, Top, Resembles, device
<1> QED
  BY <1>1, <1>2, <1>3 DEF DescentInv

\* A step back to the head of the loop needs only what a way back leaves behind.
LEMMA LoopStep ==
  ASSUME DescentInv, BackSafe', pc' \in {"loop", "ended"}, UNCHANGED outside,
         visited' \subseteq Pages \X Seq(Labels), count' \in Nat, failures' \in Nat,
         spent' \subseteq Pages \X Labels, retries' \in Nat,
         sent' \in Nat, committed' \in Nat, rejected' \in Nat
  PROVE  DescentInv'
<1>1. TypeOK'
  BY DEF DescentInv, TypeOK, BackSafe, outside, Good
<1> QED
  BY <1>1 DEF DescentInv, Aligned, BackSafe

\* Registering a page keeps the types of the registry.
LEMMA RegisterTyped ==
  ASSUME TypeOK, NEW p \in Pages, NEW path \in Seq(Labels), Register(p, path)
  PROVE  visited' \subseteq Pages \X Seq(Labels) /\ count' \in Nat
BY DEF TypeOK, Register

\* The launch: the home frame alone is good.
LEMMA LaunchStep == ASSUME DescentInv, Launch PROVE DescentInv'
<1>1. CASE pc' = "ended" /\ UNCHANGED <<device, stack, registry>>
  BY <1>1, StageStep DEF Launch, DescentInv, TypeOK, ledger
<1>2. CASE \E q \in Pages : \E n \in Offers[q] :
             /\ pc' = "loop" /\ screen' = q
             /\ stack' = <<RootFrame(q, n)>>
             /\ Register(q, <<>>) /\ UNCHANGED currentApp
  <2>a. PICK q \in Pages : \E n \in Offers[q] :
             /\ pc' = "loop" /\ screen' = q
             /\ stack' = <<RootFrame(q, n)>>
             /\ Register(q, <<>>) /\ UNCHANGED currentApp
    BY <1>2
  <2>1. PICK n \in Offers[q] :
             /\ pc' = "loop" /\ screen' = q
             /\ stack' = <<RootFrame(q, n)>>
             /\ Register(q, <<>>) /\ UNCHANGED currentApp
    BY <2>a
  <2>2. BackSafe'
    <3>1. n \in Nat
      BY PagesAssumption
    <3>2. Good(<<RootFrame(q, n)>>)
      BY <3>1, RootGood
    <3> QED
      BY <2>1, <3>2 DEF BackSafe, DescentInv, TypeOK
  <2>3. visited' \subseteq Pages \X Seq(Labels) /\ count' \in Nat
    <3>1. <<>> \in Seq(Labels)
      OBVIOUS
    <3> QED
      BY <2>1, <3>1, RegisterTyped DEF DescentInv
  <2> QED
    BY <2>1, <2>2, <2>3, LoopStep DEF Launch, DescentInv, TypeOK, ledger
<1> QED
  BY <1>1, <1>2, PagesAssumption DEF Launch

\* The head of the loop: it only chooses the next stage, and guards it.
LEMMA HeadStep ==
  ASSUME DescentInv, Finish \/ FrameAligned
  PROVE  DescentInv'
<1>1. CASE Finish
  BY <1>1, StageStep DEF Finish, DescentInv, TypeOK, ledger
<1>2. CASE FrameAligned
  <2>1. stack # <<>> /\ Resembles(screen, Top) /\ pc' \in {"expand", "visit"}
    BY <1>2 DEF FrameAligned, AtHead, Over, NextStage
  <2> QED
    BY <1>2, <2>1, StageStep DEF FrameAligned, DescentInv, TypeOK, ledger
<1> QED
  BY <1>1, <1>2

\* The way back of the frame guard, as far as stack and device go.
LEMMA RealignSafe ==
  ASSUME DescentInv, NEW ok \in BOOLEAN, NEW p \in Pages, Realign(ok, p)
  PROVE  BackSafe' /\ stack' # <<>>
<1>1. BackSafe /\ stack # <<>>
  BY DEF Realign, DescentInv, TypeOK, BackSafe, AtHead, Over
<1>2. CASE opts.android /\ (ok \/ Top.ext)
  <2>1. Recapture(stack, p, TRUE) /\ screen' = p
    BY <1>2 DEF Realign
  <2>2. stack' = Reconcile(stack, p, TRUE)
    BY <2>1 DEF Recapture
  <2> QED
    BY <1>1, <2>1, <2>2, RecaptureSafe, ReconcileGood DEF BackSafe
<1>3. CASE ~(opts.android /\ (ok \/ Top.ext))
  BY <1>1, <1>3 DEF Realign, BackSafe
<1> QED
  BY <1>2, <1>3

\* The frame guard when it recovers: aligned again, or back to the head.
LEMMA RealignStep ==
  ASSUME DescentInv, FrameResumed \/ FrameRecovered
  PROVE  DescentInv'
<1>1. CASE FrameResumed
  <2>1. PICK ok \in BOOLEAN, p \in Pages : Realign(ok, p) /\ pc' = "loop"
    BY <1>1 DEF FrameResumed
  <2>2. BackSafe'
    BY <2>1, RealignSafe
  <2> QED
    BY <2>1, <2>2, LoopStep DEF Realign, DescentInv, TypeOK, ledger, registry
<1>2. CASE FrameRecovered
  <2>1. PICK p \in Pages : /\ Realign(TRUE, p) /\ Len(stack') = Len(stack)
                           /\ Resembles(p, stack'[Len(stack)])
                           /\ pc' = NextStage(stack'[Len(stack)])
    BY <1>2 DEF FrameRecovered
  <2>2. BackSafe' /\ stack' # <<>> /\ screen' = p
    BY <2>1, RealignSafe DEF Realign
  <2>3. pc' \in {"expand", "visit"}
    BY <2>1 DEF NextStage
  <2>4. TypeOK'
    BY <2>1, <2>2, <2>3
    DEF Realign, DescentInv, TypeOK, ledger, registry, outside, BackSafe, Good
  <2>5. Aligned'
    BY <2>1, <2>2 DEF Aligned, Top, Resembles
  <2> QED
    BY <2>2, <2>4, <2>5 DEF DescentInv, BackSafe
<1> QED
  BY <1>1, <1>2

\* The frame guard when it does not: a frame is dropped, or the home page relaunched.
LEMMA LostStep == ASSUME DescentInv, FrameLost PROVE DescentInv'
<1>1. PICK ok \in BOOLEAN, p \in Pages :
    /\ AtHead /\ screen' = p
    /\ LET tried == opts.android /\ (ok \/ Top.ext)
           s == IF tried THEN Reconcile(stack, p, TRUE) ELSE stack
           f == s[Len(s)]
       IN /\ Len(s) = Len(stack)
          /\ currentApp' = IF tried /\ Resumes(stack, p, TRUE) THEN AppOf[p] ELSE currentApp
          /\ IF f.depth = 0
             THEN stack' = s /\ pc' = IF f.cursor >= f.size THEN "ended" ELSE "relaunch"
             ELSE stack' = Pop(s) /\ pc' = "loop"
  BY DEF FrameLost
<1> DEFINE tried == opts.android /\ (ok \/ Top.ext)
           s == IF tried THEN Reconcile(stack, p, TRUE) ELSE stack
           f == s[Len(s)]
<1>2. Good(s) /\ s # <<>> /\ Good(Pop(s))
  <2>1. Good(stack) /\ stack # <<>>
    BY <1>1 DEF DescentInv, AtHead, Over
  <2>2. Good(s) /\ s # <<>>
    BY <2>1, ReconcileGood
  <2> HIDE DEF s
  <2> QED
    BY <2>2, PopGood
<1>3. UNCHANGED <<registry, failures, spent, retries, ledger, outside>>
  BY DEF FrameLost
<1>4. currentApp' \in Apps /\ screen' \in Pages
  BY <1>1, AppsClosed DEF DescentInv, TypeOK
<1>5. \/ stack' = s /\ pc' \in {"ended", "relaunch"}
      \/ stack' = Pop(s) /\ pc' = "loop"
  BY <1>1
<1> HIDE DEF s
<1>6. TypeOK'
  BY <1>2, <1>3, <1>4, <1>5 DEF DescentInv, TypeOK, ledger, registry, outside, Good
<1> QED
  BY <1>2, <1>5, <1>6 DEF DescentInv, Aligned

\* The relaunch pops the home frame or ends the run.
LEMMA RelaunchStep == ASSUME DescentInv, Relaunch PROVE DescentInv'
<1>1. stack # <<>> /\ Good(stack) /\ Good(Pop(stack))
  BY PopGood DEF Relaunch, DescentInv, TypeOK
<1>2. BackSafe' /\ pc' \in {"loop", "ended"}
  BY <1>1 DEF Relaunch, DescentInv, TypeOK, BackSafe
<1> QED
  BY <1>2, LoopStep DEF Relaunch, DescentInv, TypeOK, registry, ledger

\* Expansions that leave the page at once end at the head of the loop.
LEMMA ExpandStep ==
  ASSUME DescentInv, ExpandKnown \/ ExpandGated \/ ExpandForeign
  PROVE  DescentInv'
<1>1. BackSafe /\ stack # <<>> /\ Top.path \in Seq(Labels)
  BY TopFrame DEF ExpandKnown, ExpandGated, ExpandForeign, DescentInv, TypeOK, BackSafe
<1>2. CASE ExpandKnown
  <2>1. BackSafe'
    BY <1>1, <1>2, LeaveSafe DEF ExpandKnown
  <2>2. visited' \subseteq Pages \X Seq(Labels) /\ count' \in Nat
    BY <1>1, <1>2, RegisterTyped DEF ExpandKnown, DescentInv, TypeOK, registry
  <2> QED
    BY <1>2, <2>1, <2>2, LoopStep DEF ExpandKnown, DescentInv, TypeOK, ledger
<1>3. CASE ExpandGated
  <2>1. BackSafe'
    BY <1>1, <1>3, LeaveSafe DEF ExpandGated
  <2>2. visited' \subseteq Pages \X Seq(Labels) /\ count' \in Nat
    BY <1>1, <1>3, RegisterTyped DEF ExpandGated, DescentInv, TypeOK
  <2> QED
    BY <1>3, <2>1, <2>2, LoopStep DEF ExpandGated, DescentInv, TypeOK, ledger
<1>4. CASE ExpandForeign
  <2>1. ReturnToTarget(TRUE) => BackSafe'
    BY <1>1, ReturnSafe
  <2>2. (\E p \in Pages : screen' = p /\ Recapture(Pop(stack), p, TRUE)) => BackSafe'
    <3>1. Good(Pop(stack))
      BY <1>1, PopGood DEF BackSafe
    <3> QED
      BY <1>1, <3>1, RecaptureSafe DEF BackSafe
  <2>3. BackSafe'
    BY <1>4, <2>1, <2>2 DEF ExpandForeign
  <2>4. visited' \subseteq Pages \X Seq(Labels) /\ count' \in Nat
    BY <1>1, <1>4, RegisterTyped DEF ExpandForeign, DescentInv, TypeOK
  <2> QED
    BY <1>4, <2>3, <2>4, LoopStep DEF ExpandForeign, DescentInv, TypeOK, ledger
<1> QED
  BY <1>2, <1>3, <1>4

\* An expansion changes the top frame only, to one that fits.
LEMMA ExpandPageStep == ASSUME DescentInv, ExpandPage PROVE DescentInv'
<1>1. Good(stack) /\ stack # <<>> /\ screen \in Pages
  BY DEF ExpandPage, DescentInv, TypeOK
<1>2. PICK n \in Offers[screen] :
        stack' = WithTop([Top EXCEPT !.page = screen, !.size = n,
                     !.segs = IF screen \in Scrolls THEN <<n>> ELSE @,
                     !.lookalike = @ \/ ~(screen = Top.page \/ SameTitle(screen, Top.page))])
  BY DEF ExpandPage
<1> DEFINE f == [Top EXCEPT !.page = screen, !.size = n,
                     !.segs = IF screen \in Scrolls THEN <<n>> ELSE @,
                     !.lookalike = @ \/ ~(screen = Top.page \/ SameTitle(screen, Top.page))]
<1>3. /\ f \in Frames /\ f.page = screen /\ f.app = Top.app
      /\ f.depth = Top.depth /\ f.path = Top.path
      /\ f.lookalike = (Top.lookalike \/ ~(screen = Top.page \/ SameTitle(screen, Top.page)))
  <2>1. Top \in Frames /\ Top.segs \in Seq(Nat) /\ n \in Nat /\ <<n>> \in Seq(Nat)
    BY <1>1, TopFrame, PagesAssumption
  <2> QED
    BY <1>1, <2>1 DEF Frames
<1> HIDE DEF f
<1>4. /\ Good(stack') /\ Len(stack') = Len(stack)
      /\ stack'[Len(stack)] = f
  BY <1>1, <1>2, <1>3, ExpandedFits, WithTopGood DEF f
<1>5. Len(stack) \in Nat \ {0} /\ Top.path \in Seq(Labels)
  BY <1>1, TopFrame
<1>6. visited' \subseteq Pages \X Seq(Labels) /\ count' \in Nat
  BY <1>1, <1>5, RegisterTyped DEF ExpandPage, DescentInv
<1>7. TypeOK'
  BY <1>1, <1>4, <1>5, <1>6
  DEF ExpandPage, DescentInv, TypeOK, ledger, outside, device, Good
<1>8. Aligned'
  BY <1>3, <1>4 DEF ExpandPage, Aligned, Top, Resembles, device
<1> QED
  BY <1>4, <1>7, <1>8 DEF DescentInv

\* Back to the head of the loop with another top frame of the same page.
LEMMA ToLoopStep ==
  ASSUME DescentInv, stack # <<>>, NEW f \in Frames, ToLoop(f),
         f.page = Top.page, f.app = Top.app, f.depth = Top.depth, f.path = Top.path,
         f.lookalike = Top.lookalike
  PROVE  DescentInv'
<1>1. BackSafe'
  BY EditTop DEF ToLoop, DescentInv, TypeOK, BackSafe, device
<1> QED
  BY <1>1, LoopStep DEF ToLoop, DescentInv, TypeOK, ledger, registry, device

\* Moving from segment to segment changes no page and no path.
LEMMA SegmentStep ==
  ASSUME DescentInv, NextSegment \/ HorizontalProbe \/ SkipSegment
  PROVE  DescentInv'
<1>1. stack # <<>> /\ Good(stack)
  BY DEF NextSegment, HorizontalProbe, SkipSegment, DescentInv, TypeOK
<1>2. Top \in Frames /\ Top.segs \in Seq(Nat) /\ SegmentSize(Top) \in Nat
  BY <1>1, TopFrame
<1>3. CASE NextSegment
  <2>1. PICK n \in More : ToLoop([Top EXCEPT !.segs = Append(@, n), !.cursor = 0])
    BY <1>3 DEF NextSegment
  <2>2. Append(Top.segs, n) \in Seq(Nat)
    BY <1>2, LimitsAssumption, AppendProperties
  <2>3. [Top EXCEPT !.segs = Append(@, n), !.cursor = 0] \in Frames
    BY <1>2, <2>2 DEF Frames
  <2> QED
    BY <1>1, <1>2, <2>1, <2>3, ToLoopStep DEF Frames
<1>4. CASE HorizontalProbe
  <2>1. <<0>> \in Seq(Nat)
    OBVIOUS
  <2>2. [Top EXCEPT !.segs = <<0>>, !.cursor = 0, !.probed = TRUE] \in Frames
    BY <1>2, <2>1 DEF Frames
  <2> QED
    BY <1>1, <1>2, <1>4, <2>2, ToLoopStep DEF HorizontalProbe, Frames
<1>5. CASE SkipSegment
  <2>1. [Top EXCEPT !.cursor = SegmentSize(Top)] \in Frames
    BY <1>2 DEF Frames
  <2> QED
    BY <1>1, <1>2, <1>5, <2>1, ToLoopStep DEF SkipSegment, Frames
<1> QED
  BY <1>3, <1>4, <1>5

\* An exhausted frame is left by one of the ways back.
LEMMA PopFrameStep == ASSUME DescentInv, PopFrame PROVE DescentInv'
<1>1. BackSafe /\ stack # <<>>
  BY DEF PopFrame, DescentInv, TypeOK, BackSafe
<1>2. BackSafe'
  BY <1>1, LeaveSafe, ReturnSafe DEF PopFrame
<1> QED
  BY <1>2, LoopStep DEF PopFrame, DescentInv, TypeOK, ledger, registry

\* The element tapped next exists: a nonempty set of positions has a least one.
LEMMA LeastExists ==
  ASSUME NEW n \in Nat, NEW S \in SUBSET (1 .. n), S # {}
  PROVE  \E m \in S : \A j \in S : m <= j
<1> DEFINE R == {n + 1 - i : i \in S}
<1>1. R \in SUBSET (1 .. n) /\ R # {}
  <2>1. \A i \in S : i \in Nat /\ n + 1 - i \in 1 .. n
    OBVIOUS
  <2> QED
    BY <2>1
<1>2. \E r \in R : \A j \in R : j <= r
  <2> HIDE DEF R
  <2> QED
    BY <1>1, TopmostIsMax
<1>3. PICK m \in S : \A j \in R : j <= n + 1 - m
  BY <1>2
<1>4. \A j \in S : n + 1 - j <= n + 1 - m
  BY <1>3
<1> QED
  BY <1>4

\* Starting a tap moves the cursor only, so the screen still passes for the page.
LEMMA StartTapStep == ASSUME DescentInv, StartTap PROVE DescentInv'
<1> DEFINE i == CHOOSE i \in Usable(Top) : \A j \in Usable(Top) : i <= j
           f == [Top EXCEPT !.cursor = i]
<1>1. Good(stack) /\ stack # <<>> /\ Resembles(screen, Top)
  BY DEF StartTap, DescentInv, TypeOK, Aligned
<1>2. i \in Nat
  <2>1. Top.cursor \in Nat /\ SegmentSize(Top) \in Nat
    BY <1>1, TopFrame
  <2>2. PICK m \in Usable(Top) : \A j \in Usable(Top) : m <= j
    <3>1. Usable(Top) # {} /\ Usable(Top) \in SUBSET (1 .. SegmentSize(Top))
      BY <2>1 DEF StartTap, Usable
    <3> QED
      BY <2>1, <3>1, LeastExists
  <2>3. i \in Usable(Top)
    BY <2>2
  <2> QED
    BY <2>1, <2>3 DEF Usable
<1> HIDE DEF i
<1>3. f \in Frames /\ f.page = Top.page /\ f.app = Top.app /\ f.lookalike = Top.lookalike
      /\ f.depth = Top.depth /\ f.path = Top.path
  BY <1>1, <1>2, TopFrame DEF Frames
<1>4. stack' = WithTop(f)
  BY DEF StartTap, i
<1> HIDE DEF f
<1>5. Good(stack') /\ stack' # <<>> /\ stack'[Len(stack')] = f
  BY <1>1, <1>3, <1>4, EditTop
<1>6. TypeOK'
  BY <1>5 DEF StartTap, DescentInv, TypeOK, registry, outside, device, Good
<1>7. Aligned'
  BY <1>1, <1>3, <1>5 DEF StartTap, Aligned, Top, Resembles, device
<1> QED
  BY <1>5, <1>6, <1>7 DEF DescentInv

\* A tap moves the screen, and the frame is not looked at again before landing.
LEMMA TapStep ==
  ASSUME DescentInv, TapSucceeds \/ TapFails
  PROVE  DescentInv'
<1>1. Good(stack) /\ stack # <<>> /\ screen \in Pages /\ UNCHANGED stack
  BY DEF TapSucceeds, TapFails, DescentInv, TypeOK
<1>2. Top.page \in Pages /\ Label(Top) \in Labels /\ Leads[screen] \subseteq Pages
  BY <1>1, TopFrame, PagesAssumption
<1>3. screen' \in Pages
  BY <1>1, <1>2 DEF TapSucceeds, TapFails
<1>4. TypeOK'
  <2>1. CASE TapSucceeds
    BY <1>1, <1>2, <1>3, <2>1
    DEF TapSucceeds, DescentInv, TypeOK, registry, outside, ledger
  <2>2. CASE TapFails
    BY <1>1, <1>2, <1>3, <2>2
    DEF TapFails, DescentInv, TypeOK, registry, outside
  <2> QED
    BY <2>1, <2>2
<1>5. Aligned'
  BY DEF TapSucceeds, TapFails, Aligned
<1> QED
  BY <1>1, <1>4, <1>5 DEF DescentInv

\* Landing on a page that is recorded and left: whatever is on the screen is reconciled.
LEMMA LandAwayStep ==
  ASSUME DescentInv, LandExternalLink \/ LandUnexpanded
  PROVE  DescentInv'
<1>1. BackSafe /\ stack # <<>>
  BY DEF LandExternalLink, LandUnexpanded, DescentInv, TypeOK, BackSafe
<1>2. NewPath \in Seq(Labels)
  <2>1. Top.path \in Seq(Labels) /\ Label(Top) \in Labels
    BY <1>1, TopFrame DEF BackSafe
  <2> QED
    BY <2>1, AppendProperties DEF NewPath
<1>3. visited' \subseteq Pages \X Seq(Labels) /\ count' \in Nat
  BY <1>2, RegisterTyped DEF LandExternalLink, LandUnexpanded, DescentInv, TypeOK
<1>4. CASE LandExternalLink
  <2>1. BackSafe'
    BY <1>1, <1>4, ReconcileGood, AppsClosed DEF LandExternalLink, BackSafe, device
  <2> QED
    BY <1>3, <1>4, <2>1, LoopStep DEF LandExternalLink, DescentInv, TypeOK, Commit
<1>5. CASE LandUnexpanded
  <2>1. BackSafe'
    BY <1>1, <1>5, RecaptureSafe DEF LandUnexpanded, BackSafe
  <2> QED
    BY <1>3, <1>5, <2>1, LoopStep DEF LandUnexpanded, DescentInv, TypeOK, Commit
<1> QED
  BY <1>4, <1>5

\* Landing nowhere: the frame may be given up, and keeps its page.
LEMMA LandNowhereStep == ASSUME DescentInv, LandNowhere PROVE DescentInv'
<1> DEFINE same == screen = Top.page \/ SameTitle(screen, Top.page)
           f == IF same THEN [Top EXCEPT !.noOp = @ \cup {Label(Top)}] ELSE Top
           g == IF failures + 1 >= Threshold /\ ~(f.segs # <<>> /\ Exhausted(f))
                THEN [f EXCEPT !.cursor = f.size] ELSE f
<1>1. Good(stack) /\ stack # <<>>
  BY DEF LandNowhere, InApp, DescentInv, TypeOK
<1>2. f \in Frames /\ f.page = Top.page /\ f.app = Top.app /\ f.lookalike = Top.lookalike
      /\ f.depth = Top.depth /\ f.path = Top.path
  BY <1>1, TopFrame DEF Frames
<1>3. stack' = WithTop(g)
  BY DEF LandNowhere
<1> HIDE DEF f
<1>4. g \in Frames /\ g.page = Top.page /\ g.app = Top.app /\ g.lookalike = Top.lookalike
      /\ g.depth = Top.depth /\ g.path = Top.path
  BY <1>2 DEF Frames
<1> HIDE DEF g
<1>5. BackSafe'
  BY <1>1, <1>3, <1>4, EditTop DEF LandNowhere, DescentInv, TypeOK, BackSafe, device
<1> QED
  BY <1>5, LoopStep DEF LandNowhere, DescentInv, TypeOK, registry

\* Landing on the frame itself, on an ancestor or on a new page.
LEMMA LandStep ==
  ASSUME DescentInv, LandDrifted \/ LandOnAncestor \/ LandOnChild
  PROVE  DescentInv'
<1>1. Good(stack) /\ stack # <<>> /\ stack \in Seq(Frames) /\ screen \in Pages
  BY DEF LandDrifted, LandOnAncestor, LandOnChild, Navigated, InApp, DescentInv, TypeOK
<1>2. Len(stack) \in Nat \ {0} /\ Top \in Frames
  BY <1>1, TopFrame
<1> DEFINE a == FindAncestor(stack, screen)
<1>3. ASSUME LandDrifted PROVE Good(stack')
  <2> DEFINE f == [Top EXCEPT !.page = screen]
  <2>1. f \in Frames /\ f.page = screen /\ f.app = Top.app
        /\ f.depth = Top.depth /\ f.path = Top.path /\ f.lookalike = Top.lookalike
    BY <1>1, <1>2 DEF Frames
  <2>2. /\ Top.app = AppOf[screen]
        /\ Top.lookalike \/ Fresh(stack, Len(stack) - 1, screen, AppOf[screen])
    BY <1>1, <1>2, <1>3, AncestorFound DEF LandDrifted, Top, Good
  <2>3. stack' = WithTop(f)
    BY <1>3 DEF LandDrifted
  <2> HIDE DEF f
  <2>4. Fits(stack, Len(stack) - 1, f)
    BY <2>1, <2>2 DEF Fits
  <2> QED
    BY <1>1, <2>1, <2>3, <2>4, WithTopGood
<1>4. ASSUME LandOnAncestor PROVE Good(stack')
  <2>1. a \in 1 .. Len(stack) /\ stack' = UnwindTo(stack, a, Resumed(stack[a], screen))
    BY <1>2, <1>4 DEF LandOnAncestor
  <2>2. /\ stack[a] \in Frames
        /\ stack[a].lookalike \/ Fresh(stack, a - 1, screen, AppOf[screen])
    BY <1>1, <1>2, <2>1, AncestorFound DEF Good
  <2> HIDE DEF a
  <2>3. /\ Resumed(stack[a], screen) \in Frames
        /\ Resumed(stack[a], screen).depth = stack[a].depth
        /\ Resumed(stack[a], screen).path = stack[a].path
        /\ Resumed(stack[a], screen).page = screen
        /\ Resumed(stack[a], screen).app = AppOf[screen]
        /\ Resumed(stack[a], screen).lookalike = stack[a].lookalike
    BY <1>1, <2>2, ResumedFrame
  <2>4. Fits(stack, a - 1, Resumed(stack[a], screen))
    BY <2>2, <2>3 DEF Fits
  <2> QED
    BY <1>1, <2>1, <2>3, <2>4, UnwindGood
<1>5. ASSUME LandOnChild PROVE Good(stack')
  BY <1>1, <1>5, ChildGood DEF LandOnChild
<1>6. Good(stack')
  BY <1>3, <1>4, <1>5, Zenon
<1>7. Arrive
  BY DEF LandDrifted, LandOnAncestor, LandOnChild
<1> QED
  BY <1>1, <1>6, <1>7, AppsClosed, LoopStep
  DEF Arrive, Commit, DescentInv, TypeOK, registry, outside, BackSafe

\* The clock and a thrown error touch neither the stack nor the device.
LEMMA ClockStep ==
  ASSUME DescentInv, Throws \/ TimeIsUp \/ UNCHANGED vars
  PROVE  DescentInv'
<1>1. UNCHANGED <<device, stack, registry, failures, spent, retries, ledger, opts>>
  BY DEF Throws, TimeIsUp, vars, outside
<1>2. pc' = "thrown" \/ pc' = pc
  BY DEF Throws, TimeIsUp, vars
<1>3. late' \in BOOLEAN
  BY DEF Throws, TimeIsUp, vars, outside, DescentInv, TypeOK
<1>4. TypeOK'
  BY <1>1, <1>2, <1>3 DEF DescentInv, TypeOK, device, registry, ledger
<1>5. Aligned'
  BY <1>1, <1>2 DEF DescentInv, Aligned, Top, Resembles, device
<1> QED
  BY <1>1, <1>4, <1>5 DEF DescentInv

\* Every step keeps the invariant of the descent.
LEMMA DescentStep == DescentInv /\ [Next]_vars => DescentInv'
<1> SUFFICES ASSUME DescentInv, [Next]_vars PROVE DescentInv'
  OBVIOUS
<1>1. CASE Explore
  BY <1>1, LaunchStep, HeadStep, RealignStep, LostStep, RelaunchStep, ExpandStep,
     ExpandPageStep, SegmentStep, PopFrameStep, StartTapStep, TapStep, LandAwayStep,
     LandNowhereStep, LandStep, Zenon DEF Explore
<1>2. CASE Throws \/ TimeIsUp \/ UNCHANGED vars
  BY <1>2, ClockStep
<1> QED
  BY <1>1, <1>2 DEF Next

\* The invariant the theorems below are parts of.
THEOREM DescentInvariant == Spec => []DescentInv
BY DescentInit, DescentStep, PTL DEF Spec

\* The types, with a frame to work on wherever the body of engine.ts's loop runs.
THEOREM TypeCorrect == Spec => []TypeOK
BY DescentInvariant, PTL DEF DescentInv

\* Whatever reconciliation and the ways back do to the stack, it stays one way down.
THEOREM DescentIsPath == Spec => []StackIsPath
<1>1. DescentInv => StackIsPath
  BY DEF DescentInv, Good, StackIsPath
<1> QED
  BY <1>1, DescentInvariant, PTL

\* However the screens drift, a frame of the page or title of one below it in its app is
\* one that was expanded as a look-alike.
THEOREM DescentIsAcyclic == Spec => []NoCycle
<1>1. DescentInv => NoCycle
  BY DEF DescentInv, Good, NoCycle
<1> QED
  BY <1>1, DescentInvariant, PTL

\* No first tap lands on a page that is not, as far as can be told, the frame's.
THEOREM TapsAreAimed == Spec => []FirstTapOnPage
<1>1. DescentInv => FirstTapOnPage
  BY DEF DescentInv, Aligned, FirstTapOnPage
<1> QED
  BY <1>1, DescentInvariant, PTL

----------------------------------------------------------------------------
(* The two accounts: of the actions sent and of the pages recorded.        *)

\* A step sends an action, settles the one in flight, or does neither.
LEMMA TransitionsStep ==
  ASSUME TypeOK, TransitionsAccounted, [Next]_vars
  PROVE  TransitionsAccounted'
<1> USE DEF TypeOK, TransitionsAccounted
<1>1. CASE Launch
  BY <1>1 DEF Launch, ledger
<1>2. CASE Finish \/ FrameAligned
  BY <1>2 DEF Finish, FrameAligned, AtHead, NextStage, ledger
<1>3. CASE FrameResumed \/ FrameRecovered
  BY <1>3 DEF FrameResumed, FrameRecovered, Realign, AtHead, NextStage, ledger
<1>4. CASE FrameLost \/ Relaunch
  <2>1. UNCHANGED ledger /\ pc \in {"loop", "relaunch"} /\ pc' \in {"loop", "relaunch", "ended"}
    BY <1>4 DEF FrameLost, Relaunch, AtHead
  <2> QED
    BY <2>1 DEF ledger
<1>5. CASE ExpandKnown \/ ExpandGated \/ ExpandForeign \/ ExpandPage
  BY <1>5 DEF ExpandKnown, ExpandGated, ExpandForeign, ExpandPage, ledger
<1>6. CASE NextSegment \/ HorizontalProbe \/ PopFrame \/ SkipSegment
  BY <1>6 DEF NextSegment, HorizontalProbe, PopFrame, SkipSegment, ToLoop, ledger
<1>7. CASE StartTap \/ TapSucceeds
  BY <1>7 DEF StartTap, TapSucceeds, ledger
<1>8. CASE TapFails
  <2>1. /\ pc \in {"tap", "retry"} /\ sent' = sent /\ committed' = committed
        /\ \/ pc' = "retry" /\ rejected' = rejected
           \/ pc' = "loop" /\ rejected' = rejected + 1
    BY <1>8, Zenon DEF TapFails
  <2> QED
    BY <2>1
<1>9. CASE LandExternalLink \/ LandUnexpanded
  <2>1. /\ pc = "land" /\ pc' = "loop" /\ sent' = sent
        /\ committed' = committed + 1 /\ rejected' = rejected
    BY <1>9, Zenon DEF LandExternalLink, LandUnexpanded, Commit
  <2> QED
    BY <2>1
<1>10. CASE LandNowhere
  BY <1>10 DEF LandNowhere, InApp
<1>11. CASE LandDrifted \/ LandOnAncestor \/ LandOnChild
  BY <1>11 DEF LandDrifted, LandOnAncestor, LandOnChild, Navigated, InApp, Arrive, Commit
<1>12. CASE Throws \/ TimeIsUp \/ UNCHANGED vars
  BY <1>12 DEF Throws, TimeIsUp, vars, ledger
<1> QED
  BY <1>1, <1>2, <1>3, <1>4, <1>5, <1>6, <1>7, <1>8, <1>9, <1>10, <1>11, <1>12, Zenon
  DEF Next, Explore

\* Every action sent is settled once, however its tap, its retries and its landing go.
THEOREM Accounts == Spec => []TransitionsAccounted
<1>1. Init => TransitionsAccounted
  BY DEF Init, TransitionsAccounted
<1> QED
  BY <1>1, TypeCorrect, TransitionsStep, PTL DEF Spec

\* How far the registry has grown at each point of an iteration.
Budget ==
  /\ count \in Nat
  /\ pc = "launch" => count = 0
  /\ pc = "expand" => count < MaxPages
  /\ pc \in {"visit", "tap", "retry", "land"} => count <= MaxPages
  /\ count <= MaxPages + 1

\* The loop is entered under the page budget, and an iteration registers twice at most.
LEMMA BudgetStep ==
  ASSUME Budget, [Next]_vars
  PROVE  Budget'
<1> USE LimitsAssumption DEF Budget
<1>1. CASE Launch
  <2>1. pc' \in {"ended", "loop"} /\ count' \in {count, count + 1} /\ count = 0
    BY <1>1 DEF Launch, Register, registry
  <2> QED
    BY <2>1
<1>2. CASE Finish \/ FrameAligned
  <2>1. count' = count /\ pc = "loop"
        /\ (pc' = "ended" \/ (~(count >= MaxPages) /\ pc' \in {"expand", "visit"}))
    BY <1>2 DEF Finish, FrameAligned, AtHead, Over, NextStage, registry
  <2> QED
    BY <2>1
<1>3. CASE FrameResumed \/ FrameRecovered
  <2>1. count' = count /\ ~(count >= MaxPages) /\ pc' \in {"loop", "expand", "visit"}
    BY <1>3 DEF FrameResumed, FrameRecovered, Realign, AtHead, Over, NextStage, registry
  <2> QED
    BY <2>1
<1>4. CASE FrameLost \/ Relaunch
  <2>1. UNCHANGED registry /\ pc' \in {"loop", "relaunch", "ended"}
    BY <1>4 DEF FrameLost, Relaunch
  <2> QED
    BY <2>1 DEF registry
<1>5. CASE ExpandKnown \/ ExpandGated \/ ExpandForeign
  <2>1. pc = "expand" /\ pc' = "loop" /\ count' \in {count, count + 1}
    BY <1>5 DEF ExpandKnown, ExpandGated, ExpandForeign, Register, registry
  <2> QED
    BY <2>1
<1>6. CASE ExpandPage
  BY <1>6 DEF ExpandPage, Register
<1>7. CASE NextSegment \/ HorizontalProbe \/ PopFrame \/ SkipSegment
  BY <1>7 DEF NextSegment, HorizontalProbe, PopFrame, SkipSegment, ToLoop, registry
<1>8. CASE StartTap \/ TapSucceeds
  BY <1>8 DEF StartTap, TapSucceeds, registry
<1>9. CASE TapFails
  <2>1. pc \in {"tap", "retry"} /\ pc' \in {"retry", "loop"} /\ count' = count
    BY <1>9, Zenon DEF TapFails, registry
  <2> QED
    BY <2>1
<1>10. CASE LandExternalLink \/ LandUnexpanded
  <2>1. pc = "land" /\ pc' = "loop" /\ count' = count + 1
    BY <1>10, Zenon DEF LandExternalLink, LandUnexpanded, Register
  <2> QED
    BY <2>1
<1>11. CASE LandNowhere
  BY <1>11 DEF LandNowhere, registry
<1>12. CASE LandDrifted \/ LandOnAncestor \/ LandOnChild
  BY <1>12 DEF LandDrifted, LandOnAncestor, LandOnChild, Arrive, registry
<1>13. CASE Throws \/ TimeIsUp \/ UNCHANGED vars
  BY <1>13 DEF Throws, TimeIsUp, vars, registry
<1> QED
  BY <1>1, <1>2, <1>3, <1>4, <1>5, <1>6, <1>7, <1>8, <1>9, <1>10, <1>11, <1>12, <1>13, Zenon
  DEF Next, Explore

\* The registry outgrows the page budget by at most the one entry of a last tap.
THEOREM PageBudget == Spec => []PagesWithinLimit
<1>1. Init => Budget
  BY LimitsAssumption DEF Init, Budget
<1>2. Budget /\ [Next]_vars => Budget'
  BY BudgetStep
<1>3. Budget => PagesWithinLimit
  BY DEF Budget, PagesWithinLimit
<1> QED
  BY <1>1, <1>2, <1>3, PTL DEF Spec
=============================================================================
