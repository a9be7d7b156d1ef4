------------------------ MODULE DQMWorkspacesProofs ------------------------
(***************************************************************************)
(* Proofs for DQMWorkspaces.  A session has a shape (IsView) that every    *)
(* change of _set and of the handlers keeps; with it, a handler does one   *)
(* of three things: it saves what it leaves in memory, it raises, or it    *)
(* changes nothing but the position of the slide show (Handled).  So what  *)
(* is in memory and what was saved agree after every call, and the two     *)
(* buttons that lead out of the hidden workspaces can be followed from any *)
(* session.                                                                *)
(***************************************************************************)
EXTENDS DQMWorkspaces, FiniteSetTheorems, TLAPS

(* The shape of the scalars and of the dictionaries of session s, and of   *)
(* the two together.                                                       *)
IsScalars(x, s) ==
  /\ x = [workspace |-> x.workspace, dicts |-> s, set |-> x.set, windows |-> x.windows]
  /\ x.set = [p \in Scalars |-> x.set[p]]
  /\ x.windows = [y \in Windows |-> x.windows[y]]
IsDicts(d) ==
  /\ d = [reference |-> d.reference, root |-> d.root, focus |-> d.focus,
          drawopts |-> d.drawopts, myobjs |-> d.myobjs]
  /\ d.reference = [p \in References |-> d.reference[p]]
IsView(v, s) ==
  /\ v = [scalars |-> v.scalars, dicts |-> v.dicts]
  /\ IsScalars(v.scalars, s)
  /\ IsDicts(v.dicts)

--------------------------------------------------------------------------------
(* What _set does to the scalars of a session.                             *)
WithScalars(x, a, b) == [x EXCEPT !.set = a, !.windows = b]

LEMMA ScalarsChanged ==
  ASSUME NEW s, NEW x, NEW y, NEW a, NEW b, IsScalars(x, s),
         y = WithScalars(x, a, b)
  PROVE  /\ y = [workspace |-> y.workspace, dicts |-> y.dicts, set |-> y.set,
                 windows |-> y.windows]
         /\ y.workspace = x.workspace /\ y.dicts = s /\ y.set = a /\ y.windows = b
<1>1. x = [workspace |-> x.workspace, dicts |-> s, set |-> x.set, windows |-> x.windows]
  BY DEF IsScalars
<1>2. y.workspace = x.workspace /\ y.dicts = s /\ y.set = a /\ y.windows = b
  BY <1>1 DEF WithScalars
<1>3. QED
  BY <1>1, <1>2 DEF WithScalars

(* _set leaves a session of the same shape, however far it gets.           *)
LEMMA AssignView ==
  ASSUME NEW s, NEW v, NEW w, NEW args, IsView(v, s)
  PROVE  IsView(Assign(v, w, args), s)
<1> DEFINE u == Assign(v, w, args)
<1>1. IsScalars(u.scalars, s)
  <2> DEFINE x == u.scalars
  <2>1. x.set = [p \in Scalars |-> x.set[p]]
    BY DEF IsView, IsScalars, Assign
  <2>2. x.windows = [y \in Windows |-> x.windows[y]]
    BY DEF IsView, IsScalars, Assign
  <2>3. x = [workspace |-> x.workspace, dicts |-> s, set |-> x.set,
             windows |-> x.windows]
    <3>1. \E a, b : x = WithScalars(v.scalars, a, b)
      BY Zenon DEF Assign, WithScalars
    <3>2. PICK a, b : x = WithScalars(v.scalars, a, b)
      BY <3>1
    <3> HIDE DEF x
    <3>3. QED
      BY <3>2, ScalarsChanged DEF IsView
  <2> HIDE DEF x
  <2>4. IsScalars(x, s)
    BY <2>1, <2>2, <2>3 DEF IsScalars
  <2>5. QED
    BY <2>4 DEF x
<1>2. IsDicts(u.dicts)
  <2>1. u.dicts.reference = [p \in References |-> u.dicts.reference[p]]
    BY DEF IsView, IsDicts, Assign
  <2>2. \E a, b, c, d : u.dicts = [v.dicts EXCEPT !.reference = a, !.root = b,
                                      !.focus = c, !.myobjs = d]
    BY ZenonT(60) DEF Assign
  <2>3. u.dicts = [reference |-> u.dicts.reference, root |-> u.dicts.root,
          focus |-> u.dicts.focus, drawopts |-> u.dicts.drawopts, myobjs |-> u.dicts.myobjs]
    BY <2>2 DEF IsView, IsDicts
  <2> HIDE DEF u
  <2>4. QED
    BY <2>1, <2>3, SMTT(30) DEF IsDicts
<1>3. u = [scalars |-> u.scalars, dicts |-> u.dicts]
  BY DEF Assign
<1>4. IsView(u, s)
  <2> HIDE DEF u
  <2>1. QED
    BY <1>1, <1>2, <1>3 DEF IsView
<1>5. QED
  BY <1>4

(* The changes of a single part of a session.                              *)
WithRoot(v, a) == [v EXCEPT !.dicts.root = a]
WithFocus(v, a) == [v EXCEPT !.dicts.focus = a]
WithDrawopts(v, a) == [v EXCEPT !.dicts.drawopts = a]
WithObjects(v, a) == [v EXCEPT !.dicts.myobjs = a]
WithSet(v, p, x) == [v EXCEPT !.scalars.set[p] = x]
WithWindow(v, y, a) == [v EXCEPT !.scalars.windows[y] = a]
WithWorkspace(v, w) == [v EXCEPT !.scalars.workspace = w]

LEMMA DictsView ==
  ASSUME NEW s, NEW v, NEW a, IsView(v, s)
  PROVE  /\ IsView(WithRoot(v, a), s) /\ IsView(WithFocus(v, a), s)
         /\ IsView(WithDrawopts(v, a), s) /\ IsView(WithObjects(v, a), s)
<1>1. IsView([v EXCEPT !.dicts.root = a], s)
  BY DEF IsView, IsDicts
<1>2. IsView([v EXCEPT !.dicts.focus = a], s)
  BY DEF IsView, IsDicts
<1>3. IsView([v EXCEPT !.dicts.drawopts = a], s)
  BY DEF IsView, IsDicts
<1>4. IsView([v EXCEPT !.dicts.myobjs = a], s)
  BY DEF IsView, IsDicts
<1>5. QED
  BY <1>1, <1>2, <1>3, <1>4 DEF WithRoot, WithFocus, WithDrawopts, WithObjects

LEMMA ScalarsView ==
  ASSUME NEW s, NEW v, NEW x, IsScalars(x, s), IsView(v, s)
  PROVE  IsView([v EXCEPT !.scalars = x], s)
  BY DEF IsView

LEMMA SetView ==
  ASSUME NEW s, NEW v, NEW p, NEW x, IsView(v, s)
  PROVE  /\ IsView(WithSet(v, p, x), s)
         /\ WithSet(v, p, x).dicts = v.dicts
         /\ WithSet(v, p, x).scalars.workspace = v.scalars.workspace
         /\ WithSet(v, p, x).scalars.windows = v.scalars.windows
         /\ \A q \in Scalars : WithSet(v, p, x).scalars.set[q] =
                                 IF q = p THEN x ELSE v.scalars.set[q]
<1> DEFINE y == [v.scalars EXCEPT !.set[p] = x]
           u == [v EXCEPT !.scalars.set[p] = x]
<1>1. y.set = [v.scalars.set EXCEPT ![p] = x]
  BY DEF IsView, IsScalars
<1>2. y.set = [q \in Scalars |-> y.set[q]]
  BY <1>1 DEF IsView, IsScalars
<1>3. y.windows = v.scalars.windows /\ y.dicts = s
      /\ y.workspace = v.scalars.workspace
  BY DEF IsView, IsScalars
<1>4. y = [workspace |-> y.workspace, dicts |-> s, set |-> y.set, windows |-> y.windows]
  BY <1>3 DEF IsView, IsScalars
<1>5. IsScalars(y, s)
  BY <1>2, <1>3, <1>4 DEF IsView, IsScalars
<1>6. u.scalars = y /\ u.dicts = v.dicts /\ u = [scalars |-> u.scalars, dicts |-> u.dicts]
  BY DEF IsView
<1>7. \A q \in Scalars : y.set[q] = IF q = p THEN x ELSE v.scalars.set[q]
  BY <1>1 DEF IsView, IsScalars
<1>8. WithSet(v, p, x) = u
  BY DEF WithSet
<1> HIDE DEF y, u
<1>9. IsView(u, s)
  BY <1>5, <1>6 DEF IsView
<1>10. QED
  BY <1>3, <1>6, <1>7, <1>8, <1>9

LEMMA WindowView ==
  ASSUME NEW s, NEW v, NEW y, NEW a, IsView(v, s)
  PROVE  IsView(WithWindow(v, y, a), s)
<1> DEFINE x == [v.scalars EXCEPT !.windows[y] = a]
           u == [v EXCEPT !.scalars.windows[y] = a]
<1>1. x.windows = [v.scalars.windows EXCEPT ![y] = a]
  BY DEF IsView, IsScalars
<1>2. x.windows = [q \in Windows |-> x.windows[q]]
  BY <1>1 DEF IsView, IsScalars
<1>3. x.set = v.scalars.set /\ x.dicts = s
  BY DEF IsView, IsScalars
<1>4. x = [workspace |-> x.workspace, dicts |-> s, set |-> x.set, windows |-> x.windows]
  BY <1>3 DEF IsView, IsScalars
<1>5. IsScalars(x, s)
  BY <1>2, <1>3, <1>4 DEF IsView, IsScalars
<1>6. u.scalars = x /\ u.dicts = v.dicts /\ u = [scalars |-> u.scalars, dicts |-> u.dicts]
  BY DEF IsView
<1>7. WithWindow(v, y, a) = u
  BY DEF WithWindow
<1> HIDE DEF x, u
<1>8. QED
  BY <1>5, <1>6, <1>7 DEF IsView

LEMMA WorkspaceView ==
  ASSUME NEW s, NEW v, NEW w, IsView(v, s)
  PROVE  /\ IsView(WithWorkspace(v, w), s)
         /\ WithWorkspace(v, w).scalars.workspace = w
         /\ WithWorkspace(v, w).scalars.set = v.scalars.set
<1> DEFINE x == [v.scalars EXCEPT !.workspace = w]
           u == [v EXCEPT !.scalars.workspace = w]
<1>1. x.set = v.scalars.set /\ x.dicts = s /\ x.windows = v.scalars.windows
      /\ x.workspace = w
  BY DEF IsView, IsScalars
<1>2. x = [workspace |-> x.workspace, dicts |-> s, set |-> x.set, windows |-> x.windows]
  BY <1>1 DEF IsView, IsScalars
<1>3. IsScalars(x, s)
  BY <1>1, <1>2 DEF IsView, IsScalars
<1>4. u.scalars = x /\ u.dicts = v.dicts /\ u = [scalars |-> u.scalars, dicts |-> u.dicts]
  BY DEF IsView
<1>5. WithWorkspace(v, w) = u
  BY DEF WithWorkspace
<1> HIDE DEF x, u
<1>6. QED
  BY <1>1, <1>3, <1>4, <1>5 DEF IsView

(* The methods of the server that the handlers end with.                   *)
LEMMA InitialisedView ==
  ASSUME NEW s, NEW v, NEW w, IsView(v, s)
  PROVE  IsView(Initialised(v, w), s) /\ Initialised(v, w).scalars = v.scalars
<1>1. \E a, b : Initialised(v, w) = [v EXCEPT !.dicts.myobjs = a, !.dicts.root = b]
  BY Zenon DEF Initialised
<1>2. PICK a, b : Initialised(v, w) = [v EXCEPT !.dicts.myobjs = a, !.dicts.root = b]
  BY <1>1
<1>3. Initialised(v, w) = WithRoot(WithObjects(v, a), b)
  BY <1>2 DEF WithRoot, WithObjects
<1>4. \A t, c : IsView(t, s) => WithRoot(t, c).scalars = t.scalars
                             /\ WithObjects(t, c).scalars = t.scalars
  BY DEF WithRoot, WithObjects, IsView
<1>5. QED
  BY <1>3, <1>4, DictsView

LEMMA SwitchedView ==
  ASSUME NEW s, NEW v, NEW name, IsView(v, s)
  PROVE  /\ IsView(Switched(v, name), s)
         /\ Switched(v, name).scalars.workspace = Workspace(name)
         /\ Switched(v, name).scalars.set = v.scalars.set
<1>1. Switched(v, name) = Initialised(WithWorkspace(v, Workspace(name)), Workspace(name))
  BY DEF Switched, WithWorkspace
<1>2. QED
  BY <1>1, WorkspaceView, InitialisedView

(* The name of the previous workspace once the user has gone back.         *)
Forgotten == ""

LEMMA ReturnedView ==
  ASSUME NEW s, NEW v, NEW prevws, IsView(v, s)
  PROVE  /\ IsView(Returned(v, prevws), s)
         /\ Returned(v, prevws).scalars.workspace = Workspace(v.scalars.set[prevws])
         /\ prevws \in Scalars => Returned(v, prevws).scalars.set[prevws] = Forgotten
         /\ \A q \in Scalars : q # prevws =>  Returned(v, prevws).scalars.set[q] = v.scalars.set[q]
<1> DEFINE u == WithSet(v, prevws, "")
           n == v.scalars.set[prevws]
<1>1. Returned(v, prevws) = Switched(u, n)
  BY DEF Returned, WithSet
<1>2. /\ IsView(u, s)
      /\ prevws \in Scalars => u.scalars.set[prevws] = Forgotten
      /\ \A q \in Scalars : q # prevws =>  u.scalars.set[q] = v.scalars.set[q]
  <2> DEFINE e == ""
  <2>1. u = WithSet(v, prevws, e)
    OBVIOUS
  <2> HIDE DEF u, n, e
  <2>2. /\ IsView(u, s)
        /\ \A q \in Scalars : u.scalars.set[q] = IF q = prevws THEN e ELSE v.scalars.set[q]
    BY <2>1, SetView
  <2>3. QED
    BY <2>2 DEF e, Forgotten
<1> HIDE DEF u
<1>3. /\ IsView(Switched(u, n), s)
      /\ Switched(u, n).scalars.workspace = Workspace(n)
      /\ Switched(u, n).scalars.set = u.scalars.set
  <2> HIDE DEF n
  <2>1. QED
    BY <1>2, SwitchedView
<1>4. QED
  BY <1>1, <1>2, <1>3

(* The options of an image and the place of a window.                      *)
LEMMA AlteredView ==
  ASSUME NEW s, NEW v, NEW w, NEW o, NEW opt, NEW val, IsView(v, s)
  PROVE  IsView(Altered(v, w, o, opt, val), s)
<1>1. \E d : Altered(v, w, o, opt, val) = WithDrawopts(v, d)
  BY Zenon DEF Altered, WithDrawopts
<1>2. QED
  BY <1>1, DictsView

LEMMA MovedView ==
  ASSUME NEW s, NEW v, NEW window, NEW args, IsView(v, s)
  PROVE  IsView(Moved(v, window, args).v, s)
<1>1. \E a : Moved(v, window, args).v = WithWindow(v, window, a)
  BY Zenon DEF Moved, WithWindow
<1>2. QED
  BY <1>1, WindowView

(***************************************************************************)
(* The fold of Start over the workspaces of a configuration.  That the     *)
(* recursion behind FoldLeft has one solution is shown by hand, with a     *)
(* smallest set of places for which it had none, or two.                   *)
(***************************************************************************)
LEMMA MaxIsMember ==
  ASSUME NEW n \in Nat, NEW t \in SUBSET (1 .. n), t # {}
  PROVE  Max(t) \in t
<1> DEFINE R == OpToRel(<, Nat)
           Bounds == {b \in Nat : \A y \in t : y <= b}
<1>1. IsWellFoundedOn(R, Nat)
  BY NatLessThanWellFounded
<1>2. Bounds \subseteq Nat /\ n \in Bounds
  OBVIOUS
<1>3. PICK b \in Bounds : \A c \in Bounds : <<c, b>> \notin R
  <2> HIDE DEF R, Bounds
  <2>1. QED
    BY <1>1, <1>2, WFMin
<1>4. b \in t
  <2> SUFFICES ASSUME b \notin t
               PROVE  FALSE
    OBVIOUS
  <2>1. \A y \in t : y \in Nat /\ y >= 1 /\ y <= b - 1
    OBVIOUS
  <2>2. b - 1 \in Bounds
    <3>1. PICK y : y \in t
      OBVIOUS
    <3>2. b \in Nat /\ b - 1 \in Nat
      BY <2>1, <3>1
    <3>3. QED
      BY <2>1, <3>2
  <2>3. <<b - 1, b>> \in R
    BY <2>2 DEF OpToRel
  <2>4. QED
    BY <1>3, <2>2, <2>3
<1>5. \E x \in t : \A y \in t : x >= y
  BY <1>4
<1>6. QED
  BY <1>5 DEF Max

(* The function behind FoldLeft, on the sets of places within s.           *)
Folded(c, v, g, t) ==
  IF t = {} THEN v ELSE Initialised(g[t \ {Max(t)}], c[Max(t)])
Recursion(c, v, g, s) == g = [t \in SUBSET s |-> Folded(c, v, g, t)]

LEMMA StartIsFold ==
  ASSUME NEW c, NEW v
  PROVE  FoldLeft(Initialised, v, c) =
           (CHOOSE g : Recursion(c, v, g, DOMAIN c))[DOMAIN c]
  BY DEF FoldLeft, MapThenFoldSet, Recursion, Folded

(* What holds of some subset of 1 .. n holds of a smallest one.            *)
LEMMA SmallestSet ==
  ASSUME NEW S, IsFiniteSet(S), NEW T, T \subseteq SUBSET S, T # {}
  PROVE  \E s \in T : \A r \in T : ~(r \subseteq s /\ r # s)
<1>1. IsWellFoundedOn(StrictSubsetOrdering(S), SUBSET S)
  BY FS_StrictSubsetOrderingWellFounded, FS_FiniteSubsetsOfFinite
<1>2. PICK s \in T : \A r \in T : <<r, s>> \notin StrictSubsetOrdering(S)
  BY <1>1, WFMin
<1>3. QED
  BY <1>2 DEF StrictSubsetOrdering

LEMMA FoldsAgree ==
  ASSUME NEW c, NEW v, NEW n \in Nat, NEW s \in SUBSET (1 .. n), NEW f, NEW g,
         Recursion(c, v, f, s), Recursion(c, v, g, s)
  PROVE  f[s] = g[s]
<1> DEFINE Differ == {t \in SUBSET s : f[t] # g[t]}
<1> SUFFICES ASSUME Differ # {}
             PROVE  FALSE
  OBVIOUS
<1>1. PICK t \in Differ : \A r \in Differ : ~(r \subseteq t /\ r # t)
  <2> DEFINE S == 1 .. n
  <2>1. Differ \subseteq SUBSET S /\ Differ # {}
    OBVIOUS
  <2>2. IsFiniteSet(S)
    BY FS_Interval
  <2> HIDE DEF Differ, S
  <2>3. QED
    BY <2>1, <2>2, SmallestSet
<1>2. f[t] = Folded(c, v, f, t) /\ g[t] = Folded(c, v, g, t)
  BY DEF Recursion
<1>3. t # {}
  BY <1>2 DEF Folded
<1>4. Max(t) \in t
  BY <1>3, MaxIsMember
<1>5. f[t \ {Max(t)}] = g[t \ {Max(t)}]
  BY <1>1, <1>4
<1>6. QED
  BY <1>2, <1>3, <1>5 DEF Folded

LEMMA FoldRestricted ==
  ASSUME NEW c, NEW v, NEW s, NEW r \in SUBSET s, NEW f, Recursion(c, v, f, s)
  PROVE  Recursion(c, v, [t \in SUBSET r |-> f[t]], r)
<1> DEFINE g == [t \in SUBSET r |-> f[t]]
<1>1. ASSUME NEW t \in SUBSET r
      PROVE  g[t] = Folded(c, v, g, t)
  <2>1. g[t] = Folded(c, v, f, t)
    BY DEF Recursion
  <2>2. g[t \ {Max(t)}] = f[t \ {Max(t)}]
    OBVIOUS
  <2> HIDE DEF g
  <2>3. QED
    BY <2>1, <2>2 DEF Folded
<1>2. g = [t \in SUBSET r |-> g[t]]
  OBVIOUS
<1> HIDE DEF g
<1>3. Recursion(c, v, g, r)
  BY <1>1, <1>2 DEF Recursion
<1>4. QED
  BY <1>3 DEF g

LEMMA FoldExists ==
  ASSUME NEW c, NEW v, NEW n \in Nat
  PROVE  \E g : Recursion(c, v, g, 1 .. n)
<1> DEFINE Bad == {s \in SUBSET (1 .. n) : ~\E g : Recursion(c, v, g, s)}
<1> SUFFICES ASSUME Bad # {}
             PROVE  FALSE
  OBVIOUS
<1>1. PICK s \in Bad : \A r \in Bad : ~(r \subseteq s /\ r # s)
  <2> DEFINE S == 1 .. n
  <2>1. Bad \subseteq SUBSET S /\ Bad # {}
    OBVIOUS
  <2>2. IsFiniteSet(S)
    BY FS_Interval
  <2> HIDE DEF Bad, S
  <2>3. QED
    BY <2>1, <2>2, SmallestSet
<1> DEFINE Of(t) == CHOOSE g : Recursion(c, v, g, t)
           h == [t \in SUBSET s |->
                   IF t = {} THEN v
                   ELSE Initialised(Of(t \ {Max(t)})[t \ {Max(t)}], c[Max(t)])]
<1>2. \A r \in SUBSET s : r # s => Recursion(c, v, Of(r), r)
  <2>1. \A r \in SUBSET s : r # s => \E g : Recursion(c, v, g, r)
    BY <1>1
  <2>2. QED
    BY <2>1
<1>3. \A t \in SUBSET s : t # {} => Max(t) \in t
  BY MaxIsMember
<1>4. ASSUME NEW r \in SUBSET s, r # s
      PROVE  h[r] = Of(r)[r]
  <2>1. Of(r)[r] = Folded(c, v, Of(r), r)
    <3>1. Recursion(c, v, Of(r), r)
      BY <1>2, <1>4
    <3> HIDE DEF Of
    <3>2. QED
      BY <3>1 DEF Recursion
  <2>2. CASE r = {}
    <3>1. h[r] = v
      BY <2>2
    <3>2. QED
      BY <2>1, <2>2, <3>1 DEF Folded
  <2>3. CASE r # {}
    <3> DEFINE q == r \ {Max(r)}
    <3>1. q \in SUBSET r /\ q \in SUBSET s /\ q # s /\ q \in SUBSET (1 .. n)
      BY <1>3, <2>3
    <3>2. Recursion(c, v, Of(q), q) /\ Recursion(c, v, Of(r), r)
      BY <1>2, <1>4, <3>1
    <3>3. Recursion(c, v, [t \in SUBSET q |-> Of(r)[t]], q)
      <4> HIDE DEF Of, q
      <4>1. QED
        BY <3>1, <3>2, FoldRestricted
    <3>4. Of(q)[q] = [t \in SUBSET q |-> Of(r)[t]][q]
      <4> DEFINE g == [t \in SUBSET q |-> Of(r)[t]]
      <4> HIDE DEF Of, q, g
      <4>1. Recursion(c, v, g, q)
        BY <3>3 DEF g
      <4>2. Of(q)[q] = g[q]
        <5> DEFINE f == Of(q)
        <5>1. q \in SUBSET (1 .. n) /\ Recursion(c, v, f, q)
          BY <3>1, <3>2
        <5> HIDE DEF f, h
        <5>2. f[q] = g[q]
          BY <4>1, <5>1, FoldsAgree, ZenonT(60)
        <5>3. QED
          BY <5>2 DEF f
      <4>3. QED
        BY <4>2 DEF g
    <3>5. Of(q)[q] = Of(r)[q]
      <4> HIDE DEF Of, q
      <4>1. QED
        BY <3>4
    <3>6. h[r] = Initialised(Of(q)[q], c[Max(r)])
      <4> HIDE DEF Of
      <4>1. QED
        BY <2>3
    <3>7. Of(r)[r] = Initialised(Of(r)[q], c[Max(r)])
      <4> HIDE DEF Of
      <4>1. QED
        BY <2>1, <2>3 DEF Folded
    <3> HIDE DEF Of, h, q
    <3>8. QED
      BY <3>5, <3>6, <3>7
  <2>4. QED
    BY <2>2, <2>3
<1>5. ASSUME NEW t \in SUBSET s
      PROVE  h[t] = Folded(c, v, h, t)
  <2>1. CASE t = {}
    BY <2>1 DEF Folded
  <2>2. CASE t # {}
    <3> DEFINE r == t \ {Max(t)}
    <3>1. r \in SUBSET s /\ r # s
      BY <1>3, <2>2
    <3>2. h[r] = Of(r)[r]
      BY <1>4, <3>1
    <3>3. h[t] = Initialised(Of(r)[r], c[Max(t)])
      <4> HIDE DEF Of
      <4>1. QED
        BY <2>2
    <3> HIDE DEF Of, h
    <3>4. QED
      BY <2>2, <3>2, <3>3 DEF Folded
  <2>3. QED
    BY <2>1, <2>2
<1>6. h = [t \in SUBSET s |-> h[t]]
  <2> HIDE DEF Of
  <2>1. QED
    OBVIOUS
<1>7. Recursion(c, v, h, s)
  <2> HIDE DEF h
  <2>1. QED
    BY <1>5, <1>6 DEF Recursion
<1>8. \E g : Recursion(c, v, g, s)
  <2> HIDE DEF h
  <2>1. QED
    BY <1>7
<1>9. QED
  BY <1>1, <1>8

(* A session is initialised by all the workspaces of the configuration.    *)
LEMMA FoldView ==
  ASSUME NEW s, NEW v, IsView(v, s), NEW c, NEW n \in Nat, DOMAIN c = 1 .. n
  PROVE  IsView(FoldLeft(Initialised, v, c), s)
<1> DEFINE g == CHOOSE f : Recursion(c, v, f, 1 .. n)
           Bad == {t \in SUBSET (1 .. n) : ~IsView(g[t], s)}
<1>1. Recursion(c, v, g, 1 .. n)
  BY FoldExists
<1>2. FoldLeft(Initialised, v, c) = g[1 .. n]
  BY StartIsFold
<1> HIDE DEF g
<1>3. ASSUME Bad # {}
      PROVE  FALSE
  <2>1. PICK t \in Bad : \A r \in Bad : ~(r \subseteq t /\ r # t)
    <3> DEFINE S == 1 .. n
    <3>1. Bad \subseteq SUBSET S /\ Bad # {}
      BY <1>3
    <3>2. IsFiniteSet(S)
      BY FS_Interval
    <3> HIDE DEF Bad, S
    <3>3. QED
      BY <3>1, <3>2, SmallestSet
  <2>2. g[t] = Folded(c, v, g, t)
    BY <1>1 DEF Recursion
  <2>3. t # {}
    BY <2>2 DEF Folded
  <2>4. Max(t) \in t
    BY <2>3, MaxIsMember
  <2>5. IsView(g[t \ {Max(t)}], s)
    BY <2>1, <2>4
  <2>6. QED
    BY <2>2, <2>3, <2>5, InitialisedView DEF Folded
<1>4. QED
  BY <1>2, <1>3

--------------------------------------------------------------------------------
(* The inductive invariant: every session in memory or in the store has    *)
(* its shape, and the two agree after a call that was answered.            *)
Shaped ==
  /\ config \in Configs
  /\ session = [s \in SessionIds |-> session[s]]
  /\ saved = [s \in SessionIds |-> saved[s]]
  /\ dicts = [i \in SessionIds \cup {Default} |-> dicts[i]]
  /\ \A s \in SessionIds :
       /\ session[s] # None => IsScalars(session[s], s)
       /\ IsDicts(dicts[s])
       /\ saved[s] # None => IsView(saved[s], s)

IInv == Shaped /\ AnsweredIsSaved

(* What a handler comes to: it saves, it raises, or it leaves nothing that *)
(* lasts.                                                                  *)
Handled(s) ==
  \E v : /\ IsView(v, s)
         /\ \/ Save(s, v)
            \/ Raise(s, v)
            \/ Leave(s, v) /\ session[s] # None /\ Lasting(v) = Lasting(View(s))

LEMMA ScalarsDicts ==
  ASSUME NEW s, NEW x, IsScalars(x, s)
  PROVE  x.dicts = s
<1> DEFINE r == [workspace |-> x.workspace, dicts |-> s, set |-> x.set, windows |-> x.windows]
<1>1. r.dicts = s
  OBVIOUS
<1>2. x = r
  BY DEF IsScalars
<1> HIDE DEF r
<1>3. QED
  BY <1>1, <1>2

LEMMA ViewShaped ==
  ASSUME Shaped, NEW s \in SessionIds, session[s] # None
  PROVE  /\ IsView(View(s), s)
         /\ View(s).scalars = session[s] /\ View(s).dicts = dicts[s]
<1>1. session[s].dicts = s
  BY ScalarsDicts DEF Shaped
<1>2. View(s) = [scalars |-> session[s], dicts |-> dicts[s]]
  BY <1>1 DEF View
<1>3. IsScalars(session[s], s) /\ IsDicts(dicts[s])
  BY DEF Shaped
<1>4. QED
  BY <1>2, <1>3 DEF IsView

(* A request touches the session it is for and no other: no dictionary is  *)
(* shared.                                                                 *)
LEMMA PutShaped ==
  ASSUME Shaped, NEW s \in SessionIds, NEW v, IsView(v, s), Put(s, v)
  PROVE  /\ session' = [session EXCEPT ![s] = v.scalars]
         /\ dicts' = [dicts EXCEPT ![s] = v.dicts]
         /\ session'[s] # None => View(s)' = v
         /\ \A t \in SessionIds \ {s} : session[t]' = session[t]
                                        /\ (session[t] # None => View(t)' = View(t))
<1>1. v.scalars.dicts = s
  BY DEF IsView, IsScalars
<1>2. session' = [session EXCEPT ![s] = v.scalars] /\ dicts' = [dicts EXCEPT ![s] = v.dicts]
  BY <1>1 DEF Put
<1>3. session'[s] = v.scalars /\ dicts'[s] = v.dicts
  BY <1>2 DEF Shaped
<1>4. session'[s] # None => View(s)' = v
  BY <1>1, <1>3 DEF View, IsView
<1>5. ASSUME NEW t \in SessionIds \ {s}
      PROVE  session[t]' = session[t] /\ (session[t] # None => View(t)' = View(t))
  <2>1. session'[t] = session[t] /\ dicts'[t] = dicts[t]
    BY <1>2 DEF Shaped
  <2>2. session[t] # None => session[t].dicts = t
    BY ScalarsDicts DEF Shaped
  <2>3. QED
    BY <2>1, <2>2 DEF View
<1>6. QED
  BY <1>2, <1>4, <1>5

LEMMA HandledKeeps ==
  ASSUME IInv, NEW s \in SessionIds, Handled(s)
  PROVE  IInv'
<1>1. PICK v : /\ IsView(v, s)
               /\ \/ Save(s, v)
                  \/ Raise(s, v)
                  \/ Leave(s, v) /\ session[s] # None /\ Lasting(v) = Lasting(View(s))
  BY DEF Handled
<1>2. Put(s, v) /\ config' = config
  BY <1>1 DEF Save, Raise, Leave
<1>3. /\ session' = [session EXCEPT ![s] = v.scalars]
      /\ dicts' = [dicts EXCEPT ![s] = v.dicts]
      /\ session'[s] # None => View(s)' = v
      /\ \A t \in SessionIds \ {s} : session[t]' = session[t]
                                     /\ (session[t] # None => View(t)' = View(t))
  BY <1>1, <1>2, PutShaped DEF IInv
<1>4. saved' = saved \/ saved' = [saved EXCEPT ![s] = v]
  BY <1>1 DEF Save, Raise, Leave
<1>5. Shaped'
  <2>1. /\ config' \in Configs
        /\ session' = [t \in SessionIds |-> session'[t]]
        /\ saved' = [t \in SessionIds |-> saved'[t]]
        /\ dicts' = [i \in SessionIds \cup {Default} |-> dicts'[i]]
    BY <1>2, <1>3, <1>4 DEF IInv, Shaped
  <2>2. \A t \in SessionIds :
          /\ session'[t] = IF t = s THEN v.scalars ELSE session[t]
          /\ dicts'[t] = IF t = s THEN v.dicts ELSE dicts[t]
          /\ (saved'[t] = saved[t] \/ (t = s /\ saved'[t] = v))
    BY <1>3, <1>4 DEF IInv, Shaped
  <2>3. \A t \in SessionIds :
          /\ session'[t] # None => IsScalars(session'[t], t)
          /\ IsDicts(dicts'[t])
          /\ saved'[t] # None => IsView(saved'[t], t)
    BY <1>1, <2>2, SMTT(30) DEF IInv, Shaped, IsView
  <2>4. QED
    BY <2>1, <2>3 DEF Shaped, IsScalars, IsDicts, IsView
<1>6. AnsweredIsSaved'
  <2>1. ASSUME NEW t \in SessionIds, session'[t] # None, t \notin failed'
        PROVE  Lasting(View(t)') = Lasting(saved'[t])
    <3>1. CASE t # s
      <4>1. session[t] # None /\ View(t)' = View(t) /\ saved'[t] = saved[t] /\ t \notin failed
        BY <1>1, <1>3, <2>1, <3>1 DEF IInv, Shaped, Save, Raise, Leave
      <4>2. QED
        BY <4>1 DEF IInv, AnsweredIsSaved
    <3>2. CASE t = s
      <4>1. View(t)' = v
        BY <1>3, <2>1, <3>2
      <4>2. CASE Save(s, v)
        <5>1. saved'[t] = v
          BY <3>2, <4>2 DEF Save, IInv, Shaped
        <5>2. QED
          BY <4>1, <5>1
      <4>3. CASE Raise(s, v)
        BY <2>1, <3>2, <4>3 DEF Raise
      <4>4. CASE Leave(s, v) /\ session[s] # None /\ Lasting(v) = Lasting(View(s))
        <5>1. saved' = saved /\ s \notin failed
          BY <2>1, <3>2, <4>4 DEF Leave
        <5>2. QED
          BY <3>2, <4>1, <4>4, <5>1 DEF IInv, AnsweredIsSaved
      <4>5. QED
        BY <1>1, <4>2, <4>3, <4>4
    <3>3. QED
      BY <3>1, <3>2
  <2>2. QED
    BY <2>1 DEF AnsweredIsSaved, Lasting
<1>7. QED
  BY <1>5, <1>6 DEF IInv

--------------------------------------------------------------------------------
(* Sessions that differ in the position of the slide show only are alike   *)
(* in what lasts.                                                          *)
LEMMA LastingScalars ==
  ASSUME NEW s, NEW x, IsScalars(x, s), NEW y,
         y = [x EXCEPT !.set["playpos"] = "0", !.dicts = Default]
  PROVE  y = [workspace |-> x.workspace, dicts |-> Default,
              set |-> [x.set EXCEPT !["playpos"] = "0"], windows |-> x.windows]
<1> DEFINE a == [x.set EXCEPT !["playpos"] = "0"]
<1>1. y = [x EXCEPT !.set = a, !.dicts = Default]
  BY DEF IsScalars
<1> HIDE DEF a
<1>2. y.workspace = x.workspace /\ y.windows = x.windows /\ y.set = a /\ y.dicts = Default
  BY <1>1 DEF IsScalars
<1>3. y = [workspace |-> y.workspace, dicts |-> y.dicts, set |-> y.set, windows |-> y.windows]
  BY <1>1 DEF IsScalars
<1>4. QED
  BY <1>2, <1>3 DEF a

LEMMA LastingParts ==
  ASSUME NEW s, NEW v, IsView(v, s)
  PROVE  Lasting(v) =
            [scalars |-> [v.scalars EXCEPT !.set["playpos"] = "0", !.dicts = Default],
             dicts |-> v.dicts]
<1>1. Lasting(v) = [v EXCEPT !.scalars = [@ EXCEPT !.set["playpos"] = "0", !.dicts = Default]]
  BY DEF IsView, Lasting
<1>2. Lasting(v).dicts = v.dicts
  BY <1>1 DEF IsView
<1>3. Lasting(v).scalars = [v.scalars EXCEPT !.set["playpos"] = "0", !.dicts = Default]
  BY <1>1 DEF IsView
<1>4. Lasting(v) = [scalars |-> Lasting(v).scalars, dicts |-> Lasting(v).dicts]
  BY <1>1 DEF IsView
<1>5. QED
  BY <1>2, <1>3, <1>4

LEMMA LastingSame ==
  ASSUME NEW s, NEW u, NEW v, IsView(u, s), IsView(v, s), u.dicts = v.dicts,
         u.scalars.workspace = v.scalars.workspace,
         u.scalars.windows = v.scalars.windows,
         \A q \in Scalars \ {"playpos"} : u.scalars.set[q] = v.scalars.set[q]
  PROVE  Lasting(u) = Lasting(v)
<1> DEFINE At0(z) == [z EXCEPT !["playpos"] = "0"]
           X(z) == [z.scalars EXCEPT !.set["playpos"] = "0", !.dicts = Default]
<1>1. At0(u.scalars.set) = At0(v.scalars.set)
  <2>1. /\ u.scalars.set = [p \in Scalars |-> u.scalars.set[p]]
        /\ v.scalars.set = [p \in Scalars |-> v.scalars.set[p]]
    BY DEF IsView, IsScalars
  <2>2. QED
    BY <2>1
<1>2. ASSUME NEW z, IsView(z, s)
      PROVE  X(z) = [workspace |-> z.scalars.workspace, dicts |-> Default,
                     set |-> At0(z.scalars.set), windows |-> z.scalars.windows]
  <2> DEFINE y == X(z)
             x == z.scalars
  <2>1. IsScalars(x, s) /\ y = [x EXCEPT !.set["playpos"] = "0", !.dicts = Default]
    BY <1>2 DEF IsView
  <2> HIDE DEF x, y
  <2>2. y = [workspace |-> x.workspace, dicts |-> Default,
             set |-> [x.set EXCEPT !["playpos"] = "0"], windows |-> x.windows]
    BY <2>1, LastingScalars
  <2>3. QED
    BY <2>2 DEF x, y
<1>3. X(u) = X(v)
  <2> HIDE DEF At0, X
  <2>1. QED
    BY <1>1, <1>2
<1>4. ASSUME NEW z, IsView(z, s)
      PROVE  Lasting(z) = [scalars |-> X(z), dicts |-> z.dicts]
  BY <1>4, LastingParts
<1>5. QED
  <2> HIDE DEF X
  <2>1. QED
    BY <1>3, <1>4

(* The handlers, one by one.                                               *)
LEMMA SavesHandled ==
  ASSUME NEW s, NEW v, IsView(v, s), Save(s, v) \/ Raise(s, v)
  PROVE  Handled(s)
BY DEF Handled

LEMMA StaysHandled ==
  ASSUME Shaped, NEW s \in SessionIds, session[s] # None,
         Leave(s, View(s)) \/ Raise(s, View(s))
  PROVE  Handled(s)
BY ViewShaped DEF Handled

LEMMA SetThenSaveHandled ==
  ASSUME Shaped, NEW s \in SessionIds, session[s] # None, NEW w, NEW args,
         SetThenSave(s, w, args)
  PROVE  Handled(s)
<1> DEFINE u == Assign(View(s), w, args)
<1>1. IsView(u, s)
  BY ViewShaped, AssignView
<1>2. Save(s, u) \/ Raise(s, u)
  BY DEF SetThenSave
<1> HIDE DEF u
<1>3. QED
  BY <1>1, <1>2, SavesHandled

LEMMA SwitchHandled ==
  ASSUME Shaped, NEW s \in SessionIds, session[s] # None, NEW args,
         SwitchWorkspace(s, args)
  PROVE  Handled(s)
<1> DEFINE v == WithSet(View(s), "submenu", "data")
<1>1. IsView(v, s)
  BY ViewShaped, SetView
<1>2. \E name : Save(s, Switched(v, name))
  BY Zenon DEF SwitchWorkspace, WithSet
<1> HIDE DEF v
<1>3. QED
  BY <1>1, <1>2, SwitchedView, SavesHandled

LEMMA SwitchToHandled ==
  ASSUME Shaped, NEW s \in SessionIds, session[s] # None, NEW w, NEW hidden, NEW args,
         SwitchTo(s, w, hidden, args)
  PROVE  Handled(s)
<1> DEFINE u == Assign(View(s), w, args)
<1>1. IsView(u, s)
  BY ViewShaped, AssignView
<1>2. Save(s, Switched(u, hidden)) \/ Raise(s, u)
  BY DEF SwitchTo
<1> HIDE DEF u
<1>3. QED
  BY <1>1, <1>2, SwitchedView, SavesHandled

LEMMA ReturnHandled ==
  ASSUME Shaped, NEW s \in SessionIds, session[s] # None, NEW w,
         Return(s, w) \/ StopPlay(s, w)
  PROVE  Handled(s)
<1> DEFINE v == View(s)
<1>1. IsView(v, s)
  BY ViewShaped
<1>2. \E prevws : Save(s, Returned(v, prevws))
  BY Zenon DEF Return, StopPlay
<1> HIDE DEF v
<1>3. QED
  BY <1>1, <1>2, ReturnedView, SavesHandled

LEMMA SelectHandled ==
  ASSUME Shaped, NEW s \in SessionIds, session[s] # None, NEW w, NEW args,
         Select(s, w, args)
  PROVE  Handled(s)
<1> DEFINE ps == Renamed([type |-> "sampletype", importversion |-> "sampleimportversion",
                          dataset |-> "dataset", runnr |-> "runnr"], Nothing, args)
           v == View(s)
           u == Assign(v, w, ps)
<1>1. IsView(v, s)
  BY ViewShaped
<1>2. Raise(s, v) \/ Save(s, Returned(u, "sampleprevws")) \/ Raise(s, u)
  BY DEF Select
<1> HIDE DEF v, ps
<1>3. IsView(u, s)
  BY <1>1, AssignView
<1> HIDE DEF u
<1>4. IsView(Returned(u, "sampleprevws"), s)
  BY <1>3, ReturnedView
<1>5. QED
  BY <1>1, <1>2, <1>3, <1>4, SavesHandled

(* A step of the slide show changes its position and nothing else.         *)
LEMMA StepHandled ==
  ASSUME Shaped, NEW s \in SessionIds, session[s] # None, NEW w, NEW args,
         StepPlay(s, w, args)
  PROVE  Handled(s)
<1> DEFINE ps == [playpos |-> Argument(args, "pos", Junk)]
           v == View(s)
           u == Assign(v, w, ps)
<1>1. IsView(v, s)
  BY ViewShaped
<1>2. (Leave(s, u) /\ Succeeds(v, w, ps)) \/ Raise(s, v)
  BY DEF StepPlay
<1>3. DOMAIN ps = {"playpos"}
  OBVIOUS
<1> HIDE DEF v, ps
<1>4. IsView(u, s)
  BY <1>1, AssignView
<1>5. ASSUME Succeeds(v, w, ps)
      PROVE  Lasting(u) = Lasting(v)
  <2>1. Accepted(v, w, ps) = {"playpos"}
    BY <1>3, <1>5 DEF Accepted, Succeeds
  <2>2. /\ u.scalars.workspace = v.scalars.workspace
        /\ u.scalars.set = [p \in Scalars |-> IF p = "playpos" THEN Kept(p, ps[p])
                                              ELSE v.scalars.set[p]]
    BY <1>1, <2>1 DEF Assign, IsView, IsScalars
  <2>3. u.scalars.windows = v.scalars.windows
    <3>1. u.scalars.windows = [x \in Windows |-> v.scalars.windows[x]]
      BY <1>1, <2>1 DEF Assign, IsView, IsScalars, Zooms
    <3>2. QED
      BY <1>1, <3>1 DEF IsView, IsScalars
  <2>4. u.dicts = v.dicts
    <3>1. u.dicts.reference = [p \in References |-> v.dicts.reference[p]]
      BY <1>1, <2>1 DEF Assign, IsView, IsDicts, References
    <3>2. /\ u.dicts.root = v.dicts.root /\ u.dicts.focus = v.dicts.focus
          /\ u.dicts.drawopts = v.dicts.drawopts /\ u.dicts.myobjs = v.dicts.myobjs
      BY <1>1, <2>1 DEF Assign, IsView, IsDicts
    <3>3. u.dicts.reference = v.dicts.reference
      BY <1>1, <3>1 DEF IsView, IsDicts
    <3> HIDE DEF u
    <3>4. QED
      BY <1>1, <1>4, <3>2, <3>3 DEF IsView, IsDicts
  <2> HIDE DEF u
  <2>5. QED
    BY <1>1, <1>4, <2>2, <2>3, <2>4, LastingSame
<1> HIDE DEF u
<1>6. QED
  BY <1>1, <1>2, <1>4, <1>5 DEF Handled, v

LEMMA SetRootHandled ==
  ASSUME Shaped, NEW s \in SessionIds, session[s] # None, NEW w, NEW args,
         SetRoot(s, w, args)
  PROVE  Handled(s)
<1> DEFINE ps == [root |-> Argument(args, "n", "")]
           v == View(s)
           u == Assign(v, w, ps)
<1>1. IsView(v, s)
  BY ViewShaped
<1>2. \/ Raise(s, v) \/ Leave(s, v) \/ Raise(s, u)
      \/ \E a : Save(s, WithFocus(u, a))
  BY Zenon DEF SetRoot, WithFocus
<1> HIDE DEF v, ps
<1>3. IsView(u, s)
  BY <1>1, AssignView
<1> HIDE DEF u
<1>4. QED
  BY <1>1, <1>2, <1>3, DictsView, SavesHandled, StaysHandled DEF v

LEMMA ShowStateHandled ==
  ASSUME Shaped, NEW s \in SessionIds, session[s] # None, NEW w, ShowState(s, w)
  PROVE  Handled(s)
<1>1. IsView(View(s), s)
  BY ViewShaped
<1>2. Leave(s, View(s)) \/ \E a : Save(s, WithRoot(View(s), a))
  BY Zenon DEF ShowState, WithRoot
<1>3. QED
  BY <1>1, <1>2, DictsView, SavesHandled, StaysHandled

(* What sessionResetWorkspace puts back, parameter by parameter.           *)
LEMMA ResetHandled ==
  ASSUME Shaped, NEW s \in SessionIds, session[s] # None, NEW w, Reset(s, w)
  PROVE  Handled(s)
<1> DEFINE v == View(s)
           x == WithSet(WithSet(WithSet(v, "playprevws", ""), "playpos", "0"), "size", "M")
           r == [scalars |-> [v.scalars EXCEPT !.set["playprevws"] = "",
                                 !.set["playpos"] = "0", !.set["size"] = "M"],
                 dicts |-> [v.dicts EXCEPT !.focus = Without(@, w),
                               !.drawopts = Without(@, w), !.myobjs = Without(@, w)]]
<1>1. IsView(v, s)
  BY ViewShaped
<1>2. Save(s, Initialised(r, w))
  BY DEF Reset
<1> HIDE DEF v
<1>3. IsView(x, s)
  BY <1>1, SetView
<1>4. r.scalars = x.scalars
  BY <1>1 DEF WithSet, IsView
<1>5. IsScalars(r.scalars, s)
  <2> HIDE DEF x, r
  <2>1. QED
    BY <1>3, <1>4 DEF IsView
<1>6. IsDicts(r.dicts)
  <2> DEFINE d == r.dicts
  <2>1. d.reference = v.dicts.reference
    BY <1>1 DEF IsView, IsDicts
  <2>2. d = [reference |-> d.reference, root |-> d.root, focus |-> d.focus,
             drawopts |-> d.drawopts, myobjs |-> d.myobjs]
    BY <1>1 DEF IsView, IsDicts
  <2> HIDE DEF d
  <2>3. IsDicts(d)
    BY <1>1, <2>1, <2>2 DEF IsView, IsDicts
  <2>4. QED
    BY <2>3 DEF d
<1>7. r = [scalars |-> r.scalars, dicts |-> r.dicts]
  OBVIOUS
<1> HIDE DEF r
<1>8. QED
  BY <1>2, <1>5, <1>6, <1>7, InitialisedView, SavesHandled DEF IsView

LEMMA AlterImageHandled ==
  ASSUME Shaped, NEW s \in SessionIds, session[s] # None, NEW w, NEW args,
         AlterImage(s, w, args)
  PROVE  Handled(s)
<1> DEFINE v == View(s)
<1>1. IsView(v, s)
  BY ViewShaped
<1>2. Raise(s, v) \/ \E o, opt, val : Save(s, Altered(v, w, o, opt, val))
  BY Zenon DEF AlterImage
<1> HIDE DEF v
<1>3. QED
  BY <1>1, <1>2, AlteredView, SavesHandled

LEMMA MoveWindowHandled ==
  ASSUME Shaped, NEW s \in SessionIds, session[s] # None, NEW window, NEW args,
         MoveWindow(s, window, args)
  PROVE  Handled(s)
<1> DEFINE v == View(s)
           u == Moved(v, window, args).v
<1>1. IsView(v, s)
  BY ViewShaped
<1>2. Save(s, u) \/ Raise(s, u)
  BY DEF MoveWindow
<1> HIDE DEF v
<1>3. IsView(u, s)
  BY <1>1, MovedView
<1> HIDE DEF u
<1>4. QED
  BY <1>2, <1>3, SavesHandled

LEMMA PanelHandled ==
  ASSUME Shaped, NEW s \in SessionIds, session[s] # None, NEW args, Panel(s, args)
  PROVE  Handled(s)
BY MoveWindowHandled, StaysHandled DEF Panel

LEMMA SetModeHandled ==
  ASSUME Shaped, NEW s \in SessionIds, session[s] # None, NEW mode, NEW args,
         SetMode(s, mode, args)
  PROVE  Handled(s)
<1> DEFINE v == View(s)
<1>1. IsView(v, s)
  BY ViewShaped
<1>2. Save(s, v) \/ \E a : Save(s, WithWindow(v, "zoom", a))
  BY Zenon DEF SetMode, WithWindow
<1> HIDE DEF v
<1>3. QED
  BY <1>1, <1>2, WindowView, SavesHandled

LEMMA ChangeRunHandled ==
  ASSUME Shaped, NEW s \in SessionIds, session[s] # None, ChangeRun(s)
  PROVE  Handled(s)
<1> DEFINE v == View(s)
<1>1. IsView(v, s)
  BY ViewShaped
<1>2. \E r : Save(s, WithSet(v, "runnr", r))
  BY DEF ChangeRun, WithSet
<1> HIDE DEF v
<1>3. QED
  BY <1>1, <1>2, SetView, SavesHandled

(* Every method of every workspace.                                        *)
LEMMA CallHandled ==
  ASSUME Shaped, NEW s \in SessionIds, session[s] # None, NEW r, Call(s, r)
  PROVE  Handled(s)
<1> DEFINE w == Workspace(session[s].workspace)
           args == r.args
<1> HIDE DEF w, args
<1>1. CASE SetParameters(s, w, r.method, args)
  BY <1>1, SetThenSaveHandled DEF SetParameters
<1>2. CASE SwitchWorkspace(s, args)
  BY <1>2, SwitchHandled
<1>3. CASE ChooseSample(s, w, args) \/ Play(s, w, args)
  BY <1>3, SwitchToHandled DEF ChooseSample, Play
<1>4. CASE Return(s, w) \/ StopPlay(s, w)
  BY <1>4, ReturnHandled
<1>5. CASE Modify(s, w, args) \/ Interval(s, w, args) \/ SetFocus(s, w, args)
  BY <1>5, SetThenSaveHandled DEF Modify, Interval, SetFocus
<1>6. CASE Select(s, w, args)
  BY <1>6, SelectHandled
<1>7. CASE StepPlay(s, w, args)
  BY <1>7, StepHandled
<1>8. CASE SetRoot(s, w, args)
  BY <1>8, SetRootHandled
<1>9. CASE ShowState(s, w)
  BY <1>9, ShowStateHandled
<1>10. CASE Reset(s, w)
  BY <1>10, ResetHandled
<1>11. CASE AlterImage(s, w, args)
  BY <1>11, AlterImageHandled
<1>12. CASE Panel(s, args)
  BY <1>12, PanelHandled
<1>13. CASE SetZoom(s, args) \/ SetCertZoom(s, args) \/ SetJsonZoom(s, args)
  BY <1>13, MoveWindowHandled DEF SetZoom, SetCertZoom, SetJsonZoom
<1>14. CASE SetMode(s, "jsonmode", args) \/ SetMode(s, "jsrootmode", args)
  BY <1>14, SetModeHandled
<1>15. CASE ChangeRun(s)
  BY <1>15, ChangeRunHandled
<1>16. QED
  BY <1>1, <1>2, <1>3, <1>4, <1>5, <1>6, <1>7, <1>8, <1>9, <1>10, <1>11, <1>12,
     <1>13, <1>14, <1>15 DEF Call, w, args

--------------------------------------------------------------------------------
(* A start that raises leaves no session; one that does not has saved it.  *)
LEMMA StartHandled ==
  ASSUME Shaped, NEW s \in SessionIds, NEW name, NEW args, Start(s, name, args)
  PROVE  Handled(s) \/ UNCHANGED <<config, session, dicts, saved, failed>>
<1> DEFINE x == NewScalars(s)
           new == [scalars |-> x, dicts |-> dicts[x.dicts]]
           v == FoldLeft(Initialised, new, config)
           w == Workspace(name)
           y == WithWorkspace(v, w)
<1>1. PICK r \in Runs :
        LET u == WithSet(y, "runnr", r) IN
        Save(s, Assign(u, w, args)) \/ UNCHANGED <<config, session, dicts, saved, failed>>
  <2>1. \A r : [v EXCEPT !.scalars.workspace = w, !.scalars.set["runnr"] = r]
               = WithSet(y, "runnr", r)
    BY DEF WithSet, WithWorkspace
  <2>2. QED
    BY <2>1 DEF Start
<1>2. IsView(new, s)
  <2>1. x.dicts = s
    BY DEF NewScalars
  <2>2. IsScalars(x, s)
    BY DEF NewScalars, IsScalars, InitialScalars
  <2>3. IsDicts(dicts[x.dicts])
    BY <2>1 DEF Shaped
  <2> HIDE DEF x
  <2>4. QED
    BY <2>2, <2>3 DEF IsView
<1>3. Len(config) \in Nat /\ DOMAIN config = 1 .. Len(config)
  <2>1. config \in Seq(Workspaces)
    BY WorkspacesAssumption DEF Shaped
  <2>2. QED
    BY <2>1
<1> HIDE DEF new
<1>4. IsView(v, s)
  <2> DEFINE n == Len(config)
  <2>1. n \in Nat /\ DOMAIN config = 1 .. n
    BY <1>3
  <2> HIDE DEF n
  <2>2. QED
    BY <1>2, <2>1, FoldView
<1> HIDE DEF v, w
<1>5. IsView(y, s)
  BY <1>4, WorkspaceView
<1> HIDE DEF y
<1> DEFINE u == WithSet(y, "runnr", r)
<1>6. IsView(u, s)
  BY <1>5, SetView
<1>7. Save(s, Assign(u, w, args)) \/ UNCHANGED <<config, session, dicts, saved, failed>>
  BY <1>1
<1> HIDE DEF u
<1>8. QED
  BY <1>6, <1>7, AssignView, SavesHandled

LEMMA LoadKeeps ==
  ASSUME IInv, NEW s \in SessionIds, Load(s)
  PROVE  IInv'
<1> DEFINE v == saved[s]
<1>1. IsView(v, s) /\ session[s] = None /\ v # None
  BY DEF Load, IInv, Shaped
<1>2. [v EXCEPT !.scalars.dicts = s] = v
  <2>1. v.scalars.dicts = s
    BY <1>1, ScalarsDicts DEF IsView
  <2>2. [v.scalars EXCEPT !.dicts = s] = v.scalars
    BY <1>1, <2>1 DEF IsView, IsScalars
  <2>3. QED
    BY <1>1, <2>2 DEF IsView
<1>3. Put(s, v) /\ UNCHANGED <<config, saved, failed>>
  BY <1>2 DEF Load
<1>4. /\ session' = [session EXCEPT ![s] = v.scalars]
      /\ dicts' = [dicts EXCEPT ![s] = v.dicts]
      /\ session'[s] # None => View(s)' = v
      /\ \A t \in SessionIds \ {s} : session[t]' = session[t]
                                     /\ (session[t] # None => View(t)' = View(t))
  <2> HIDE DEF v
  <2>1. QED
    BY <1>1, <1>3, PutShaped DEF IInv
<1>5. Shaped'
  <2>1. /\ config' \in Configs
        /\ session' = [t \in SessionIds |-> session'[t]]
        /\ saved' = [t \in SessionIds |-> saved'[t]]
        /\ dicts' = [i \in SessionIds \cup {Default} |-> dicts'[i]]
    BY <1>3, <1>4 DEF IInv, Shaped
  <2>2. \A t \in SessionIds :
          /\ session'[t] = IF t = s THEN v.scalars ELSE session[t]
          /\ dicts'[t] = IF t = s THEN v.dicts ELSE dicts[t]
          /\ saved'[t] = saved[t]
    BY <1>3, <1>4 DEF IInv, Shaped
  <2>3. \A t \in SessionIds :
          /\ session'[t] # None => IsScalars(session'[t], t)
          /\ IsDicts(dicts'[t])
          /\ saved'[t] # None => IsView(saved'[t], t)
    BY <1>1, <2>2, SMTT(30) DEF IInv, Shaped, IsView
  <2>4. QED
    BY <2>1, <2>3 DEF Shaped, IsScalars, IsDicts, IsView
<1>6. AnsweredIsSaved'
  <2>1. ASSUME NEW t \in SessionIds, session'[t] # None, t \notin failed'
        PROVE  Lasting(View(t)') = Lasting(saved'[t])
    <3>1. saved'[t] = saved[t] /\ failed' = failed
      BY <1>3
    <3>2. CASE t = s
      BY <1>4, <2>1, <3>1, <3>2
    <3>3. CASE t # s
      <4>1. session[t] # None /\ View(t)' = View(t)
        BY <1>4, <2>1, <3>3
      <4>2. QED
        BY <2>1, <3>1, <4>1 DEF IInv, AnsweredIsSaved
    <3>4. QED
      BY <3>2, <3>3
  <2>2. QED
    BY <2>1 DEF AnsweredIsSaved, Lasting
<1>7. QED
  BY <1>5, <1>6 DEF IInv

LEMMA InitialDictsAreDicts == IsDicts(InitialDicts)
BY DEF IsDicts, InitialDicts

LEMMA InitShaped == Init => IInv
<1> SUFFICES ASSUME Init
             PROVE  IInv
  OBVIOUS
<1>1. Shaped
  <2> HIDE DEF InitialDicts
  <2>1. QED
    BY InitialDictsAreDicts DEF Init, Shaped
<1>2. AnsweredIsSaved
  BY DEF Init, AnsweredIsSaved
<1>3. QED
  BY <1>1, <1>2 DEF IInv

LEMMA RestartKeeps ==
  ASSUME IInv, Restart
  PROVE  IInv'
<1>1. Shaped'
  <2> DEFINE d == InitialDicts
  <2>1. IsDicts(d)
    BY InitialDictsAreDicts
  <2>2. /\ config' \in Configs
        /\ session' = [s \in SessionIds |-> None]
        /\ saved' = saved
        /\ dicts' = [i \in SessionIds \cup {Default} |-> d]
    BY DEF Restart
  <2> HIDE DEF d
  <2>3. QED
    BY <2>1, <2>2 DEF IInv, Shaped, IsScalars, IsDicts, IsView
<1>2. AnsweredIsSaved'
  BY DEF Restart, AnsweredIsSaved
<1>3. QED
  BY <1>1, <1>2 DEF IInv

LEMMA NextKeeps ==
  ASSUME IInv, [Next]_vars
  PROVE  IInv'
<1>1. ASSUME UNCHANGED <<config, session, dicts, saved, failed>>
      PROVE  IInv'
  <2>1. Shaped'
    BY <1>1 DEF IInv, Shaped
  <2>2. \A s \in SessionIds : View(s)' = View(s)
    BY <1>1, SMTT(30) DEF View
  <2>3. AnsweredIsSaved'
    BY <1>1, <2>2 DEF IInv, AnsweredIsSaved, Lasting
  <2>4. QED
    BY <2>1, <2>3 DEF IInv
<1>2. ASSUME NEW s \in SessionIds, NEW r \in user, r.method = "start",
             Start(s, r.name, r.args)
      PROVE  IInv'
  BY <1>1, <1>2, StartHandled, HandledKeeps DEF IInv
<1>3. ASSUME NEW s \in SessionIds, NEW r \in user, session[s] # None, Call(s, r)
      PROVE  IInv'
  BY <1>3, CallHandled, HandledKeeps DEF IInv
<1>4. ASSUME NEW s \in SessionIds, Load(s)
      PROVE  IInv'
  BY <1>4, LoadKeeps
<1>5. CASE Restart
  BY <1>5, RestartKeeps
<1>6. CASE UNCHANGED vars
  BY <1>1, <1>6 DEF vars
<1>7. QED
  BY <1>2, <1>3, <1>4, <1>5, <1>6 DEF Next

(* Every session in memory, every dictionary and every saved session keeps *)
(* the parameters of sessiondef and no others, and the dictionaries it     *)
(* changes are its own, for all users, configurations and parameter values *)
(* (DQM/GUI.py, _set and the session methods).                             *)
THEOREM SessionsShaped == Spec => []Shaped
<1>1. Init => IInv
  BY InitShaped
<1>2. IInv /\ [Next]_vars => IInv'
  BY NextKeeps
<1>3. IInv => Shaped
  BY DEF IInv
<1>4. QED
  BY <1>1, <1>2, <1>3, PTL DEF Spec

(* A session whose last call was answered is what a server that starts     *)
(* again would show: no handler of DQM/GUI.py changes a session and        *)
(* answers without handing it to the store, except for the position of the *)
(* slide show.                                                             *)
THEOREM AnswersKept == Spec => []AnsweredIsSaved
<1>1. Init => IInv
  BY InitShaped
<1>2. IInv /\ [Next]_vars => IInv'
  BY NextKeeps
<1>3. IInv => AnsweredIsSaved
  BY DEF IInv
<1>4. QED
  BY <1>1, <1>2, <1>3, PTL DEF Spec

--------------------------------------------------------------------------------
(* The way back from the hidden workspaces.                                *)
LEMMA WorkspacesKnown ==
  ASSUME config \in Configs
  PROVE  /\ \A n : Workspace(Workspace(n)) = Workspace(n)
         /\ Workspace(Forgotten) = config[1]
         /\ Kind[config[1]] \notin {"sample", "play"}
<1>1. config \in Seq(Workspaces) /\ config # <<>>
  BY WorkspacesAssumption
<1>2. config[1] \in Range(config)
  BY <1>1 DEF Range
<1>3. "" \notin Range(config)
  <2>1. \A i \in DOMAIN config : config[i] \in Workspaces
    BY <1>1
  <2>2. QED
    BY <2>1, WorkspacesAssumption DEF Range
<1>4. Kind[config[1]] \notin {"sample", "play"}
  BY WorkspacesAssumption
<1>5. QED
  BY <1>2, <1>3, <1>4 DEF Workspace, Forgotten

KindOf(v) == Kind[Workspace(v.scalars.workspace)]
SampleBefore(v) == v.scalars.set["sampleprevws"]
PlayBefore(v) == v.scalars.set["playprevws"]

LEMMA RemembersWorkspaces ==
  "sampleprevws" \in Scalars /\ "playprevws" \in Scalars
<1>1. /\ 3 \in DOMAIN Order /\ Order[3] = "sampleprevws"
      /\ 28 \in DOMAIN Order /\ Order[28] = "playprevws"
  BY DEF Order
<1>2. "sampleprevws" \in Range(Order) /\ "playprevws" \in Range(Order)
  <2> HIDE DEF Order
  <2>1. QED
    BY <1>1 DEF Range
<1>3. QED
  BY <1>2 DEF Scalars, References, OfWorkspace, Zooms

LEMMA PressedLeads ==
  ASSUME NEW s, NEW v, IsView(v, s), config \in Configs
  PROVE  /\ IsView(Pressed(v), s)
         /\ KindOf(v) = "sample" =>
              /\ KindOf(Pressed(v)) = Kind[Workspace(SampleBefore(v))]
              /\ SampleBefore(Pressed(v)) = Forgotten /\ PlayBefore(Pressed(v)) = PlayBefore(v)
         /\ KindOf(v) = "play" =>
              /\ KindOf(Pressed(v)) = Kind[Workspace(PlayBefore(v))]
              /\ PlayBefore(Pressed(v)) = Forgotten /\ SampleBefore(Pressed(v)) = SampleBefore(v)
         /\ KindOf(v) \notin {"sample", "play"} => Pressed(v) = v
<1>1. CASE KindOf(v) = "sample"
  <2> DEFINE u == Returned(v, "sampleprevws")
  <2>1. Pressed(v) = u
    BY <1>1 DEF Pressed, KindOf
  <2>2. /\ IsView(u, s)
        /\ u.scalars.workspace = Workspace(SampleBefore(v))
        /\ SampleBefore(u) = Forgotten /\ PlayBefore(u) = PlayBefore(v)
    <3> DEFINE k == "sampleprevws"
    <3>1. u = Returned(v, k)
      OBVIOUS
    <3> HIDE DEF u, k
    <3>2. /\ IsView(u, s)
          /\ u.scalars.workspace = Workspace(v.scalars.set[k])
          /\ k \in Scalars => u.scalars.set[k] = Forgotten
          /\ \A q \in Scalars : q # k => u.scalars.set[q] = v.scalars.set[q]
      BY <3>1, ReturnedView
    <3>3. QED
      BY <3>2, RemembersWorkspaces DEF SampleBefore, PlayBefore, k
  <2> HIDE DEF u
  <2>3. QED
    BY <1>1, <2>1, <2>2, WorkspacesKnown DEF KindOf
<1>2. CASE KindOf(v) = "play"
  <2> DEFINE u == Returned(v, "playprevws")
  <2>1. Pressed(v) = u
    BY <1>2 DEF Pressed, KindOf
  <2>2. /\ IsView(u, s)
        /\ u.scalars.workspace = Workspace(PlayBefore(v))
        /\ PlayBefore(u) = Forgotten /\ SampleBefore(u) = SampleBefore(v)
    <3> DEFINE k == "playprevws"
    <3>1. u = Returned(v, k)
      OBVIOUS
    <3> HIDE DEF u, k
    <3>2. /\ IsView(u, s)
          /\ u.scalars.workspace = Workspace(v.scalars.set[k])
          /\ k \in Scalars => u.scalars.set[k] = Forgotten
          /\ \A q \in Scalars : q # k => u.scalars.set[q] = v.scalars.set[q]
      BY <3>1, ReturnedView
    <3>3. QED
      BY <3>2, RemembersWorkspaces DEF SampleBefore, PlayBefore, k
  <2> HIDE DEF u
  <2>3. QED
    BY <1>2, <2>1, <2>2, WorkspacesKnown DEF KindOf
<1>3. CASE KindOf(v) \notin {"sample", "play"}
  BY <1>3 DEF Pressed, KindOf
<1>4. QED
  BY <1>1, <1>2, <1>3

LEMMA ThreePresses ==
  ASSUME NEW s, NEW v, IsView(v, s), config \in Configs
  PROVE  KindOf(Pressed(Pressed(Pressed(v)))) \notin {"sample", "play"}
<1> DEFINE a == Pressed(v)
           b == Pressed(a)
           c == Pressed(b)
<1>1. IsView(a, s)
  BY PressedLeads
<1> HIDE DEF a
<1>2. IsView(b, s)
  BY <1>1, PressedLeads
<1> HIDE DEF b
<1>3. IsView(c, s)
  BY <1>2, PressedLeads
<1> HIDE DEF c
<1>4. Kind[Workspace(Forgotten)] \notin {"sample", "play"}
  BY WorkspacesKnown
<1>5. KindOf(c) \notin {"sample", "play"}
  <2>1. CASE KindOf(v) \notin {"sample", "play"}
    BY <1>1, <1>2, <2>1, PressedLeads DEF a, b, c
  <2>2. CASE KindOf(a) \notin {"sample", "play"}
    BY <1>1, <1>2, <2>2, PressedLeads DEF b, c
  <2>3. CASE KindOf(b) \notin {"sample", "play"}
    BY <1>2, <2>3, PressedLeads DEF c
  <2>4. CASE KindOf(v) = "sample" /\ KindOf(a) \in {"sample", "play"}
    <3>1. SampleBefore(a) = Forgotten
      BY <2>4, PressedLeads DEF a
    <3>2. CASE KindOf(a) = "sample"
      <4>1. KindOf(b) = Kind[Workspace(Forgotten)]
        BY <1>1, <3>1, <3>2, PressedLeads DEF b
      <4>2. QED
        BY <1>4, <2>3, <4>1
    <3>3. CASE KindOf(a) = "play"
      <4>1. SampleBefore(b) = Forgotten /\ PlayBefore(b) = Forgotten
        BY <1>1, <3>1, <3>3, PressedLeads DEF b
      <4>2. CASE KindOf(b) \in {"sample", "play"}
        <5>1. KindOf(c) = Kind[Workspace(Forgotten)]
          BY <1>2, <4>1, <4>2, PressedLeads DEF c
        <5>2. QED
          BY <1>4, <5>1
      <4>3. QED
        BY <2>3, <4>2
    <3>4. QED
      BY <2>4, <3>2, <3>3
  <2>5. CASE KindOf(v) = "play" /\ KindOf(a) \in {"sample", "play"}
    <3>1. PlayBefore(a) = Forgotten
      BY <2>5, PressedLeads DEF a
    <3>2. CASE KindOf(a) = "play"
      <4>1. KindOf(b) = Kind[Workspace(Forgotten)]
        BY <1>1, <3>1, <3>2, PressedLeads DEF b
      <4>2. QED
        BY <1>4, <2>3, <4>1
    <3>3. CASE KindOf(a) = "sample"
      <4>1. SampleBefore(b) = Forgotten /\ PlayBefore(b) = Forgotten
        BY <1>1, <3>1, <3>3, PressedLeads DEF b
      <4>2. CASE KindOf(b) \in {"sample", "play"}
        <5>1. KindOf(c) = Kind[Workspace(Forgotten)]
          BY <1>2, <4>1, <4>2, PressedLeads DEF c
        <5>2. QED
          BY <1>4, <5>1
      <4>3. QED
        BY <2>3, <4>2
    <3>4. QED
      BY <2>5, <3>2, <3>3
  <2>6. QED
    BY <2>1, <2>2, <2>4, <2>5
<1>6. QED
  BY <1>5 DEF a, b, c

(* From the sample and the play workspace, entered from anywhere, from     *)
(* each other or loaded from the store of a server with other workspaces,  *)
(* three presses of their own buttons lead to a workspace that is not      *)
(* hidden (DQM/GUI.py, sessionReturn and sessionStop).                     *)
THEOREM WayBackKnown == Spec => []WayBack
<1>1. Init => IInv
  BY InitShaped
<1>2. IInv /\ [Next]_vars => IInv'
  BY NextKeeps
<1>3. IInv => WayBack
  BY ViewShaped, ThreePresses DEF IInv, Shaped, WayBack, KindOf
<1>4. QED
  BY <1>1, <1>2, <1>3, PTL DEF Spec

============================================================================
