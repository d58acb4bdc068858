------------------------- MODULE WorkspaceTabsProofs -------------------------
(***************************************************************************)
(* The properties of WorkspaceTabs, for any tabs, repositories and file    *)
(* lists and any number of actions, events and restarts.                   *)
(*                                                                         *)
(* Every operation of WorkspaceStore keeps a store sound: its sessions and *)
(* pointers agree with its tabs, and what is selected under a repository   *)
(* is of its files.  The rest of the invariant relates the stores: a tab   *)
(* holds repositories chosen in it only, a host that listens either agrees *)
(* with a webview or is about to hear of it, and the order previewed       *)
(* differs from the tabs by the place of the dragged tab alone.            *)
(***************************************************************************)
EXTENDS WorkspaceTabs, SequenceTheorems, FiniteSetTheorems, TLAPS

\* What a webview sends to the host.
Event ==
  [ first : BOOLEAN, route : Routes, hasRepo : BOOLEAN, repo : MaybeRepo,
    snap : Snapshot ]

TypeOK ==
  /\ host \in Store /\ disk \in Store
  /\ child \in [SessionIds -> Store \cup {Unloaded, Unbound}]
  /\ childRoute \in [SessionIds -> Routes]
  /\ dirty \subseteq SessionIds /\ requests \subseteq SessionIds
  /\ chan \in [SessionIds -> Seq(Event)]
  /\ listening \in 0..2
  /\ known \subseteq Repos
  /\ drag \in [tab : SessionIds, order : Seq(SessionIds)]
  /\ made \subseteq SessionIds
  /\ chosen \in [SessionIds -> SUBSET Repos]

\* A store as every operation leaves it.
Healthy(s) ==
  s \in Store /\ WellFormed(s) /\ s.selected = Known(s, s.repo[s.activeSession])

\* What a snapshot holds was selected in the files of its repository.
SnapIsolated(snap) == \A f \in snap.sel : f[2] = snap.path

\* The tabs of s show repositories that were chosen in them.
Within(s, c) == \A x \in SessionIds : s.repo[x] \in c[x] \cup {NoRepo}

\* What a store holds under a repository was selected in its files.
SelIsolated(s) ==
  /\ \A x \in SessionIds, p \in Repos : \A f \in s.sel[x][p] : f[2] = p
  /\ \A x \in SessionIds : s.snap[x] # NoSnap => SnapIsolated(s.snap[x])

Sound(s) == Healthy(s) /\ SelIsolated(s)

\* Every store is sound, a webview's is of its tab, and no tab is made twice.
StoresInv ==
  /\ \A s \in {host, disk} : Sound(s) /\ Within(s, chosen)
  /\ \A x \in Bound :
       Sound(child[x]) /\ child[x].tabs = <<x>> /\ Within(child[x], chosen)
  /\ TabsOf(host) \cup TabsOf(disk) \cup Bound \subseteq made
  /\ dirty \subseteq Bound

\* The events under way are of their tab.
EventsInv ==
  \A x \in SessionIds : \A i \in DOMAIN chan[x] :
    chan[x][i].repo \in chosen[x] \cup {NoRepo} /\ SnapIsolated(chan[x][i].snap)

\* The route and the repository that the webview of x shows.
Agrees(x, route, r) ==
  route = childRoute[x] /\ (childRoute[x] = "git" => r = child[x].repo[x])

LastAgrees(x) ==
  LET e == chan[x][Len(chan[x])]
  IN Agrees(x, e.route, e.repo) /\ e.hasRepo = (e.route = "git")

\* Where the host listens and differs from a webview, a report is under way or due.
ReportsInv ==
  listening = 2 =>
    \A x \in Bound \cap TabsOf(host) :
      \/ x \in dirty \cup requests
      \/ chan[x] = <<>> /\ Agrees(x, host.route[x], host.repo[x])
      \/ chan[x] # <<>> /\ LastAgrees(x)

\* The elements of S come in the same order in q and in r.
SameOrder(q, r, S) ==
  \A i, j \in DOMAIN q, k, l \in DOMAIN r :
    q[i] = r[k] /\ q[j] = r[l] /\ q[i] \in S /\ q[j] \in S => (i < j <=> k < l)

\* The order previewed is that of the tabs but for the dragged one.
Previews(d, tabs) ==
  d.order # <<>> =>
    /\ IsInjective(d.order)
    /\ ToSet(d.order) = ToSet(tabs) /\ d.tab \in ToSet(tabs)
    /\ SameOrder(d.order, tabs, SessionIds \ {d.tab})

DragInv == Previews(drag, host.tabs)

IInv == TypeOK /\ StoresInv /\ EventsInv /\ ReportsInv /\ DragInv
-----------------------------------------------------------------------------
(* What one operation of a store leaves of it *)

\* The path of a session is that of a repository.
LEMMA PathOfType ==
  ASSUME NEW s \in Store, NEW x \in SessionIds
  PROVE  PathOf(s, x) \in MaybeRepo
  BY DEF Store, PathOf, Known, Snapshot, MaybeRepo

\* A snapshot holds files of the repository it is taken of.
LEMMA SnapshotFacts ==
  ASSUME NEW s \in Store, NEW x \in SessionIds
  PROVE  /\ SnapshotOf(s, x) \in Snapshot
         /\ SelIsolated(s) => SnapIsolated(SnapshotOf(s, x))
<1>1. PathOf(s, x) \in MaybeRepo
  BY PathOfType
<1>2. SelectionAt(s, x, PathOf(s, x)) \in Selection
  BY <1>1 DEF Store, SelectionAt, Selection, MaybeRepo
<1>3. SnapshotOf(s, x) \in Snapshot
  BY <1>1, <1>2 DEF SnapshotOf, Snapshot, Store
<1>4. ASSUME SelIsolated(s) PROVE SnapIsolated(SnapshotOf(s, x))
  BY <1>1, <1>4 DEF SnapIsolated, SelIsolated, SnapshotOf, SelectionAt, MaybeRepo
<1> QED
  BY <1>3, <1>4

\* Freezing a session records a snapshot of it and touches no other.
LEMMA FreezeFacts ==
  ASSUME NEW s \in Store, NEW x \in SessionIds, SelIsolated(s),
         NEW n, n = FreezeSession(s, x)
  PROVE  /\ n \in Store /\ SelIsolated(n)
         /\ n.tabs = s.tabs /\ n.tabRepo = s.tabRepo /\ n.route = s.route
         /\ n.activeTab = s.activeTab /\ n.activeSession = s.activeSession
         /\ n.repo = s.repo /\ n.repos = s.repos /\ n.selected = s.selected
         /\ \A y \in SessionIds :
              /\ n.life[y] = IF y = x /\ s.life[x] # "none" THEN "frozen" ELSE s.life[y]
              /\ y # x \/ s.life[x] = "none" => n.snap[y] = s.snap[y]
  BY SnapshotFacts DEF FreezeSession, Store, SelIsolated

\* Capturing one records the snapshot and leaves it as it is.
LEMMA CaptureFacts ==
  ASSUME NEW s \in Store, NEW x \in SessionIds, SelIsolated(s),
         NEW n, n = CaptureSession(s, x)
  PROVE  /\ n \in Store /\ SelIsolated(n)
         /\ n.tabs = s.tabs /\ n.tabRepo = s.tabRepo /\ n.route = s.route
         /\ n.activeTab = s.activeTab /\ n.activeSession = s.activeSession
         /\ n.repo = s.repo /\ n.repos = s.repos /\ n.selected = s.selected
         /\ n.life = s.life
         /\ \A y \in SessionIds : y # x \/ s.life[x] = "none" => n.snap[y] = s.snap[y]
  BY SnapshotFacts DEF CaptureSession, Store, SelIsolated

\* Restoring one changes only the view and what is selected.
LEMMA RestoreFacts ==
  ASSUME NEW s \in Store, NEW x \in SessionIds, SelIsolated(s),
         NEW n, n = RestoreSession(s, x)
  PROVE  /\ n \in Store /\ SelIsolated(n)
         /\ n.tabs = s.tabs /\ n.tabRepo = s.tabRepo /\ n.route = s.route
         /\ n.activeTab = s.activeTab /\ n.activeSession = s.activeSession
         /\ n.repo = s.repo /\ n.repos = s.repos /\ n.selected = s.selected
         /\ n.life = s.life /\ n.snap = s.snap
<1> DEFINE p == PathOf(s, x)
           shown == SnapshotToRestore(s, x)
<1>1. p \in MaybeRepo
  BY PathOfType
<1>2. /\ shown.view \in Views /\ shown.sel \in Selection
      /\ p \in Repos => \A f \in shown.sel : f[2] = p
  BY <1>1, StoreAssumption
     DEF SnapshotToRestore, EmptySnapshot, Store, Snapshot, Selection, SelIsolated,
         SnapIsolated
<1> HIDE DEF shown
<1>3. CASE p = NoRepo
  BY <1>2, <1>3 DEF RestoreSession, Store, SelIsolated, shown
<1>4. CASE p # NoRepo
  <2>1. p \in Repos
    BY <1>1, <1>4 DEF MaybeRepo
  <2> DEFINE q == [s.sel[x] EXCEPT ![p] = shown.sel]
  <2>2. n = [s EXCEPT !.view = shown.view, !.sel[x] = q]
    BY <1>4 DEF RestoreSession, shown
  <2> HIDE DEF p
  <2>3. q \in [Repos -> Selection] /\ q[p] = shown.sel
        /\ \A r \in Repos \ {p} : q[r] = s.sel[x][r]
    BY <2>1, <1>2 DEF Store
  <2> HIDE DEF q
  <2>5. /\ n.sel = [s.sel EXCEPT ![x] = q]
        /\ n \in Store
        /\ n.tabs = s.tabs /\ n.tabRepo = s.tabRepo /\ n.route = s.route
        /\ n.activeTab = s.activeTab /\ n.activeSession = s.activeSession
        /\ n.repo = s.repo /\ n.repos = s.repos /\ n.selected = s.selected
        /\ n.life = s.life /\ n.snap = s.snap
    <3>1. n.sel = [s.sel EXCEPT ![x] = q]
      BY <2>2 DEF Store
    <3>2. n.sel \in [SessionIds -> [Repos -> Selection]]
      BY <2>3, <3>1 DEF Store
    <3>3. n = [[s EXCEPT !.view = shown.view] EXCEPT !.sel = n.sel]
      BY <2>2 DEF Store
    <3> QED
      BY <3>1, <3>2, <3>3, <1>2 DEF Store
  <2>4. ASSUME NEW y \in SessionIds, NEW r \in Repos, NEW f \in n.sel[y][r]
        PROVE  f[2] = r
    <3>1. CASE y = x /\ r = p
      BY <3>1, <2>1, <2>3, <2>5, <2>4, <1>2 DEF Store
    <3>2. CASE ~(y = x /\ r = p)
      <4>1. n.sel[y][r] = s.sel[y][r]
        BY <3>2, <2>1, <2>3, <2>5 DEF Store
      <4> QED
        BY <4>1, <2>4 DEF SelIsolated
    <3> QED
      BY <3>1, <3>2
  <2> QED
    BY <2>5, <2>4 DEF SelIsolated
<1> QED
  BY <1>3, <1>4
-----------------------------------------------------------------------------
(* Sequences *)

\* With an element at the end.
LEMMA AppendFacts ==
  ASSUME NEW S, NEW q \in Seq(S), NEW x \in S
  PROVE  /\ Append(q, x) \in Seq(S) /\ Append(q, x) # <<>>
         /\ ToSet(Append(q, x)) = ToSet(q) \cup {x}
         /\ IsInjective(q) /\ x \notin ToSet(q) => IsInjective(Append(q, x))
<1>1. /\ Append(q, x) \in Seq(S) /\ Len(Append(q, x)) = Len(q) + 1
      /\ \A i \in 1..Len(q) : Append(q, x)[i] = q[i]
      /\ Append(q, x)[Len(q) + 1] = x
  BY AppendProperties
<1>2. DOMAIN q = 1..Len(q) /\ DOMAIN Append(q, x) = 1..(Len(q) + 1) /\ Len(q) \in Nat
  BY <1>1
<1>3. Append(q, x) # <<>>
  BY AppendProperties
<1>4. ToSet(Append(q, x)) = ToSet(q) \cup {x}
  <2>1. ToSet(Append(q, x)) \subseteq ToSet(q) \cup {x}
    BY <1>1, <1>2 DEF ToSet
  <2>2. ToSet(q) \subseteq ToSet(Append(q, x))
    BY <1>1, <1>2 DEF ToSet
  <2>3. x \in ToSet(Append(q, x))
    BY <1>1, <1>2 DEF ToSet
  <2> QED
    BY <2>1, <2>2, <2>3
<1>5. ASSUME IsInjective(q), x \notin ToSet(q) PROVE IsInjective(Append(q, x))
  BY <1>1, <1>2, <1>5 DEF IsInjective, ToSet
<1> QED
  BY <1>1, <1>3, <1>4, <1>5

\* SequencesExt.RemoveAt, element by element.
LEMMA RemoveAtFacts ==
  ASSUME NEW S, NEW s \in Seq(S), NEW i \in 1..Len(s)
  PROVE  /\ RemoveAt(s, i) \in Seq(S)
         /\ Len(RemoveAt(s, i)) = Len(s) - 1
         /\ \A j \in 1..(Len(s) - 1) : RemoveAt(s, i)[j] = IF j < i THEN s[j] ELSE s[j + 1]
<1> DEFINE front == SubSeq(s, 1, i - 1)
           back == SubSeq(s, i + 1, Len(s))
<1>1. /\ front \in Seq(S) /\ Len(front) = i - 1
      /\ \A j \in 1..(i - 1) : front[j] = s[j]
  OBVIOUS
<1>2. /\ back \in Seq(S) /\ Len(back) = Len(s) - i
      /\ \A j \in 1..(Len(s) - i) : back[j] = s[i + j]
  OBVIOUS
<1> HIDE DEF front, back
<1>3. /\ front \o back \in Seq(S) /\ Len(front \o back) = Len(front) + Len(back)
      /\ \A j \in 1..(Len(front) + Len(back)) :
           (front \o back)[j] = IF j <= Len(front) THEN front[j] ELSE back[j - Len(front)]
  BY <1>1, <1>2, ConcatProperties
<1>4. Len(front) + Len(back) = Len(s) - 1
  BY <1>1, <1>2
<1>5. ASSUME NEW j \in 1..(Len(s) - 1)
      PROVE  (front \o back)[j] = IF j < i THEN s[j] ELSE s[j + 1]
  <2>1. CASE j < i
    <3>1. j \in 1..(Len(front) + Len(back)) /\ j <= Len(front) /\ j \in 1..(i - 1)
      BY <2>1, <1>1, <1>4
    <3> QED
      BY <2>1, <3>1, <1>1, <1>3
  <2>2. CASE ~(j < i)
    <3>1. j - (i - 1) \in 1..(Len(s) - i) /\ i + (j - (i - 1)) = j + 1
      BY <2>2
    <3>2. j \in 1..(Len(front) + Len(back)) /\ ~(j <= Len(front)) /\ Len(front) = i - 1
      BY <2>2, <1>1, <1>4
    <3>3. (front \o back)[j] = back[j - (i - 1)]
      BY <3>2, <1>3
    <3>4. back[j - (i - 1)] = s[j + 1]
      BY <3>1, <1>2
    <3> QED
      BY <2>2, <3>3, <3>4
  <2> QED
    BY <2>1, <2>2
<1>6. RemoveAt(s, i) = front \o back
  BY DEF RemoveAt, front, back
<1> QED
  BY <1>3, <1>4, <1>5, <1>6

\* SequencesExt.InsertAt, element by element.
LEMMA InsertAtFacts ==
  ASSUME NEW S, NEW s \in Seq(S), NEW i \in 1..(Len(s) + 1), NEW x \in S
  PROVE  /\ InsertAt(s, i, x) \in Seq(S)
         /\ Len(InsertAt(s, i, x)) = Len(s) + 1
         /\ \A j \in 1..(Len(s) + 1) :
              InsertAt(s, i, x)[j] = IF j < i THEN s[j] ELSE IF j = i THEN x ELSE s[j - 1]
<1> DEFINE front == SubSeq(s, 1, i - 1)
           middle == front \o <<x>>
           back == SubSeq(s, i, Len(s))
<1>1. /\ front \in Seq(S) /\ Len(front) = i - 1
      /\ \A j \in 1..(i - 1) : front[j] = s[j]
  OBVIOUS
<1>2. /\ back \in Seq(S) /\ Len(back) = Len(s) - i + 1
      /\ \A j \in 1..(Len(s) - i + 1) : back[j] = s[i + j - 1]
  OBVIOUS
<1> HIDE DEF front, back
<1>3. <<x>> \in Seq(S) /\ Len(<<x>>) = 1 /\ <<x>>[1] = x
  OBVIOUS
<1>4. /\ middle \in Seq(S) /\ Len(middle) = i
      /\ \A j \in 1..i : middle[j] = IF j < i THEN s[j] ELSE x
  <2>1. /\ middle \in Seq(S) /\ Len(middle) = i
        /\ \A j \in 1..i : middle[j] = IF j <= Len(front) THEN front[j] ELSE <<x>>[j - Len(front)]
    BY <1>1, <1>3, ConcatProperties
  <2>2. ASSUME NEW j \in 1..i PROVE middle[j] = IF j < i THEN s[j] ELSE x
    BY <2>1, <1>1, <1>3
  <2> QED
    BY <2>1, <2>2
<1> HIDE DEF middle
<1>8. /\ middle \o back \in Seq(S) /\ Len(middle \o back) = Len(middle) + Len(back)
      /\ \A j \in 1..(Len(middle) + Len(back)) :
           (middle \o back)[j] = IF j <= Len(middle) THEN middle[j] ELSE back[j - Len(middle)]
  BY <1>4, <1>2, ConcatProperties
<1>9. Len(middle) = i /\ Len(middle) + Len(back) = Len(s) + 1
  BY <1>4, <1>2
<1>5. /\ middle \o back \in Seq(S) /\ Len(middle \o back) = Len(s) + 1
      /\ \A j \in 1..(Len(s) + 1) :
           (middle \o back)[j] = IF j <= i THEN middle[j] ELSE back[j - i]
  BY <1>8, <1>9
<1>6. ASSUME NEW j \in 1..(Len(s) + 1)
      PROVE  (middle \o back)[j] = IF j < i THEN s[j] ELSE IF j = i THEN x ELSE s[j - 1]
  <2>1. CASE j <= i
    BY <2>1, <1>4, <1>5
  <2>2. CASE ~(j <= i)
    <3>1. j - i \in 1..(Len(s) - i + 1) /\ i + (j - i) - 1 = j - 1
      BY <2>2
    <3> QED
      BY <2>2, <3>1, <1>2, <1>5
  <2> QED
    BY <2>1, <2>2
<1>7. InsertAt(s, i, x) = middle \o back
  BY DEF InsertAt, middle, front, back
<1> QED
  BY <1>5, <1>6, <1>7

\* Where PlaceOf finds an element, the element is.
LEMMA PlaceFacts ==
  ASSUME NEW S, NEW q \in Seq(S), NEW x \in ToSet(q)
  PROVE  PlaceOf(q, x) \in 1..Len(q) /\ q[PlaceOf(q, x)] = x
<1>1. \E i \in DOMAIN q : q[i] = x
  BY DEF ToSet
<1>2. PlaceOf(q, x) \in DOMAIN q /\ q[PlaceOf(q, x)] = x
  BY <1>1 DEF PlaceOf
<1> QED
  BY <1>2

\* Without one of its elements.
LEMMA Without ==
  ASSUME NEW S, NEW q \in Seq(S), IsInjective(q), NEW x \in ToSet(q),
         NEW r, r = RemoveAt(q, PlaceOf(q, x))
  PROVE  r \in Seq(S) /\ IsInjective(r) /\ ToSet(r) = ToSet(q) \ {x}
<1> DEFINE i == PlaceOf(q, x)
<1>1. i \in 1..Len(q) /\ q[i] = x
  BY PlaceFacts
<1> HIDE DEF i
<1>2. /\ r \in Seq(S) /\ Len(r) = Len(q) - 1
      /\ \A j \in 1..(Len(q) - 1) : r[j] = IF j < i THEN q[j] ELSE q[j + 1]
  BY <1>1, RemoveAtFacts DEF i
<1>3. DOMAIN q = 1..Len(q) /\ DOMAIN r = 1..(Len(q) - 1) /\ Len(q) \in Nat \ {0}
  BY <1>1, <1>2
<1>4. IsInjective(r)
  <2> SUFFICES ASSUME NEW a \in DOMAIN r, NEW b \in DOMAIN r, r[a] = r[b]
               PROVE  a = b
    BY DEF IsInjective
  <2>1. \A j \in DOMAIN r : j \in DOMAIN q /\ j + 1 \in DOMAIN q
    BY <1>3
  <2> QED
    BY <2>1, <1>2, <1>3, <1>1 DEF IsInjective
<1>5. ToSet(r) \subseteq ToSet(q) \ {x}
  <2> SUFFICES ASSUME NEW j \in DOMAIN r PROVE r[j] \in ToSet(q) /\ r[j] # x
    BY DEF ToSet
  <2> QED
    BY <1>1, <1>2, <1>3 DEF ToSet, IsInjective
<1>6. ToSet(q) \ {x} \subseteq ToSet(r)
  <2> SUFFICES ASSUME NEW j \in DOMAIN q, q[j] # x PROVE q[j] \in ToSet(r)
    BY DEF ToSet
  <2>1. CASE j < i
    BY <2>1, <1>1, <1>2, <1>3 DEF ToSet
  <2>2. CASE j > i
    <3>1. j - 1 \in DOMAIN r /\ r[j - 1] = q[j]
      BY <2>2, <1>1, <1>2, <1>3
    <3> QED
      BY <3>1 DEF ToSet
  <2> QED
    BY <2>1, <2>2, <1>1, <1>3
<1> QED
  BY <1>2, <1>4, <1>5, <1>6

\* With one of its elements moved to the place j.
LEMMA Moved ==
  ASSUME NEW S, NEW q \in Seq(S), IsInjective(q), NEW x \in ToSet(q),
         NEW j \in 1..Len(q), NEW r, r = InsertAt(RemoveAt(q, PlaceOf(q, x)), j, x)
  PROVE  /\ r \in Seq(S) /\ Len(r) = Len(q) /\ IsInjective(r) /\ ToSet(r) = ToSet(q)
         /\ r[j] = x
<1> DEFINE w == RemoveAt(q, PlaceOf(q, x))
<1>1. PlaceOf(q, x) \in 1..Len(q)
  BY PlaceFacts
<1>2. w \in Seq(S) /\ IsInjective(w) /\ ToSet(w) = ToSet(q) \ {x}
  BY Without
<1>3. Len(w) = Len(q) - 1 /\ Len(q) \in Nat
  BY <1>1, RemoveAtFacts
<1>4. x \in S
  BY DEF ToSet
<1> HIDE DEF w
<1>5. /\ r \in Seq(S) /\ Len(r) = Len(q)
      /\ \A k \in 1..Len(q) : r[k] = IF k < j THEN w[k] ELSE IF k = j THEN x ELSE w[k - 1]
  <2>1. r = InsertAt(w, j, x)
    BY DEF w
  <2>2. j \in 1..(Len(w) + 1) /\ Len(w) + 1 = Len(q)
    BY <1>3
  <2>3. /\ InsertAt(w, j, x) \in Seq(S) /\ Len(InsertAt(w, j, x)) = Len(w) + 1
        /\ \A k \in 1..(Len(w) + 1) : InsertAt(w, j, x)[k] =
             IF k < j THEN w[k] ELSE IF k = j THEN x ELSE w[k - 1]
    BY <1>2, <1>4, <2>2, InsertAtFacts
  <2> QED
    BY <2>1, <2>2, <2>3
<1>6. DOMAIN r = 1..Len(q) /\ DOMAIN w = 1..(Len(q) - 1)
  BY <1>2, <1>3, <1>5
<1>10. \A k \in DOMAIN w : w[k] # x
  BY <1>2 DEF ToSet
<1>7. IsInjective(r)
  <2> SUFFICES ASSUME NEW a \in DOMAIN r, NEW b \in DOMAIN r, r[a] = r[b] PROVE a = b
    BY DEF IsInjective
  <2> DEFINE back(k) == IF k < j THEN k ELSE k - 1
  <2>1. ASSUME NEW k \in DOMAIN r, k # j
        PROVE  back(k) \in DOMAIN w /\ r[k] = w[back(k)]
    BY <2>1, <1>3, <1>5, <1>6
  <2>2. CASE a = j \/ b = j
    BY <2>1, <2>2, <1>5, <1>6, <1>10
  <2>3. CASE a # j /\ b # j
    <3>1. back(a) = back(b)
      BY <2>1, <2>3, <1>2 DEF IsInjective
    <3> QED
      BY <3>1, <2>3, <1>6
  <2> QED
    BY <2>2, <2>3
<1>8. ToSet(r) \subseteq ToSet(w) \cup {x}
  <2> SUFFICES ASSUME NEW k \in DOMAIN r PROVE r[k] \in ToSet(w) \cup {x}
    BY DEF ToSet
  <2>1. CASE k > j
    <3>1. k - 1 \in DOMAIN w /\ r[k] = w[k - 1]
      BY <2>1, <1>5, <1>6
    <3> QED
      BY <3>1 DEF ToSet
  <2>2. CASE k = j
    BY <2>2, <1>5, <1>6
  <2>3. CASE k < j
    <3>1. k \in DOMAIN w /\ r[k] = w[k]
      BY <2>3, <1>5, <1>6
    <3> QED
      BY <3>1 DEF ToSet
  <2> QED
    BY <2>1, <2>2, <2>3, <1>6
<1>9. ToSet(w) \cup {x} \subseteq ToSet(r)
  <2>1. ASSUME NEW k \in DOMAIN w PROVE w[k] \in ToSet(r)
    <3>1. CASE k < j
      BY <3>1, <1>5, <1>6 DEF ToSet
    <3>2. CASE ~(k < j)
      <4>1. k + 1 \in DOMAIN r /\ r[k + 1] = w[k]
        BY <3>2, <1>5, <1>6
      <4> QED
        BY <4>1 DEF ToSet
    <3> QED
      BY <3>1, <3>2
  <2>2. x \in ToSet(r)
    BY <1>5, <1>6 DEF ToSet
  <2> QED
    BY <2>1, <2>2 DEF ToSet
<1>11. ToSet(w) \cup {x} = ToSet(q)
  BY <1>2
<1>12. r[j] = x
  BY <1>5
<1> QED
  BY <1>5, <1>7, <1>8, <1>9, <1>11, <1>12
-----------------------------------------------------------------------------
(* The operations on tabs and sessions keep a store sound. *)

\* A tab's session becomes the active one.
LEMMA PointAtFacts ==
  ASSUME NEW s \in Store, NEW x \in SessionIds, SelIsolated(s),
         NEW n, n = PointAt(RestoreSession(s, x), x)
  PROVE  /\ n \in Store /\ SelIsolated(n)
         /\ n.tabs = s.tabs /\ n.tabRepo = s.tabRepo /\ n.route = s.route
         /\ n.activeTab = x /\ n.activeSession = x
         /\ n.repo = s.repo /\ n.repos = s.repos
         /\ n.selected = Known(s, s.tabRepo[x])
         /\ n.life = s.life /\ n.snap = s.snap
<1> DEFINE m == RestoreSession(s, x)
<1>1. /\ m \in Store /\ SelIsolated(m)
      /\ m.tabs = s.tabs /\ m.tabRepo = s.tabRepo /\ m.route = s.route
      /\ m.repo = s.repo /\ m.repos = s.repos
      /\ m.life = s.life /\ m.snap = s.snap
  BY RestoreFacts
<1> HIDE DEF m
<1>2. Known(m, m.tabRepo[x]) = Known(s, s.tabRepo[x]) /\ Known(s, s.tabRepo[x]) \in MaybeRepo
  BY <1>1 DEF Known, MaybeRepo, Store
<1>3. n = [m EXCEPT !.activeTab = x, !.activeSession = x,
                    !.selected = Known(s, s.tabRepo[x])]
  BY <1>2 DEF m, PointAt
<1>4. /\ n.tabs = m.tabs /\ n.tabRepo = m.tabRepo /\ n.route = m.route
      /\ n.activeTab = x /\ n.activeSession = x
      /\ n.repo = m.repo /\ n.repos = m.repos /\ n.life = m.life /\ n.snap = m.snap
      /\ n.sel = m.sel /\ n.view = m.view
      /\ n.selected = Known(s, s.tabRepo[x])
      /\ n \in Store
  BY <1>1, <1>2, <1>3 DEF Store
<1> QED
  BY <1>1, <1>4 DEF SelIsolated

\* The new tab comes last, and becomes the active one.
LEMMA CreateTabFacts ==
  ASSUME NEW s, Sound(s), NEW x \in SessionIds, x \notin TabsOf(s),
         NEW route \in Routes, NEW r \in MaybeRepo, NEW n, n = CreateTab(s, x, route, r)
  PROVE  /\ Sound(n)
         /\ n.tabs = Append(s.tabs, x) /\ TabsOf(n) = TabsOf(s) \cup {x}
         /\ n.repo = [s.repo EXCEPT ![x] = r]
         /\ n.route = [s.route EXCEPT ![x] = route]
<1> DEFINE left == s.activeSession
           f == FreezeSession(s, left)
           m == [f EXCEPT !.tabs = Append(@, x), !.tabRepo[x] = r,
                          !.route[x] = route, !.repo[x] = r,
                          !.life[x] = "active", !.snap[x] = f.snap[left]]
<1>1. s \in Store /\ SelIsolated(s) /\ left \in SessionIds /\ WellFormed(s)
      /\ x \in SessionIds /\ x \notin TabsOf(s)
  BY DEF Sound, Healthy, Store
<1>2. left \in TabsOf(s) /\ left = s.activeTab /\ left # x
  BY <1>1 DEF WellFormed
<1>3. /\ f \in Store /\ SelIsolated(f)
      /\ f.tabs = s.tabs /\ f.tabRepo = s.tabRepo /\ f.route = s.route
      /\ f.repo = s.repo /\ f.repos = s.repos
      /\ \A y \in SessionIds :
           /\ f.life[y] = IF y = left /\ s.life[left] # "none" THEN "frozen" ELSE s.life[y]
           /\ y # left => f.snap[y] = s.snap[y]
  BY <1>1, FreezeFacts
<1> HIDE DEF f, left
<1>4. /\ Append(f.tabs, x) \in Seq(SessionIds)
      /\ f.snap[left] \in Snapshot \cup {NoSnap}
  BY <1>1, <1>3 DEF Store
<1>5. /\ m \in Store
      /\ m.tabs = Append(s.tabs, x)
      /\ m.tabRepo = [s.tabRepo EXCEPT ![x] = r]
      /\ m.repo = [s.repo EXCEPT ![x] = r] /\ m.repos = s.repos
      /\ m.route = [s.route EXCEPT ![x] = route]
      /\ m.life = [f.life EXCEPT ![x] = "active"]
      /\ m.snap = [f.snap EXCEPT ![x] = f.snap[left]]
      /\ m.sel = f.sel
  BY <1>3, <1>4 DEF Store
<1> HIDE DEF m
<1>6. SelIsolated(m)
  BY <1>1, <1>3, <1>5 DEF SelIsolated, Store
<1>7. n = PointAt(RestoreSession(m, x), x)
  BY DEF CreateTab, m, f, left
<1>8. /\ n \in Store /\ SelIsolated(n)
      /\ n.tabs = m.tabs /\ n.tabRepo = m.tabRepo /\ n.route = m.route
      /\ n.activeTab = x /\ n.activeSession = x
      /\ n.repo = m.repo /\ n.repos = m.repos
      /\ n.selected = Known(m, m.tabRepo[x])
      /\ n.life = m.life /\ n.snap = m.snap
  <2>1. m \in Store
    BY <1>5
  <2> QED
    BY <2>1, <1>6, <1>7, PointAtFacts
<1>9. /\ n.tabs # <<>> /\ IsInjective(n.tabs) /\ TabsOf(n) = TabsOf(s) \cup {x}
  <2>1. s.tabs \in Seq(SessionIds) /\ IsInjective(s.tabs) /\ x \notin ToSet(s.tabs)
    BY <1>1 DEF WellFormed, TabsOf, ToSet, Store
  <2>2. n.tabs = Append(s.tabs, x)
    BY <1>5, <1>8
  <2>3. n.tabs # <<>> /\ IsInjective(n.tabs) /\ ToSet(n.tabs) = ToSet(s.tabs) \cup {x}
    BY <1>1, <2>1, <2>2, AppendFacts
  <2> QED
    BY <2>3 DEF TabsOf, ToSet
<1>10. WellFormed(n)
  <2>1. \A y \in SessionIds :
          n.life[y] = IF y \notin TabsOf(n) THEN "none"
                      ELSE IF y = n.activeTab THEN "active" ELSE "frozen"
    <3> SUFFICES ASSUME NEW y \in SessionIds
                 PROVE  n.life[y] = IF y \notin TabsOf(n) THEN "none"
                                    ELSE IF y = n.activeTab THEN "active" ELSE "frozen"
      OBVIOUS
    <3>1. n.life[y] = IF y = x THEN "active" ELSE f.life[y]
      BY <1>3, <1>5, <1>8 DEF Store
    <3>2. f.life[y] = IF y \notin TabsOf(s) THEN "none" ELSE "frozen"
      BY <1>1, <1>2, <1>3 DEF WellFormed
    <3> QED
      BY <3>1, <3>2, <1>8, <1>9
  <2>2. n.repo = n.tabRepo
    BY <1>1, <1>5, <1>8 DEF WellFormed
  <2>3. \A y \in SessionIds \ TabsOf(n) : n.repo[y] = NoRepo /\ n.snap[y] = NoSnap
    <3> SUFFICES ASSUME NEW y \in SessionIds \ TabsOf(n)
                 PROVE  n.repo[y] = NoRepo /\ n.snap[y] = NoSnap
      OBVIOUS
    <3>1. y \in SessionIds \ TabsOf(s) /\ y # x /\ y # left
      BY <1>2, <1>9
    <3>2. n.repo[y] = s.repo[y] /\ n.snap[y] = s.snap[y]
      BY <3>1, <1>1, <1>3, <1>5, <1>8 DEF Store
    <3> QED
      BY <3>1, <3>2, <1>1 DEF WellFormed
  <2> QED
    BY <2>1, <2>2, <2>3, <1>8, <1>9 DEF WellFormed
<1>11. n.selected = Known(n, n.repo[n.activeSession])
  BY <1>5, <1>8, <1>10 DEF WellFormed, Known
<1> QED
  BY <1>5, <1>8, <1>9, <1>10, <1>11 DEF Sound, Healthy

\* Activating a tab moves pointers, lives and snapshots.
LEMMA ActivateTabFacts ==
  ASSUME NEW s, Sound(s), NEW x \in SessionIds, NEW n, n = ActivateTab(s, x)
  PROVE  /\ Sound(n)
         /\ n.tabs = s.tabs /\ n.repo = s.repo /\ n.route = s.route
<1> DEFINE left == s.activeSession
           f == FreezeSession(s, left)
           m == [f EXCEPT !.repo[x] = s.tabRepo[x], !.life[x] = "active"]
<1>1. s \in Store /\ SelIsolated(s) /\ left \in SessionIds /\ WellFormed(s)
  BY DEF Sound, Healthy, Store
<1>2. CASE x = s.activeTab \/ x \notin TabsOf(s)
  BY <1>2 DEF ActivateTab
<1>3. CASE x # s.activeTab /\ x \in TabsOf(s)
  <2>1. left \in TabsOf(s) /\ left = s.activeTab /\ left # x
    BY <1>1, <1>3 DEF WellFormed
  <2>2. /\ f \in Store /\ SelIsolated(f)
        /\ f.tabs = s.tabs /\ f.tabRepo = s.tabRepo /\ f.route = s.route
        /\ f.repo = s.repo /\ f.repos = s.repos
        /\ \A y \in SessionIds :
             /\ f.life[y] = IF y = left /\ s.life[left] # "none" THEN "frozen" ELSE s.life[y]
             /\ y # left => f.snap[y] = s.snap[y]
    BY <1>1, FreezeFacts
  <2> HIDE DEF f, left
  <2>3. s.tabRepo[x] = s.repo[x] /\ s.repo[x] \in MaybeRepo
    BY <1>1 DEF WellFormed, Store
  <2>4. /\ m \in Store
        /\ m.tabs = s.tabs /\ m.tabRepo = s.tabRepo /\ m.route = s.route
        /\ m.repo = s.repo /\ m.repos = s.repos
        /\ m.life = [f.life EXCEPT ![x] = "active"]
        /\ m.snap = f.snap /\ m.sel = f.sel
    BY <2>2, <2>3 DEF Store
  <2> HIDE DEF m
  <2>5. SelIsolated(m)
    BY <2>2, <2>4 DEF SelIsolated
  <2>6. n = PointAt(RestoreSession(m, x), x)
    BY <1>3, <2>1 DEF ActivateTab, m, f, left
  <2>7. /\ n \in Store /\ SelIsolated(n)
        /\ n.tabs = m.tabs /\ n.tabRepo = m.tabRepo /\ n.route = m.route
        /\ n.activeTab = x /\ n.activeSession = x
        /\ n.repo = m.repo /\ n.repos = m.repos
        /\ n.selected = Known(m, m.tabRepo[x])
        /\ n.life = m.life /\ n.snap = m.snap
    BY <2>4, <2>5, <2>6, PointAtFacts
  <2>8. TabsOf(n) = TabsOf(s)
    BY <2>4, <2>7 DEF TabsOf
  <2>9. \A y \in SessionIds :
          n.life[y] = IF y \notin TabsOf(n) THEN "none"
                      ELSE IF y = n.activeTab THEN "active" ELSE "frozen"
    BY <1>1, <1>3, <2>1, <2>2, <2>4, <2>7, <2>8 DEF WellFormed, Store
  <2>10. \A y \in SessionIds \ TabsOf(n) : n.repo[y] = NoRepo /\ n.snap[y] = NoSnap
    BY <1>1, <2>1, <2>2, <2>4, <2>7, <2>8 DEF WellFormed
  <2>11. WellFormed(n)
    BY <1>1, <1>3, <2>4, <2>7, <2>8, <2>9, <2>10 DEF WellFormed
  <2>12. n.selected = Known(n, n.repo[n.activeSession])
    BY <2>4, <2>7, <2>11 DEF WellFormed, Known
  <2> QED
    BY <2>4, <2>7, <2>11, <2>12 DEF Sound, Healthy
<1> QED
  BY <1>2, <1>3

\* Ending what was open at x.
LEMMA CloseTabFacts ==
  ASSUME NEW s, Sound(s), NEW x \in TabsOf(s), Len(s.tabs) > 1, NEW n, n = CloseTab(s, x)
  PROVE  /\ Sound(n)
         /\ n.tabs = RemoveAt(s.tabs, PlaceOf(s.tabs, x))
         /\ TabsOf(n) = TabsOf(s) \ {x}
         /\ n.repo = [s.repo EXCEPT ![x] = NoRepo]
         /\ n.route = [s.route EXCEPT ![x] = "git"]
<1> DEFINE i == PlaceOf(s.tabs, x)
           rest == RemoveAt(s.tabs, i)
           next == rest[IF i > 1 THEN i - 1 ELSE 1]
           gone == [s EXCEPT !.tabs = rest, !.life[x] = "none", !.snap[x] = NoSnap,
                             !.repo[x] = NoRepo, !.tabRepo[x] = NoRepo,
                             !.route[x] = "git"]
           woken == [gone EXCEPT !.life[next] = IF @ = "none" THEN @ ELSE "active"]
<1>1. /\ s \in Store /\ SelIsolated(s) /\ WellFormed(s) /\ x \in SessionIds
      /\ s.tabs \in Seq(SessionIds) /\ IsInjective(s.tabs)
      /\ x \in ToSet(s.tabs) /\ TabsOf(s) = ToSet(s.tabs)
  BY DEF Sound, Healthy, Store, TabsOf, ToSet, WellFormed
<1>2. i \in 1..Len(s.tabs) /\ Len(s.tabs) \in Nat
  BY <1>1, PlaceFacts
<1>3. rest \in Seq(SessionIds) /\ IsInjective(rest) /\ ToSet(rest) = TabsOf(s) \ {x}
  BY <1>1, Without
<1>4. Len(rest) = Len(s.tabs) - 1
  BY <1>1, <1>2, RemoveAtFacts
<1> HIDE DEF i
<1> HIDE DEF rest
<1>5. next \in ToSet(rest) /\ next \in SessionIds /\ next # x
  <2>1. (IF i > 1 THEN i - 1 ELSE 1) \in DOMAIN rest
    BY <1>2, <1>3, <1>4
  <2>2. next \in ToSet(rest)
    BY <2>1 DEF ToSet
  <2>3. ToSet(rest) \subseteq SessionIds
    BY <1>3 DEF ToSet
  <2> QED
    BY <2>2, <2>3, <1>3
<1> HIDE DEF next
<1>6. NoRepo \in MaybeRepo /\ NoSnap \in Snapshot \cup {NoSnap} /\ "git" \in Routes
  BY DEF MaybeRepo, Routes
<1>7. /\ gone \in Store
      /\ gone.tabs = rest
      /\ gone.life = [s.life EXCEPT ![x] = "none"]
      /\ gone.snap = [s.snap EXCEPT ![x] = NoSnap]
      /\ gone.repo = [s.repo EXCEPT ![x] = NoRepo]
      /\ gone.tabRepo = [s.tabRepo EXCEPT ![x] = NoRepo]
      /\ gone.route = [s.route EXCEPT ![x] = "git"]
      /\ gone.activeTab = s.activeTab /\ gone.activeSession = s.activeSession
      /\ gone.repos = s.repos /\ gone.selected = s.selected /\ gone.sel = s.sel
  BY <1>1, <1>3, <1>6 DEF Store
<1> HIDE DEF gone
<1>8. SelIsolated(gone)
  BY <1>1, <1>7 DEF SelIsolated, Store
<1>9. TabsOf(gone) = TabsOf(s) \ {x}
  BY <1>3, <1>7 DEF TabsOf, ToSet
<1>10. /\ gone.tabs # <<>> /\ IsInjective(gone.tabs) /\ gone.repo = gone.tabRepo
       /\ \A y \in SessionIds \ TabsOf(gone) : gone.repo[y] = NoRepo /\ gone.snap[y] = NoSnap
  <2>1. gone.tabs # <<>>
    BY <1>4, <1>7, <1>2
  <2>2. IsInjective(gone.tabs) /\ gone.repo = gone.tabRepo
    BY <1>1, <1>3, <1>7 DEF WellFormed
  <2>3. \A y \in SessionIds \ TabsOf(gone) : gone.repo[y] = NoRepo /\ gone.snap[y] = NoSnap
    BY <1>1, <1>7, <1>9 DEF WellFormed, Store
  <2> QED
    BY <2>1, <2>2, <2>3
<1>11. CASE x = s.activeTab
  <2>1. s.life[next] = "frozen"
    BY <1>1, <1>3, <1>5, <1>11 DEF WellFormed
  <2>2. gone.life[next] = "frozen" /\ next \in TabsOf(gone)
    BY <2>1, <1>1, <1>3, <1>5, <1>7, <1>9 DEF Store
  <2>3. /\ woken \in Store
        /\ woken.life = [gone.life EXCEPT ![next] = "active"]
        /\ woken.tabs = gone.tabs /\ woken.repo = gone.repo /\ woken.snap = gone.snap
        /\ woken.tabRepo = gone.tabRepo /\ woken.route = gone.route
        /\ woken.repos = gone.repos /\ woken.sel = gone.sel
    BY <1>5, <1>7, <2>2 DEF Store
  <2>4. woken.life[next] # "none"
    BY <1>5, <1>7, <2>3 DEF Store
  <2>5. n = PointAt(RestoreSession(woken, next), next)
    BY <1>11, <2>4 DEF CloseTab, woken, gone, next, rest, i
  <2> HIDE DEF woken
  <2>6. SelIsolated(woken)
    BY <1>8, <2>3 DEF SelIsolated
  <2>7. /\ n \in Store /\ SelIsolated(n)
        /\ n.tabs = woken.tabs /\ n.tabRepo = woken.tabRepo /\ n.route = woken.route
        /\ n.activeTab = next /\ n.activeSession = next
        /\ n.repo = woken.repo /\ n.repos = woken.repos
        /\ n.selected = Known(woken, woken.tabRepo[next])
        /\ n.life = woken.life /\ n.snap = woken.snap
    BY <1>5, <2>3, <2>5, <2>6, PointAtFacts
  <2>8. TabsOf(n) = TabsOf(gone)
    BY <2>3, <2>7 DEF TabsOf
  <2>9. ASSUME NEW y \in SessionIds
        PROVE  n.life[y] = IF y \notin TabsOf(n) THEN "none"
                           ELSE IF y = n.activeTab THEN "active" ELSE "frozen"
    <3>1. n.life[y] = IF y = next THEN "active" ELSE IF y = x THEN "none" ELSE s.life[y]
      BY <1>1, <1>5, <1>7, <2>3, <2>7 DEF Store
    <3>2. y # x => s.life[y] = IF y \notin TabsOf(s) THEN "none" ELSE "frozen"
      BY <1>1, <1>11 DEF WellFormed
    <3> QED
      BY <3>1, <3>2, <1>3, <1>5, <1>9, <2>2, <2>7, <2>8
  <2>10. WellFormed(n)
    BY <1>10, <2>2, <2>3, <2>7, <2>8, <2>9 DEF WellFormed
  <2>11. n.selected = Known(n, n.repo[n.activeSession])
    BY <2>3, <2>7, <2>10 DEF WellFormed, Known
  <2> QED
    BY <1>7, <1>9, <2>3, <2>7, <2>8, <2>10, <2>11 DEF Sound, Healthy, rest, i
<1>12. CASE x # s.activeTab
  <2>1. n = gone
    BY <1>12 DEF CloseTab, gone, rest, i
  <2>2. \A y \in SessionIds :
          gone.life[y] = IF y \notin TabsOf(gone) THEN "none"
                         ELSE IF y = gone.activeTab THEN "active" ELSE "frozen"
    BY <1>1, <1>7, <1>9, <1>12 DEF WellFormed, Store
  <2>3. WellFormed(gone)
    BY <1>1, <1>7, <1>9, <1>10, <1>12, <2>2 DEF WellFormed
  <2>4. gone.selected = Known(gone, gone.repo[gone.activeSession])
    <3>1. s.activeSession # x /\ s.activeSession \in SessionIds
      BY <1>1, <1>12 DEF WellFormed, Store
    <3> QED
      BY <3>1, <1>1, <1>7 DEF Sound, Healthy, Known, Store
  <2> QED
    BY <1>7, <1>8, <1>9, <2>1, <2>3, <2>4 DEF Sound, Healthy, rest, i
<1> QED
  BY <1>11, <1>12

\* A change of the order of the tabs.
LEMMA ReorderTabFacts ==
  ASSUME NEW s, Sound(s), NEW x \in TabsOf(s), NEW j \in 1..Len(s.tabs),
         NEW n, n = ReorderTab(s, x, j)
  PROVE  /\ Sound(n)
         /\ TabsOf(n) = TabsOf(s) /\ n.repo = s.repo /\ n.route = s.route
         /\ n.tabs = IF j = PlaceOf(s.tabs, x) THEN s.tabs
                     ELSE InsertAt(RemoveAt(s.tabs, PlaceOf(s.tabs, x)), j, x)
<1> DEFINE i == PlaceOf(s.tabs, x)
           r == InsertAt(RemoveAt(s.tabs, i), j, x)
<1>1. /\ s \in Store /\ SelIsolated(s) /\ WellFormed(s) /\ x \in SessionIds
      /\ s.tabs \in Seq(SessionIds) /\ IsInjective(s.tabs)
      /\ x \in ToSet(s.tabs) /\ TabsOf(s) = ToSet(s.tabs)
  BY DEF Sound, Healthy, Store, TabsOf, ToSet, WellFormed
<1>2. i \in 1..Len(s.tabs) /\ Len(s.tabs) \in Nat
  BY <1>1, PlaceFacts
<1>3. /\ r \in Seq(SessionIds) /\ Len(r) = Len(s.tabs)
      /\ IsInjective(r) /\ ToSet(r) = ToSet(s.tabs)
  BY <1>1, Moved
<1>4. Len(s.tabs) <= 1 => j = i
  BY <1>2
<1>5. (IF j < 1 THEN 1 ELSE IF j > Len(s.tabs) THEN Len(s.tabs) ELSE j) = j
  BY <1>2
<1> HIDE DEF i, r
<1>6. CASE j = i
  BY <1>1, <1>5, <1>6 DEF ReorderTab, i
<1>7. CASE j # i
  <2>1. n = [s EXCEPT !.tabs = r]
    BY <1>4, <1>5, <1>7 DEF ReorderTab, i, r
  <2>2. /\ n \in Store /\ n.tabs = r /\ n.tabRepo = s.tabRepo /\ n.route = s.route
        /\ n.activeTab = s.activeTab /\ n.activeSession = s.activeSession
        /\ n.life = s.life /\ n.repo = s.repo /\ n.snap = s.snap /\ n.sel = s.sel
        /\ n.repos = s.repos /\ n.selected = s.selected
    BY <1>1, <1>3, <2>1 DEF Store
  <2>3. TabsOf(n) = TabsOf(s) /\ n.tabs # <<>>
    <3>1. ToSet(n.tabs) = ToSet(s.tabs) /\ Len(n.tabs) # 0
      BY <1>2, <1>3, <2>2
    <3> QED
      BY <3>1 DEF TabsOf, ToSet
  <2>4. WellFormed(n)
    BY <1>1, <1>3, <2>2, <2>3 DEF WellFormed
  <2>5. n.selected = Known(n, n.repo[n.activeSession]) /\ SelIsolated(n)
    BY <1>1, <2>2 DEF Sound, Healthy, Known, SelIsolated
  <2> QED
    BY <1>7, <2>2, <2>3, <2>4, <2>5 DEF Sound, Healthy, i, r
<1> QED
  BY <1>6, <1>7

\* What a webview reports of its tab.
LEMMA SyncTabMetadataFacts ==
  ASSUME NEW s, Sound(s), NEW x \in SessionIds, NEW report \in Event,
         SnapIsolated(report.snap), NEW n, n = SyncTabMetadata(s, x, report)
  PROVE  /\ Sound(n)
         /\ n.tabs = s.tabs /\ TabsOf(n) = TabsOf(s)
         /\ \A y \in SessionIds \ {x} : n.repo[y] = s.repo[y] /\ n.route[y] = s.route[y]
         /\ n.repo[x] \in {s.repo[x], report.repo}
         /\ x \in TabsOf(s) =>
              /\ n.route[x] = report.route
              /\ report.hasRepo => n.repo[x] = report.repo
<1> DEFINE r == IF report.hasRepo THEN report.repo ELSE s.tabRepo[x]
           snap == NormalizedSnapshot(report.snap, Known(s, r))
           changed == \/ report.route # s.route[x]
                      \/ r # s.tabRepo[x]
                      \/ snap # s.snap[x]
           kept == IF s.life[x] = "none" THEN "frozen" ELSE s.life[x]
           m == [s EXCEPT !.route[x] = report.route, !.tabRepo[x] = r,
                          !.repo[x] = r, !.snap[x] = snap,
                          !.life[x] = IF s.activeSession = x THEN "active" ELSE kept]
<1>1. s \in Store /\ SelIsolated(s) /\ WellFormed(s) /\ s.repo = s.tabRepo
  BY DEF Sound, Healthy, WellFormed
<1>2. /\ report.route \in Routes /\ report.repo \in MaybeRepo /\ report.snap \in Snapshot
      /\ report.hasRepo \in BOOLEAN
  BY DEF Event
<1>3. r \in MaybeRepo /\ Known(s, r) \in MaybeRepo
  BY <1>1, <1>2 DEF Store, Known, MaybeRepo
<1> HIDE DEF r
<1>4. snap \in Snapshot /\ SnapIsolated(snap)
  <2>1. /\ snap.path = IF report.snap.path = NoRepo THEN Known(s, r) ELSE report.snap.path
        /\ snap.sel = report.snap.sel /\ snap \in Snapshot
    BY <1>2, <1>3, StoreAssumption DEF NormalizedSnapshot, Snapshot
  <2>2. report.snap.path = NoRepo => report.snap.sel = {}
    BY <1>2, StoreAssumption DEF SnapIsolated, Snapshot, Selection
  <2> QED
    BY <2>1, <2>2 DEF SnapIsolated
<1> HIDE DEF snap
<1>5. CASE x \notin TabsOf(s) \/ ~changed
  <2>1. n = s
    BY <1>5 DEF SyncTabMetadata, r, snap
  <2>2. x \in TabsOf(s) => report.route = s.route[x] /\ r = s.tabRepo[x]
    BY <1>5
  <2> QED
    BY <2>1, <2>2, <1>1 DEF r
<1>6. CASE x \in TabsOf(s) /\ changed
  <2>1. s.life[x] = IF s.activeSession = x THEN "active" ELSE "frozen"
    BY <1>1, <1>6 DEF WellFormed
  <2>2. /\ m \in Store
        /\ m.tabs = s.tabs /\ m.activeTab = s.activeTab /\ m.activeSession = s.activeSession
        /\ m.route = [s.route EXCEPT ![x] = report.route]
        /\ m.tabRepo = [s.tabRepo EXCEPT ![x] = r]
        /\ m.repo = [s.repo EXCEPT ![x] = r]
        /\ m.snap = [s.snap EXCEPT ![x] = snap]
        /\ m.life = [s.life EXCEPT ![x] = @]
        /\ m.sel = s.sel /\ m.repos = s.repos /\ m.selected = s.selected
    BY <1>1, <1>2, <1>3, <1>4, <2>1 DEF Store
  <2>3. n = IF s.activeTab = x THEN [m EXCEPT !.selected = Known(s, r)] ELSE m
    BY <1>6 DEF SyncTabMetadata, r, snap
  <2> HIDE DEF m
  <2>4. /\ n \in Store
        /\ n.tabs = s.tabs /\ n.activeTab = s.activeTab /\ n.activeSession = s.activeSession
        /\ n.route = m.route /\ n.tabRepo = m.tabRepo /\ n.repo = m.repo /\ n.snap = m.snap
        /\ n.life = m.life /\ n.sel = s.sel /\ n.repos = s.repos
        /\ n.selected = IF s.activeTab = x THEN Known(s, r) ELSE s.selected
    <3>1. CASE s.activeTab = x
      <4>1. n = [m EXCEPT !.selected = Known(s, r)]
        BY <2>3, <3>1
      <4> QED
        BY <1>3, <2>2, <3>1, <4>1 DEF Store
    <3>2. CASE s.activeTab # x
      BY <2>2, <2>3, <3>2
    <3> QED
      BY <3>1, <3>2
  <2>5. n.life = s.life /\ n.repo = [s.repo EXCEPT ![x] = r] /\ TabsOf(n) = TabsOf(s)
    BY <1>1, <2>2, <2>4 DEF Store, TabsOf
  <2>6. \A y \in SessionIds \ {x} :
          n.repo[y] = s.repo[y] /\ n.route[y] = s.route[y] /\ n.snap[y] = s.snap[y]
    BY <1>1, <2>2, <2>4, <2>5 DEF Store
  <2>7. n.repo[x] = r /\ n.route[x] = report.route /\ n.snap[x] = snap
    BY <1>1, <2>2, <2>4, <2>5 DEF Store
  <2>8. WellFormed(n)
    BY <1>1, <1>6, <2>2, <2>4, <2>5, <2>6 DEF WellFormed
  <2>9. n.selected = Known(n, n.repo[n.activeSession])
    <3>1. s.activeSession = s.activeTab /\ s.activeTab \in SessionIds
      BY <1>1 DEF WellFormed, Store
    <3>2. CASE s.activeTab = x
      BY <3>1, <3>2, <2>4, <2>7 DEF Known
    <3>3. CASE s.activeTab # x
      BY <3>1, <3>3, <2>4, <2>6 DEF Known, Sound, Healthy
    <3> QED
      BY <3>2, <3>3
  <2>10. SelIsolated(n)
    BY <1>1, <1>4, <2>4, <2>6, <2>7 DEF SelIsolated
  <2> QED
    BY <2>4, <2>5, <2>6, <2>7, <2>8, <2>9, <2>10, <1>1 DEF Sound, Healthy, r
<1> QED
  BY <1>5, <1>6

\* The effect of the title bar changes nothing.
LEMMA NothingRepaired ==
  ASSUME NEW s, Sound(s), NEW n, n = EnsureActiveTab(s)
  PROVE  /\ Sound(n)
         /\ n.tabs = s.tabs /\ n.repo = s.repo /\ n.route = s.route
<1> DEFINE life == [x \in SessionIds |->
                      IF x \notin TabsOf(s) THEN "none"
                      ELSE IF x = s.activeTab THEN "active" ELSE "frozen"]
           repo == [x \in SessionIds |->
                      IF x \in TabsOf(s) THEN s.tabRepo[x] ELSE NoRepo]
           snap == [x \in SessionIds |->
                      IF x \in TabsOf(s) THEN s.snap[x] ELSE NoSnap]
<1>1. s \in Store /\ SelIsolated(s) /\ WellFormed(s) /\ s.repo = s.tabRepo
  BY DEF Sound, Healthy, WellFormed
<1>2. life = s.life
  BY <1>1 DEF WellFormed, Store
<1>3. repo = s.repo
  BY <1>1 DEF WellFormed, Store
<1>4. snap = s.snap
  BY <1>1 DEF WellFormed, Store
<1>5. s.activeTab \in TabsOf(s)
  BY <1>1 DEF WellFormed
<1>6. n = PointAt([s EXCEPT !.life = life, !.repo = repo, !.snap = snap], s.activeTab)
  BY <1>5 DEF EnsureActiveTab
<1> HIDE DEF life, repo, snap
<1>7. [s EXCEPT !.life = life, !.repo = repo, !.snap = snap] = s
  BY <1>1, <1>2, <1>3, <1>4 DEF Store
<1>8. n = PointAt(s, s.activeTab)
  BY <1>6, <1>7
<1>9. /\ s.activeSession = s.activeTab
      /\ s.selected = Known(s, s.tabRepo[s.activeTab])
  BY <1>1 DEF WellFormed, Sound, Healthy
<1>10. n = [s EXCEPT !.activeTab = s.activeTab, !.activeSession = s.activeSession,
                     !.selected = s.selected]
  BY <1>8, <1>9 DEF PointAt
<1>11. n = s
  BY <1>1, <1>10 DEF Store
<1> QED
  BY <1>11

\* The window is hidden or left.
LEMMA CaptureSound ==
  ASSUME NEW s, Sound(s), NEW n, n = CaptureSession(s, s.activeSession)
  PROVE  /\ Sound(n)
         /\ n.tabs = s.tabs /\ n.repo = s.repo /\ n.route = s.route
<1>1. s \in Store /\ SelIsolated(s) /\ s.activeSession \in SessionIds /\ WellFormed(s)
  BY DEF Sound, Healthy, Store
<1>2. /\ n \in Store /\ SelIsolated(n)
      /\ n.tabs = s.tabs /\ n.tabRepo = s.tabRepo /\ n.route = s.route
      /\ n.activeTab = s.activeTab /\ n.activeSession = s.activeSession
      /\ n.repo = s.repo /\ n.repos = s.repos /\ n.selected = s.selected
      /\ n.life = s.life
      /\ \A y \in SessionIds : y # s.activeSession => n.snap[y] = s.snap[y]
  BY <1>1, CaptureFacts
<1>3. TabsOf(n) = TabsOf(s)
  BY <1>2 DEF TabsOf
<1>4. WellFormed(n)
  BY <1>1, <1>2, <1>3 DEF WellFormed
<1> QED
  BY <1>2, <1>4 DEF Sound, Healthy, Known

\* A new list of repositories leaves every tab its own.
LEMMA SetRepositoriesFacts ==
  ASSUME NEW s, Sound(s), NEW rs \in SUBSET Repos, NEW n, n = SetRepositories(s, rs)
  PROVE  /\ Sound(n)
         /\ n.tabs = s.tabs /\ n.repo = s.repo /\ n.route = s.route
         /\ n.activeSession = s.activeSession /\ n.repos = rs
<1> DEFINE m == [s EXCEPT !.repos = rs]
<1>1. s \in Store /\ SelIsolated(s) /\ s.activeSession \in SessionIds /\ WellFormed(s)
  BY DEF Sound, Healthy, Store
<1>2. /\ m \in Store /\ m.repos = rs
      /\ m.tabs = s.tabs /\ m.tabRepo = s.tabRepo /\ m.route = s.route
      /\ m.activeTab = s.activeTab /\ m.activeSession = s.activeSession
      /\ m.repo = s.repo /\ m.life = s.life /\ m.snap = s.snap /\ m.sel = s.sel
  BY <1>1 DEF Store
<1>3. n = [m EXCEPT !.selected = Known(m, s.repo[s.activeSession])]
  BY DEF SetRepositories
<1> HIDE DEF m
<1>4. Known(m, s.repo[s.activeSession]) \in MaybeRepo
  BY <1>1, <1>2 DEF Known, MaybeRepo, Store
<1>5. /\ n \in Store /\ n.repos = rs /\ n.selected = Known(m, s.repo[s.activeSession])
      /\ n.tabs = s.tabs /\ n.tabRepo = s.tabRepo /\ n.route = s.route
      /\ n.activeTab = s.activeTab /\ n.activeSession = s.activeSession
      /\ n.repo = s.repo /\ n.life = s.life /\ n.snap = s.snap /\ n.sel = s.sel
  BY <1>2, <1>3, <1>4 DEF Store
<1>6. TabsOf(n) = TabsOf(s)
  BY <1>5 DEF TabsOf
<1>7. WellFormed(n)
  BY <1>1, <1>5, <1>6 DEF WellFormed
<1>8. n.selected = Known(n, n.repo[n.activeSession]) /\ SelIsolated(n)
  BY <1>1, <1>2, <1>5 DEF Known, SelIsolated
<1> QED
  BY <1>5, <1>7, <1>8 DEF Sound, Healthy

\* The user chooses one of the repositories of the list.
LEMMA SetSelectedRepositoryFacts ==
  ASSUME NEW s, Sound(s), NEW r \in s.repos, NEW n, n = SetSelectedRepository(s, r)
  PROVE  /\ Sound(n)
         /\ n.tabs = s.tabs /\ n.route = s.route
         /\ n.activeSession = s.activeSession
         /\ n.repo = [s.repo EXCEPT ![s.activeSession] = r]
<1> DEFINE a == s.activeSession
<1>1. /\ s \in Store /\ SelIsolated(s) /\ a \in SessionIds /\ WellFormed(s)
      /\ r \in MaybeRepo
  BY DEF Sound, Healthy, Store, MaybeRepo
<1>2. a = s.activeTab /\ a \in TabsOf(s) /\ s.life[a] = "active" /\ s.repo = s.tabRepo
  BY <1>1 DEF WellFormed
<1> HIDE DEF a
<1>3. /\ n \in Store
      /\ n.repo = [s.repo EXCEPT ![a] = r] /\ n.tabRepo = [s.tabRepo EXCEPT ![a] = r]
      /\ n.life = s.life /\ n.selected = r
      /\ n.tabs = s.tabs /\ n.route = s.route /\ n.activeTab = s.activeTab
      /\ n.activeSession = s.activeSession /\ n.repos = s.repos
      /\ n.snap = s.snap /\ n.sel = s.sel
  <2>1. CASE s.repo[a] # r
    <3>1. n = [[s EXCEPT !.repo[a] = r, !.life[a] = "active"] EXCEPT
                 !.selected = r, !.tabRepo[s.activeTab] = r]
      BY <1>2, <2>1 DEF SetSelectedRepository, a, TabsOf, Store
    <3>2. /\ n.repo = [s.repo EXCEPT ![a] = r] /\ n.tabRepo = [s.tabRepo EXCEPT ![a] = r]
          /\ n.life = [s.life EXCEPT ![a] = "active"] /\ n.selected = r
          /\ n.tabs = s.tabs /\ n.route = s.route /\ n.activeTab = s.activeTab
          /\ n.activeSession = s.activeSession /\ n.repos = s.repos
          /\ n.snap = s.snap /\ n.sel = s.sel
      BY <1>1, <1>2, <3>1 DEF Store
    <3>3. n.life = s.life
      BY <1>1, <1>2, <3>2 DEF Store
    <3>4. n = [s EXCEPT !.repo = n.repo, !.life = n.life, !.tabRepo = n.tabRepo,
                        !.selected = r]
      BY <1>1, <1>2, <3>1 DEF Store
    <3>5. n \in Store
      <4>1. /\ n.repo \in [SessionIds -> MaybeRepo] /\ n.tabRepo \in [SessionIds -> MaybeRepo]
            /\ n.life \in [SessionIds -> {"none", "active", "frozen"}]
        BY <1>1, <3>2, <3>3 DEF Store
      <4> QED
        BY <1>1, <3>4, <4>1 DEF Store
    <3> QED
      BY <3>2, <3>3, <3>5
  <2>2. CASE s.repo[a] = r
    <3>1. n = [s EXCEPT !.selected = r, !.tabRepo[s.activeTab] = r]
      BY <1>2, <2>2 DEF SetSelectedRepository, a
    <3>2. /\ n.repo = s.repo /\ n.tabRepo = [s.tabRepo EXCEPT ![a] = r]
          /\ n.life = s.life /\ n.selected = r
          /\ n.tabs = s.tabs /\ n.route = s.route /\ n.activeTab = s.activeTab
          /\ n.activeSession = s.activeSession /\ n.repos = s.repos
          /\ n.snap = s.snap /\ n.sel = s.sel
      BY <1>1, <1>2, <3>1 DEF Store
    <3>3. s.repo = [s.repo EXCEPT ![a] = r]
      BY <1>1, <2>2 DEF Store
    <3>4. n = [s EXCEPT !.tabRepo = n.tabRepo, !.selected = r]
      BY <1>1, <1>2, <3>1 DEF Store
    <3>5. n \in Store
      <4>1. n.tabRepo \in [SessionIds -> MaybeRepo]
        BY <1>1, <3>2 DEF Store
      <4> QED
        BY <1>1, <3>4, <4>1 DEF Store
    <3> QED
      BY <3>2, <3>3, <3>5
  <2> QED
    BY <2>1, <2>2
<1>4. TabsOf(n) = TabsOf(s) /\ n.repo[a] = r /\ n.repo = n.tabRepo
  BY <1>1, <1>2, <1>3 DEF TabsOf, Store
<1>5. \A y \in SessionIds \ {a} : n.repo[y] = s.repo[y]
  BY <1>1, <1>3 DEF Store
<1>6. WellFormed(n)
  BY <1>1, <1>2, <1>3, <1>4, <1>5 DEF WellFormed
<1>7. n.selected = Known(n, n.repo[n.activeSession]) /\ SelIsolated(n)
  BY <1>1, <1>3, <1>4 DEF Known, SelIsolated, a
<1> QED
  BY <1>3, <1>6, <1>7 DEF Sound, Healthy, a

\* Choosing a file, and everything else a user selects or looks at.
LEMMA ActivePathFacts ==
  ASSUME NEW s, Sound(s)
  PROVE  /\ ActivePath(s) \in MaybeRepo
         /\ ActivePath(s) # NoRepo => PathOf(s, s.activeSession) = ActivePath(s)
<1>1. s \in Store /\ s.activeSession \in SessionIds
  BY DEF Sound, Healthy, Store
<1>2. s.selected = Known(s, s.repo[s.activeSession])
  BY DEF Sound, Healthy
<1> QED
  BY <1>1, <1>2 DEF ActivePath, PathOf, Known, MaybeRepo, Store

Selecting(s, p, set, view) ==
  [s EXCEPT !.sel[s.activeSession][p] = set, !.view = view]

\* A selection that is of the files of its path keeps a store sound.
LEMMA SelectionChanged ==
  ASSUME NEW s, Sound(s), NEW p \in Repos, NEW set \in Selection,
         \A f \in set : f[2] = p, NEW view \in Views,
         NEW n, n = Selecting(s, p, set, view)
  PROVE  /\ Sound(n)
         /\ n.tabs = s.tabs /\ n.repo = s.repo /\ n.route = s.route
         /\ n.activeSession = s.activeSession
<1> DEFINE a == s.activeSession
           q == [s.sel[a] EXCEPT ![p] = set]
<1>1. s \in Store /\ SelIsolated(s) /\ a \in SessionIds /\ WellFormed(s)
  BY DEF Sound, Healthy, Store
<1>2. q \in [Repos -> Selection] /\ q[p] = set /\ \A r \in Repos \ {p} : q[r] = s.sel[a][r]
  BY <1>1 DEF Store
<1>3. n = [s EXCEPT !.sel[a] = q, !.view = view]
  BY DEF Selecting
<1> HIDE DEF a, q
<1>4. n.sel = [s.sel EXCEPT ![a] = q]
  BY <1>1, <1>3 DEF Store
<1>5. n.sel \in [SessionIds -> [Repos -> Selection]]
  BY <1>1, <1>2, <1>4 DEF Store
<1>6. n = [[s EXCEPT !.view = view] EXCEPT !.sel = n.sel]
  BY <1>1, <1>3 DEF Store
<1>7. /\ n \in Store
      /\ n.tabs = s.tabs /\ n.tabRepo = s.tabRepo /\ n.route = s.route
      /\ n.activeTab = s.activeTab /\ n.activeSession = s.activeSession
      /\ n.repo = s.repo /\ n.repos = s.repos /\ n.selected = s.selected
      /\ n.life = s.life /\ n.snap = s.snap
  BY <1>1, <1>5, <1>6 DEF Store
<1>8. ASSUME NEW y \in SessionIds, NEW r \in Repos, NEW f \in n.sel[y][r]
      PROVE  f[2] = r
  <2>1. CASE y = a /\ r = p
    BY <2>1, <1>1, <1>2, <1>4, <1>8 DEF Store
  <2>2. CASE ~(y = a /\ r = p)
    <3>1. n.sel[y][r] = s.sel[y][r]
      BY <2>2, <1>1, <1>2, <1>4 DEF Store
    <3> QED
      BY <3>1, <1>1, <1>8 DEF SelIsolated
  <2> QED
    BY <2>1, <2>2
<1>9. SelIsolated(n)
  BY <1>1, <1>7, <1>8 DEF SelIsolated
<1>10. TabsOf(n) = TabsOf(s)
  BY <1>7 DEF TabsOf
<1>11. WellFormed(n) /\ n.selected = Known(n, n.repo[n.activeSession])
  BY <1>1, <1>7, <1>10 DEF WellFormed, Sound, Healthy, Known
<1> QED
  BY <1>7, <1>9, <1>11 DEF Sound, Healthy, a

\* The file selected is of the repository whose files are listed.
LEMMA SelectFileFacts ==
  ASSUME NEW s, Sound(s), NEW kind \in Kinds, ActivePath(s) # NoRepo,
         NEW n, n = SelectFile(s, kind, ActivePath(s))
  PROVE  /\ Sound(n)
         /\ n.tabs = s.tabs /\ n.repo = s.repo /\ n.route = s.route
         /\ n.activeSession = s.activeSession
<1> DEFINE p == ActivePath(s)
           set == {f \in s.sel[s.activeSession][p] : f[1] # kind} \cup {<<kind, p>>}
<1>1. p \in Repos /\ p # NoRepo
  BY ActivePathFacts DEF MaybeRepo
<1> HIDE DEF p
<1>2. s \in Store /\ SelIsolated(s) /\ s.activeSession \in SessionIds
  BY DEF Sound, Healthy, Store
<1>3. s.sel[s.activeSession][p] \in Selection
  BY <1>1, <1>2 DEF Store
<1>4. set \in Selection
  BY <1>1, <1>3 DEF Selection
<1>5. \A f \in set : f[2] = p
  BY <1>1, <1>2 DEF SelIsolated
<1>6. n = Selecting(s, p, set, "FileDiff")
  BY <1>1, <1>2 DEF SelectFile, Selecting, p, Store
<1>7. "FileDiff" \in Views
  BY StoreAssumption
<1> HIDE DEF set
<1> QED
  BY <1>1, <1>4, <1>5, <1>6, <1>7, SelectionChanged

\* Clearing a selection only takes away from it.
LEMMA ClearSelectionFacts ==
  ASSUME NEW s, Sound(s), NEW kind \in Kinds, NEW n, n = ClearSelection(s, kind)
  PROVE  /\ Sound(n)
         /\ n.tabs = s.tabs /\ n.repo = s.repo /\ n.route = s.route
         /\ n.activeSession = s.activeSession
<1> DEFINE p == ActivePath(s)
           set == {f \in s.sel[s.activeSession][p] : f[1] # kind}
<1>1. CASE p = NoRepo
  BY <1>1 DEF ClearSelection
<1>2. CASE p # NoRepo
  <2>1. p \in Repos
    BY <1>2, ActivePathFacts DEF MaybeRepo
  <2> HIDE DEF p
  <2>2. s \in Store /\ SelIsolated(s) /\ s.activeSession \in SessionIds
    BY DEF Sound, Healthy, Store
  <2>3. s.sel[s.activeSession][p] \in Selection
    BY <2>1, <2>2 DEF Store
  <2>4. set \in Selection
    BY <2>3 DEF Selection
  <2>5. \A f \in set : f[2] = p
    BY <2>1, <2>2 DEF SelIsolated
  <2>6. n = [s EXCEPT !.sel[s.activeSession][p] = set]
    BY <1>2 DEF ClearSelection, p
  <2> HIDE DEF set
  <2>7. s.view \in Views /\ n = Selecting(s, p, set, s.view)
    BY <2>2, <2>6 DEF Store, Selecting
  <2> QED
    BY <2>1, <2>4, <2>5, <2>7, SelectionChanged
<1> QED
  BY <1>1, <1>2

\* The view is free.
LEMMA SetMainWindowViewFacts ==
  ASSUME NEW s, Sound(s), NEW v \in Views, NEW n, n = SetMainWindowView(s, v)
  PROVE  /\ Sound(n)
         /\ n.tabs = s.tabs /\ n.repo = s.repo /\ n.route = s.route
         /\ n.activeSession = s.activeSession
<1>1. s \in Store /\ SelIsolated(s) /\ WellFormed(s)
  BY DEF Sound, Healthy, Store
<1>2. /\ n \in Store /\ n.sel = s.sel
      /\ n.tabs = s.tabs /\ n.tabRepo = s.tabRepo /\ n.route = s.route
      /\ n.activeTab = s.activeTab /\ n.activeSession = s.activeSession
      /\ n.repo = s.repo /\ n.repos = s.repos /\ n.selected = s.selected
      /\ n.life = s.life /\ n.snap = s.snap
  BY <1>1 DEF SetMainWindowView, Store
<1>3. TabsOf(n) = TabsOf(s)
  BY <1>2 DEF TabsOf
<1> QED
  BY <1>1, <1>2, <1>3 DEF Sound, Healthy, WellFormed, Known, SelIsolated

-----------------------------------------------------------------------------
(* The disk, and what is read from it *)

\* The store of the first start is sound, and nothing is chosen in it.
LEMMA InitStoreSound ==
  Sound(InitStore) /\ InitStore.repo = [x \in SessionIds |-> NoRepo]
  /\ TabsOf(InitStore) = {MainTab} /\ InitStore.route = [x \in SessionIds |-> "git"]
<1>1. InitStore \in Store
  <2>1. <<MainTab>> \in Seq(SessionIds)
    BY StoreAssumption
  <2>2. NothingSelected \in [SessionIds -> [Repos -> Selection]]
    BY DEF NothingSelected, Selection
  <2> QED
    BY <2>1, <2>2, StoreAssumption DEF InitStore, Store, MaybeRepo, Routes
<1>2. TabsOf(InitStore) = {MainTab}
  BY DEF InitStore, TabsOf
<1>3. WellFormed(InitStore)
  <2>1. InitStore.tabs # <<>> /\ IsInjective(InitStore.tabs)
    BY DEF InitStore, IsInjective
  <2> QED
    BY <1>2, <2>1 DEF WellFormed, InitStore
<1>4. SelIsolated(InitStore)
  BY DEF SelIsolated, InitStore, NothingSelected
<1>5. InitStore.selected = Known(InitStore, InitStore.repo[InitStore.activeSession])
  BY StoreAssumption DEF InitStore, Known
<1> QED
  BY <1>1, <1>2, <1>3, <1>4, <1>5 DEF Sound, Healthy, InitStore

\* What is left out of the disk is none of what makes a store sound.
LEMMA PersistedSound ==
  ASSUME NEW s, Sound(s), NEW n, n = Persisted(s)
  PROVE  Sound(n) /\ n.repo = s.repo /\ n.tabs = s.tabs
<1>1. s \in Store /\ SelIsolated(s) /\ WellFormed(s)
  BY DEF Sound, Healthy, Store
<1>2. NothingSelected \in [SessionIds -> [Repos -> Selection]] /\ "none" \in Views
  BY StoreAssumption DEF NothingSelected, Selection
<1>3. /\ n \in Store /\ n.sel = NothingSelected
      /\ n.tabs = s.tabs /\ n.tabRepo = s.tabRepo /\ n.route = s.route
      /\ n.activeTab = s.activeTab /\ n.activeSession = s.activeSession
      /\ n.repo = s.repo /\ n.repos = s.repos /\ n.selected = s.selected
      /\ n.life = s.life /\ n.snap = s.snap
  BY <1>1, <1>2 DEF Persisted, Store
<1>4. TabsOf(n) = TabsOf(s)
  BY <1>3 DEF TabsOf
<1>5. SelIsolated(n)
  BY <1>1, <1>3 DEF SelIsolated, NothingSelected
<1> QED
  BY <1>1, <1>3, <1>4, <1>5 DEF Sound, Healthy, WellFormed, Known

\* Reading it back restores the view of the active session.
LEMMA RehydratedFacts ==
  ASSUME NEW d, Sound(d), NEW n, n = Rehydrated(d)
  PROVE  /\ Sound(n)
         /\ n.tabs = d.tabs /\ n.repo = d.repo /\ n.route = d.route
         /\ n.activeSession = d.activeSession
<1> DEFINE a == d.activeSession
           m == RestoreSession(d, a)
<1>1. d \in Store /\ SelIsolated(d) /\ WellFormed(d) /\ a \in SessionIds
  BY DEF Sound, Healthy, Store
<1>2. d.life[a] = "active" /\ d.selected = Known(d, d.repo[a])
  BY <1>1 DEF WellFormed, Sound, Healthy
<1>3. /\ m \in Store /\ SelIsolated(m)
      /\ m.tabs = d.tabs /\ m.tabRepo = d.tabRepo /\ m.route = d.route
      /\ m.activeTab = d.activeTab /\ m.activeSession = d.activeSession
      /\ m.repo = d.repo /\ m.repos = d.repos /\ m.selected = d.selected
      /\ m.life = d.life /\ m.snap = d.snap
  BY <1>1, RestoreFacts
<1>4. n = [m EXCEPT !.selected = Known(d, d.repo[a])]
  BY <1>2 DEF Rehydrated
<1> HIDE DEF m, a
<1>5. n = m
  BY <1>2, <1>3, <1>4 DEF Store
<1>6. TabsOf(n) = TabsOf(d)
  BY <1>3, <1>5 DEF TabsOf
<1>7. WellFormed(n)
  BY <1>1, <1>3, <1>5, <1>6 DEF WellFormed
<1> QED
  BY <1>2, <1>3, <1>5, <1>7 DEF Sound, Healthy, Known, a

\* A webview that reads the store points it at its own tab.
LEMMA BindRuntimeFacts ==
  ASSUME NEW s, Sound(s), NEW x \in TabsOf(s), NEW n, n = BindRuntime(s, x)
  PROVE  /\ n \in Store /\ SelIsolated(n)
         /\ n.activeTab = x /\ n.activeSession = x /\ n.life[x] = "active"
         /\ n.repo = s.repo /\ n.tabRepo = s.repo
         /\ n.selected = Known(n, n.repo[x])
<1> DEFINE r == IF s.life[x] # "none" /\ s.repo[x] # NoRepo
                THEN s.repo[x] ELSE s.tabRepo[x]
           m == [s EXCEPT !.repo[x] = r, !.life[x] = "active"]
           k == RestoreSession(m, x)
<1>1. /\ s \in Store /\ SelIsolated(s) /\ WellFormed(s) /\ x \in SessionIds
      /\ s.repo = s.tabRepo /\ s.life[x] # "none"
  <2>1. s \in Store /\ SelIsolated(s) /\ WellFormed(s)
    BY DEF Sound, Healthy
  <2>2. x \in SessionIds
    BY <2>1 DEF Store, TabsOf
  <2> QED
    BY <2>1, <2>2 DEF WellFormed
<1>2. r = s.repo[x] /\ r \in MaybeRepo
  BY <1>1 DEF Store
<1> HIDE DEF r
<1>3. /\ m \in Store
      /\ m.tabs = s.tabs /\ m.tabRepo = s.tabRepo /\ m.route = s.route
      /\ m.repo = s.repo /\ m.life = [s.life EXCEPT ![x] = "active"]
      /\ m.repos = s.repos /\ m.snap = s.snap /\ m.sel = s.sel
  <2>1. [s.repo EXCEPT ![x] = r] = s.repo
    BY <1>1, <1>2 DEF Store
  <2>2. m = [s EXCEPT !.repo = s.repo, !.life[x] = "active"]
    BY <1>1, <2>1 DEF Store
  <2> QED
    BY <1>1, <2>2 DEF Store
<1> HIDE DEF m
<1>4. SelIsolated(m)
  BY <1>1, <1>3 DEF SelIsolated
<1>5. /\ k \in Store /\ SelIsolated(k)
      /\ k.tabs = m.tabs /\ k.tabRepo = m.tabRepo /\ k.repo = m.repo /\ k.repos = m.repos
      /\ k.life = m.life
  BY <1>1, <1>3, <1>4, RestoreFacts
<1>6. n = [k EXCEPT !.activeSession = x, !.activeTab = x, !.selected = Known(s, r)]
  BY <1>1 DEF BindRuntime, k, m, r
<1> HIDE DEF k
<1>7. Known(s, r) \in MaybeRepo
  BY <1>2, <1>1 DEF Known, MaybeRepo, Store
<1>8. /\ n \in Store /\ n.sel = k.sel /\ n.snap = k.snap
      /\ n.activeTab = x /\ n.activeSession = x
      /\ n.repo = k.repo /\ n.tabRepo = k.tabRepo /\ n.life = k.life /\ n.repos = k.repos
      /\ n.selected = Known(s, r)
  BY <1>1, <1>5, <1>6, <1>7 DEF Store
<1>9. SelIsolated(n)
  BY <1>5, <1>8 DEF SelIsolated
<1>10. n.life[x] = "active"
  BY <1>1, <1>3, <1>5, <1>8 DEF Store
<1>11. n.selected = Known(n, n.repo[x])
  BY <1>2, <1>3, <1>5, <1>8 DEF Known
<1> QED
  BY <1>1, <1>3, <1>5, <1>8, <1>9, <1>10, <1>11

\* What is left of it of that tab alone is a sound store of one tab.
LEMMA OnlyOwnFacts ==
  ASSUME NEW s \in Store, SelIsolated(s), NEW x \in SessionIds,
         s.activeTab = x, s.activeSession = x, s.life[x] = "active",
         s.repo = s.tabRepo, s.selected = Known(s, s.repo[x]),
         NEW n, n = OnlyOwn(s, x)
  PROVE  /\ Sound(n) /\ n.tabs = <<x>> /\ n.activeSession = x
         /\ n.repo = [y \in SessionIds |-> IF y = x THEN s.repo[x] ELSE NoRepo]
<1> DEFINE Own(f, g) == [y \in SessionIds |-> IF y = x THEN f[y] ELSE g[y]]
           life == [y \in SessionIds |-> IF y = x THEN s.life[y] ELSE "none"]
           repo == Own(s.repo, InitStore.repo)
           route == Own(s.route, InitStore.route)
           snap == Own(s.snap, InitStore.snap)
           sel == Own(s.sel, InitStore.sel)
<1>1. /\ InitStore.repo = [y \in SessionIds |-> NoRepo]
      /\ InitStore.tabRepo = [y \in SessionIds |-> NoRepo]
      /\ InitStore.route = [y \in SessionIds |-> "git"]
      /\ InitStore.snap = [y \in SessionIds |-> NoSnap]
      /\ InitStore.sel = NothingSelected
  BY DEF InitStore
<1>2. /\ life \in [SessionIds -> {"none", "active", "frozen"}]
      /\ repo \in [SessionIds -> MaybeRepo] /\ route \in [SessionIds -> Routes]
      /\ snap \in [SessionIds -> Snapshot \cup {NoSnap}]
  BY <1>1 DEF Store, MaybeRepo, Routes
<1>3. sel \in [SessionIds -> [Repos -> Selection]]
  BY <1>1 DEF Store, NothingSelected, Selection
<1>4. /\ \A y \in SessionIds : life[y] = IF y = x THEN "active" ELSE "none"
      /\ \A y \in SessionIds \ {x} : repo[y] = NoRepo /\ snap[y] = NoSnap
      /\ repo[x] = s.repo[x] /\ snap[x] = s.snap[x]
      /\ \A y \in SessionIds, p \in Repos : sel[y][p] \in {s.sel[y][p], {}}
  BY <1>1 DEF NothingSelected
<1>5. n = [s EXCEPT !.tabs = <<x>>, !.tabRepo = repo, !.route = route, !.life = life,
                    !.repo = repo, !.snap = snap, !.sel = sel]
  BY <1>1 DEF OnlyOwn
<1>6. repo = [y \in SessionIds |-> IF y = x THEN s.repo[x] ELSE NoRepo]
  BY <1>1
<1> HIDE DEF life, repo, route, snap, sel
<1>7. <<x>> \in Seq(SessionIds) /\ <<x>> # <<>> /\ IsInjective(<<x>>)
  BY DEF IsInjective
<1>8. /\ n \in Store
      /\ n.tabs = <<x>> /\ n.tabRepo = repo /\ n.life = life /\ n.repo = repo
      /\ n.snap = snap /\ n.sel = sel
      /\ n.activeTab = x /\ n.activeSession = x /\ n.repos = s.repos
      /\ n.selected = s.selected
  BY <1>2, <1>3, <1>5, <1>7 DEF Store
<1>9. TabsOf(n) = {x}
  BY <1>8 DEF TabsOf
<1>10. WellFormed(n)
  BY <1>4, <1>7, <1>8, <1>9 DEF WellFormed
<1>11. n.selected = Known(n, n.repo[n.activeSession])
  BY <1>4, <1>8 DEF Known
<1>12. SelIsolated(n)
  BY <1>4, <1>8 DEF SelIsolated
<1> QED
  BY <1>6, <1>8, <1>10, <1>11, <1>12 DEF Sound, Healthy

\* The store a webview starts with is sound and of its tab.
LEMMA LoadedFacts ==
  ASSUME Sound(disk), NEW x \in TabsOf(disk), NEW n, n = Loaded(x)
  PROVE  /\ Sound(n) /\ n.tabs = <<x>>
         /\ n.repo = [y \in SessionIds |-> IF y = x THEN disk.repo[x] ELSE NoRepo]
<1> DEFINE read == Rehydrated(disk)
           own == IF read.activeSession = x THEN read ELSE BindRuntime(read, x)
<1>1. /\ Sound(read) /\ read.tabs = disk.tabs /\ read.repo = disk.repo
      /\ read.activeSession = disk.activeSession
  BY RehydratedFacts
<1>2. n = OnlyOwn(own, x)
  BY DEF Loaded
<1> HIDE DEF read
<1>3. x \in TabsOf(read) /\ x \in SessionIds
  BY <1>1 DEF TabsOf, Sound, Healthy, Store
<1>4. /\ own \in Store /\ SelIsolated(own)
      /\ own.activeTab = x /\ own.activeSession = x /\ own.life[x] = "active"
      /\ own.repo = read.repo /\ own.tabRepo = read.repo
      /\ own.selected = Known(own, own.repo[x])
  <2>1. CASE read.activeSession = x
    BY <1>1, <1>3, <2>1 DEF Sound, Healthy, WellFormed
  <2>2. CASE read.activeSession # x
    BY <1>1, <1>3, <2>2, BindRuntimeFacts
  <2> QED
    BY <2>1, <2>2
<1> HIDE DEF own
<1> QED
  BY <1>1, <1>2, <1>3, <1>4, OnlyOwnFacts
-----------------------------------------------------------------------------
(* The order of the tabs and the order previewed *)

\* Filtering keeps the elements asked for, in their order.  The rank of a
\* place among those kept is an injection into as many numbers, hence onto.
LEMMA FilteredFacts ==
  ASSUME NEW T, NEW q \in Seq(T), IsInjective(q), NEW S, NEW r, r = Filtered(q, S)
  PROVE  /\ r \in Seq(T) /\ IsInjective(r) /\ ToSet(r) = ToSet(q) \cap S
         /\ SameOrder(r, q, T)
<1> DEFINE places == {i \in DOMAIN q : q[i] \in S}
           UpTo(i) == {j \in places : j <= i}
           c == Cardinality(places)
           at(n) == CHOOSE i \in places : Cardinality(UpTo(i)) = n
<1>1. DOMAIN q = 1..Len(q) /\ Len(q) \in Nat /\ \A i \in DOMAIN q : q[i] \in T
  OBVIOUS
<1>2. IsFiniteSet(places) /\ c \in Nat /\ places \subseteq Nat
  <2>1. IsFiniteSet(1..Len(q))
    BY <1>1, FS_Interval
  <2>2. places \in SUBSET (1..Len(q))
    BY <1>1
  <2>3. IsFiniteSet(places)
    BY <2>1, <2>2, FS_Subset
  <2> QED
    BY <2>2, <2>3, FS_CardinalityType
<1>3. r = [n \in 1..c |-> q[at(n)]]
  BY DEF Filtered
<1>4. \A i \in places : q[i] \in S /\ i \in DOMAIN q
  OBVIOUS
<1>5. \A i \in DOMAIN q : q[i] \in S => i \in places
  OBVIOUS
<1> HIDE DEF places
<1>6. ASSUME NEW i \in places
      PROVE  /\ IsFiniteSet(UpTo(i)) /\ Cardinality(UpTo(i)) \in Nat
             /\ Cardinality(UpTo(i)) \in 1..c
  <2>1. UpTo(i) \in SUBSET places /\ i \in UpTo(i)
    BY <1>2
  <2>2. IsFiniteSet(UpTo(i)) /\ Cardinality(UpTo(i)) <= c
    BY <2>1, <1>2, FS_Subset
  <2>3. Cardinality(UpTo(i)) # 0 /\ Cardinality(UpTo(i)) \in Nat
    BY <2>1, <2>2, FS_EmptySet, FS_CardinalityType
  <2> QED
    BY <2>2, <2>3, <1>2
<1>7. ASSUME NEW i \in places, NEW j \in places, i < j
      PROVE  Cardinality(UpTo(i)) < Cardinality(UpTo(j))
  <2> i \in Nat /\ j \in Nat /\ places \subseteq Nat
    BY <1>2
  <2>4. UpTo(i) \subseteq UpTo(j)
    <3> SUFFICES ASSUME NEW k \in places, k <= i PROVE k <= j
      OBVIOUS
    <3>1. k \in Nat
      OBVIOUS
    <3> QED
      BY <3>1, <1>7
  <2>5. j \in UpTo(j) /\ j \notin UpTo(i)
    BY <1>7
  <2>1. UpTo(i) \cup {j} \in SUBSET UpTo(j) /\ j \notin UpTo(i)
    BY <2>4, <2>5
  <2>2. Cardinality(UpTo(i) \cup {j}) = Cardinality(UpTo(i)) + 1
    BY <1>6, <2>1, FS_AddElement
  <2>3. Cardinality(UpTo(i) \cup {j}) <= Cardinality(UpTo(j))
    BY <1>6, <2>1, FS_Subset
  <2>6. Cardinality(UpTo(i)) \in Nat /\ Cardinality(UpTo(j)) \in Nat
    BY <1>6
  <2> HIDE DEF UpTo
  <2> QED
    BY <2>2, <2>3, <2>6
<1> HIDE DEF UpTo, c
<1>8. ASSUME NEW i \in places, NEW j \in places, Cardinality(UpTo(i)) = Cardinality(UpTo(j))
      PROVE  i = j
  <2>1. i < j \/ j < i \/ i = j
    BY <1>2
  <2>2. Cardinality(UpTo(i)) \in Nat
    BY <1>6, <1>2
  <2> QED
    BY <2>1, <2>2, <1>7, <1>8
<1>9. ASSUME NEW n \in 1..c PROVE \E i \in places : Cardinality(UpTo(i)) = n
  <2> DEFINE rank == [i \in places |-> Cardinality(UpTo(i))]
  <2>1. rank \in Injection(places, 1..c)
    <3>1. rank \in [places -> 1..c]
      BY <1>6
    <3>2. \A i, j \in places : rank[i] = rank[j] => i = j
      BY <1>8
    <3> QED
      BY <3>1, <3>2 DEF Injection, IsInjective
  <2>2. IsFiniteSet(1..c) /\ Cardinality(1..c) = c
    BY <1>2, FS_Interval
  <2>3. rank \in Surjection(places, 1..c)
    <3>1. Cardinality(places) = Cardinality(1..c)
      BY <2>2 DEF c
    <3> HIDE DEF rank
    <3> QED
      BY <2>1, <2>2, <3>1, FS_Injection
  <2> QED
    BY <2>3 DEF Surjection
<1>10. ASSUME NEW n \in 1..c PROVE at(n) \in places /\ Cardinality(UpTo(at(n))) = n
  BY <1>9
<1> HIDE DEF at
<1>11. DOMAIN r = 1..c /\ \A n \in 1..c : r[n] = q[at(n)]
  BY <1>3
<1>12. ASSUME NEW m \in 1..c, NEW n \in 1..c PROVE m < n <=> at(m) < at(n)
  <2>1. at(m) \in Nat /\ at(n) \in Nat
    BY <1>2, <1>10
  <2>2. at(m) < at(n) => m < n
    BY <1>7, <1>10
  <2>3. at(n) < at(m) => n < m
    BY <1>7, <1>10
  <2>4. at(n) = at(m) => n = m
    BY <1>10
  <2> QED
    BY <2>1, <2>2, <2>3, <2>4
<1>13. r \in Seq(T)
  <2>1. \A n \in 1..c : q[at(n)] \in T
    BY <1>1, <1>4, <1>10
  <2> QED
    BY <2>1, <1>2, <1>3
<1>14. IsInjective(r)
  <2>1. ASSUME NEW m \in 1..c, NEW n \in 1..c, r[m] = r[n] PROVE m = n
    <3>1. at(m) = at(n)
      BY <2>1, <1>4, <1>10, <1>11 DEF IsInjective
    <3> QED
      BY <3>1, <1>10
  <2> QED
    BY <2>1, <1>11 DEF IsInjective
<1>15. ToSet(r) = ToSet(q) \cap S
  <2>1. ToSet(r) \subseteq ToSet(q) \cap S
    BY <1>4, <1>10, <1>11 DEF ToSet
  <2>2. ASSUME NEW i \in DOMAIN q, q[i] \in S PROVE q[i] \in ToSet(r)
    <3>1. i \in places /\ Cardinality(UpTo(i)) \in 1..c
      BY <2>2, <1>5, <1>6
    <3>2. at(Cardinality(UpTo(i))) = i
      BY <3>1, <1>8, <1>10
    <3> QED
      BY <3>1, <3>2, <1>11 DEF ToSet
  <2> QED
    BY <2>1, <2>2 DEF ToSet
<1>16. SameOrder(r, q, T)
  <2> SUFFICES ASSUME NEW i \in DOMAIN r, NEW j \in DOMAIN r,
                      NEW k \in DOMAIN q, NEW l \in DOMAIN q, r[i] = q[k], r[j] = q[l]
               PROVE  i < j <=> k < l
    BY DEF SameOrder
  <2>1. at(i) = k /\ at(j) = l
    BY <1>4, <1>10, <1>11 DEF IsInjective
  <2> QED
    BY <2>1, <1>11, <1>12
<1> QED
  BY <1>13, <1>14, <1>15, <1>16

\* SameOrder is reflexive,
LEMMA SameOrderSelf ==
  ASSUME NEW T, NEW q \in Seq(T), IsInjective(q) PROVE SameOrder(q, q, T)
BY DEF SameOrder, IsInjective

\* transitive where the middle one holds the elements of the first,
LEMMA SameOrderThrough ==
  ASSUME NEW S, NEW p, NEW q, NEW r, ToSet(p) \subseteq ToSet(q),
         SameOrder(p, q, S), SameOrder(q, r, S)
  PROVE  SameOrder(p, r, S)
<1> SUFFICES ASSUME NEW i \in DOMAIN p, NEW j \in DOMAIN p,
                    NEW k \in DOMAIN r, NEW l \in DOMAIN r,
                    p[i] = r[k], p[j] = r[l], p[i] \in S, p[j] \in S
             PROVE  i < j <=> k < l
  BY DEF SameOrder
<1>1. p[i] \in ToSet(q) /\ p[j] \in ToSet(q)
  BY DEF ToSet
<1>2. PICK m \in DOMAIN q : q[m] = p[i]
  BY <1>1 DEF ToSet
<1>3. PICK n \in DOMAIN q : q[n] = p[j]
  BY <1>1 DEF ToSet
<1>4. i < j <=> m < n
  BY <1>2, <1>3 DEF SameOrder
<1>5. m < n <=> k < l
  BY <1>2, <1>3 DEF SameOrder
<1> QED
  BY <1>4, <1>5

\* symmetric,
LEMMA SameOrderConverse ==
  ASSUME NEW S, NEW p, NEW q, SameOrder(p, q, S) PROVE SameOrder(q, p, S)
BY DEF SameOrder

\* and holds of any part of the elements.
LEMMA SameOrderPart ==
  ASSUME NEW S, NEW R \in SUBSET S, NEW p, NEW q, SameOrder(p, q, S) PROVE SameOrder(p, q, R)
BY DEF SameOrder

\* No element comes earlier in a sequence that holds more.
LEMMA NotEarlier ==
  ASSUME NEW T, NEW q \in Seq(T), NEW r \in Seq(T), IsInjective(q),
         ToSet(q) \subseteq ToSet(r), SameOrder(q, r, T),
         NEW i \in DOMAIN q, NEW k \in DOMAIN r, q[i] = r[k]
  PROVE  i <= k
<1>1. /\ DOMAIN q = 1..Len(q) /\ DOMAIN r = 1..Len(r) /\ Len(q) \in Nat /\ Len(r) \in Nat
      /\ \A a \in DOMAIN q : q[a] \in T
  OBVIOUS
<1> DEFINE h == [a \in 1..i |-> CHOOSE b \in DOMAIN r : r[b] = q[a]]
<1>2. ASSUME NEW a \in 1..i PROVE h[a] \in DOMAIN r /\ r[h[a]] = q[a] /\ a \in DOMAIN q
  <2>1. a \in DOMAIN q
    BY <1>1
  <2>2. q[a] \in ToSet(r)
    BY <2>1 DEF ToSet
  <2>3. \E b \in DOMAIN r : r[b] = q[a]
    BY <2>2 DEF ToSet
  <2> QED
    BY <2>1, <2>3
<1>3. DOMAIN h = 1..i
  OBVIOUS
<1>8. h \in [1..i -> DOMAIN r]
  BY <1>2
<1> HIDE DEF h
<1>4. ASSUME NEW a \in 1..i PROVE h[a] <= k
  <2>1. k < h[a] <=> i < a
    BY <1>1, <1>2 DEF SameOrder
  <2> QED
    BY <2>1, <1>1, <1>2
<1>5. h \in Injection(1..i, 1..k)
  <2>1. \A a \in 1..i : h[a] \in 1..k
    BY <1>1, <1>2, <1>4
  <2>2. \A a, b \in 1..i : h[a] = h[b] => a = b
    BY <1>2 DEF IsInjective
  <2>3. h \in [1..i -> 1..k]
    BY <2>1, <1>8
  <2> QED
    BY <2>2, <2>3 DEF Injection, IsInjective
<1>6. IsFiniteSet(1..k) /\ Cardinality(1..k) = k /\ Cardinality(1..i) = i
  BY <1>1, FS_Interval
<1>7. Cardinality(1..i) <= Cardinality(1..k)
  BY <1>5, <1>6, FS_Injection
<1> QED
  BY <1>6, <1>7

\* The same elements in the same order are the same sequence.
LEMMA SameOrderEqual ==
  ASSUME NEW T, NEW q \in Seq(T), NEW r \in Seq(T), IsInjective(q), IsInjective(r),
         ToSet(q) = ToSet(r), SameOrder(q, r, T)
  PROVE  q = r
<1>1. DOMAIN q = 1..Len(q) /\ DOMAIN r = 1..Len(r) /\ Len(q) \in Nat /\ Len(r) \in Nat
  OBVIOUS
<1>2. SameOrder(r, q, T)
  BY SameOrderConverse
<1>3. ASSUME NEW i \in DOMAIN q, NEW k \in DOMAIN r, q[i] = r[k] PROVE i = k
  <2>1. i <= k
    BY <1>3, NotEarlier
  <2>2. k <= i
    BY <1>2, <1>3, NotEarlier
  <2> QED
    BY <2>1, <2>2, <1>1
<1>4. ASSUME NEW i \in DOMAIN q PROVE i \in DOMAIN r /\ r[i] = q[i]
  <2>1. q[i] \in ToSet(r)
    BY DEF ToSet
  <2>2. PICK k \in DOMAIN r : r[k] = q[i]
    BY <2>1 DEF ToSet
  <2> QED
    BY <2>2, <1>3
<1>5. ASSUME NEW k \in DOMAIN r PROVE k \in DOMAIN q
  <2>1. r[k] \in ToSet(q)
    BY DEF ToSet
  <2>2. PICK i \in DOMAIN q : q[i] = r[k]
    BY <2>1 DEF ToSet
  <2> QED
    BY <2>2, <1>3
<1>6. DOMAIN q = DOMAIN r
  BY <1>4, <1>5
<1>7. Len(q) = Len(r)
  BY <1>6
<1>8. \A i \in 1..Len(q) : q[i] = r[i]
  BY <1>1, <1>4
<1> QED
  BY <1>7, <1>8, SeqEqual

\* Without an element, and with it moved, the others keep their order.
LEMMA WithoutOrder ==
  ASSUME NEW T, NEW q \in Seq(T), IsInjective(q), NEW x \in ToSet(q),
         NEW w, w = RemoveAt(q, PlaceOf(q, x))
  PROVE  SameOrder(w, q, T)
<1> DEFINE i == PlaceOf(q, x)
           from(a) == IF a < i THEN a ELSE a + 1
<1>1. i \in 1..Len(q) /\ Len(q) \in Nat /\ DOMAIN q = 1..Len(q)
  BY PlaceFacts
<1> HIDE DEF i
<1>2. /\ w \in Seq(T) /\ Len(w) = Len(q) - 1
      /\ \A j \in 1..(Len(q) - 1) : w[j] = IF j < i THEN q[j] ELSE q[j + 1]
  BY <1>1, RemoveAtFacts DEF i
<1>3. DOMAIN w = 1..(Len(q) - 1)
  BY <1>1, <1>2
<1>4. ASSUME NEW a \in DOMAIN w PROVE from(a) \in DOMAIN q /\ w[a] = q[from(a)]
  BY <1>1, <1>2, <1>3
<1>5. ASSUME NEW a \in DOMAIN w, NEW b \in DOMAIN w PROVE a < b <=> from(a) < from(b)
  BY <1>1, <1>3
<1> HIDE DEF from
<1> SUFFICES ASSUME NEW a \in DOMAIN w, NEW b \in DOMAIN w,
                    NEW k \in DOMAIN q, NEW l \in DOMAIN q, w[a] = q[k], w[b] = q[l]
             PROVE  a < b <=> k < l
  BY DEF SameOrder
<1>6. from(a) = k /\ from(b) = l
  BY <1>4 DEF IsInjective
<1> QED
  BY <1>5, <1>6

\* Moving an element leaves the others in order.
LEMMA MovedOrder ==
  ASSUME NEW T, NEW q \in Seq(T), IsInjective(q), NEW x \in ToSet(q),
         NEW j \in 1..Len(q), NEW r, r = InsertAt(RemoveAt(q, PlaceOf(q, x)), j, x)
  PROVE  SameOrder(r, q, T \ {x})
<1> DEFINE w == RemoveAt(q, PlaceOf(q, x))
           back(a) == IF a < j THEN a ELSE a - 1
<1>1. w \in Seq(T) /\ SameOrder(w, q, T) /\ Len(w) + 1 = Len(q) /\ x \in T
  <2>1. PlaceOf(q, x) \in 1..Len(q)
    BY PlaceFacts
  <2> QED
    BY <2>1, WithoutOrder, RemoveAtFacts DEF ToSet
<1>2. r = InsertAt(w, j, x)
  OBVIOUS
<1> HIDE DEF w
<1>3. j \in 1..(Len(w) + 1) /\ Len(w) \in Nat
  BY <1>1
<1>4. /\ r \in Seq(T) /\ Len(r) = Len(w) + 1
      /\ \A a \in 1..(Len(w) + 1) :
           r[a] = IF a < j THEN w[a] ELSE IF a = j THEN x ELSE w[a - 1]
  <2>1. /\ InsertAt(w, j, x) \in Seq(T) /\ Len(InsertAt(w, j, x)) = Len(w) + 1
        /\ \A a \in 1..(Len(w) + 1) : InsertAt(w, j, x)[a] =
             IF a < j THEN w[a] ELSE IF a = j THEN x ELSE w[a - 1]
    BY <1>1, <1>3, InsertAtFacts
  <2> QED
    BY <1>2, <2>1
<1>5. DOMAIN r = 1..(Len(w) + 1) /\ DOMAIN w = 1..Len(w)
  BY <1>1, <1>4
<1>6. ASSUME NEW a \in DOMAIN r, r[a] # x PROVE back(a) \in DOMAIN w /\ r[a] = w[back(a)] /\ a # j
  BY <1>3, <1>4, <1>5, <1>6
<1>7. ASSUME NEW a \in DOMAIN r, NEW b \in DOMAIN r, a # j, b # j
      PROVE  a < b <=> back(a) < back(b)
  BY <1>3, <1>5, <1>7
<1> HIDE DEF back
<1> SUFFICES ASSUME NEW a \in DOMAIN r, NEW b \in DOMAIN r,
                    NEW k \in DOMAIN q, NEW l \in DOMAIN q, r[a] = q[k], r[b] = q[l],
                    r[a] \in T \ {x}, r[b] \in T \ {x}
             PROVE  a < b <=> k < l
  BY DEF SameOrder
<1>8. back(a) < back(b) <=> k < l
  BY <1>1, <1>6 DEF SameOrder
<1> QED
  BY <1>6, <1>7, <1>8

\* Taking an element out and putting it back changes nothing.
LEMMA Reinserted ==
  ASSUME NEW T, NEW q \in Seq(T), IsInjective(q), NEW x \in ToSet(q)
  PROVE  InsertAt(RemoveAt(q, PlaceOf(q, x)), PlaceOf(q, x), x) = q
<1> DEFINE i == PlaceOf(q, x)
           w == RemoveAt(q, i)
           r == InsertAt(w, i, x)
<1>1. i \in 1..Len(q) /\ q[i] = x /\ Len(q) \in Nat /\ x \in T
  BY PlaceFacts DEF ToSet
<1> HIDE DEF i
<1>2. /\ w \in Seq(T) /\ Len(w) = Len(q) - 1
      /\ \A j \in 1..(Len(q) - 1) : w[j] = IF j < i THEN q[j] ELSE q[j + 1]
  BY <1>1, RemoveAtFacts
<1> HIDE DEF w
<1>3. i \in 1..(Len(w) + 1) /\ Len(w) + 1 = Len(q)
  BY <1>1, <1>2
<1>4. /\ r \in Seq(T) /\ Len(r) = Len(w) + 1
      /\ \A a \in 1..(Len(w) + 1) :
           r[a] = IF a < i THEN w[a] ELSE IF a = i THEN x ELSE w[a - 1]
  BY <1>1, <1>2, <1>3, InsertAtFacts
<1> HIDE DEF r
<1>5. ASSUME NEW a \in 1..Len(q) PROVE r[a] = q[a]
  <2>1. CASE a < i
    BY <2>1, <1>1, <1>2, <1>3, <1>4
  <2>2. CASE a = i
    BY <2>2, <1>1, <1>3, <1>4
  <2>3. CASE a > i
    <3>1. a - 1 \in 1..(Len(q) - 1) /\ ~(a - 1 < i) /\ (a - 1) + 1 = a
      BY <2>3, <1>1
    <3>2. r[a] = w[a - 1] /\ w[a - 1] = q[(a - 1) + 1]
      BY <2>3, <3>1, <1>1, <1>2, <1>3, <1>4
    <3> QED
      BY <3>1, <3>2
  <2> QED
    BY <2>1, <2>2, <2>3, <1>1
<1>6. r = q
  BY <1>3, <1>4, <1>5, SeqEqual
<1> QED
  BY <1>6 DEF r, w, i

\* What comes of the tabs by opening and closing: those that stay keep their
\* order, and the new ones come last.
Follows(u, t) ==
  /\ SameOrder(u, t, SessionIds)
  /\ \A k, l \in DOMAIN u : u[k] \in ToSet(t) /\ u[l] \notin ToSet(t) => k < l

\* Tabs follow themselves,
LEMMA SameFollows ==
  ASSUME NEW t \in Seq(SessionIds), IsInjective(t)
  PROVE  Follows(t, t)
BY SameOrderSelf DEF Follows, ToSet

\* a tab that is opened comes last,
LEMMA OpenedFollows ==
  ASSUME NEW t \in Seq(SessionIds), IsInjective(t), NEW x \in SessionIds, x \notin ToSet(t)
  PROVE  Follows(Append(t, x), t)
<1> DEFINE u == Append(t, x)
<1>1. /\ u \in Seq(SessionIds) /\ Len(u) = Len(t) + 1 /\ Len(t) \in Nat
      /\ \A i \in 1..Len(t) : u[i] = t[i]
      /\ u[Len(t) + 1] = x
  BY AppendProperties
<1>2. DOMAIN u = 1..(Len(t) + 1) /\ DOMAIN t = 1..Len(t)
  BY <1>1
<1> HIDE DEF u
<1>3. ASSUME NEW k \in DOMAIN u, u[k] \in ToSet(t) PROVE k \in DOMAIN t /\ u[k] = t[k]
  BY <1>1, <1>2, <1>3
<1>4. ASSUME NEW k \in DOMAIN u, u[k] \notin ToSet(t) PROVE k = Len(t) + 1
  BY <1>1, <1>2, <1>4 DEF ToSet
<1>5. SameOrder(u, t, SessionIds)
  <2> SUFFICES ASSUME NEW i \in DOMAIN u, NEW j \in DOMAIN u,
                      NEW k \in DOMAIN t, NEW l \in DOMAIN t, u[i] = t[k], u[j] = t[l]
               PROVE  i < j <=> k < l
    BY DEF SameOrder
  <2>1. u[i] \in ToSet(t) /\ u[j] \in ToSet(t)
    BY DEF ToSet
  <2>2. i = k /\ j = l
    BY <2>1, <1>3 DEF IsInjective
  <2> QED
    BY <2>2
<1>6. \A k, l \in DOMAIN u : u[k] \in ToSet(t) /\ u[l] \notin ToSet(t) => k < l
  BY <1>2, <1>3, <1>4
<1> QED
  BY <1>5, <1>6 DEF Follows, u

\* and one that is closed leaves the others in order.
LEMMA ClosedFollows ==
  ASSUME NEW t \in Seq(SessionIds), IsInjective(t), NEW x \in ToSet(t),
         NEW u, u = RemoveAt(t, PlaceOf(t, x))
  PROVE  Follows(u, t)
<1>1. ToSet(u) \subseteq ToSet(t) /\ SameOrder(u, t, SessionIds)
  BY Without, WithoutOrder
<1>2. \A k \in DOMAIN u : u[k] \in ToSet(t)
  BY <1>1 DEF ToSet
<1> QED
  BY <1>1, <1>2 DEF Follows

\* The order previewed follows the tabs.
LEMMA PreviewFollows ==
  ASSUME drag \in [tab : SessionIds, order : Seq(SessionIds)],
         NEW t \in Seq(SessionIds), Previews(drag, t),
         NEW u \in Seq(SessionIds), IsInjective(u), Follows(u, t),
         NEW d, d = Resynced(u)
  PROVE  d \in [tab : SessionIds, order : Seq(SessionIds)] /\ Previews(d, u)
<1> DEFINE q == drag.order
           kept == Filtered(q, ToSet(u))
           new == Filtered(u, SessionIds \ ToSet(q))
           o == kept \o new
           S == SessionIds \ {drag.tab}
<1>1. CASE q = <<>> \/ drag.tab \notin ToSet(u)
  <2>1. d = NoDrag
    BY <1>1 DEF Resynced
  <2>2. NoDrag \in [tab : SessionIds, order : Seq(SessionIds)] /\ NoDrag.order = <<>>
    BY StoreAssumption DEF NoDrag
  <2> QED
    BY <2>1, <2>2 DEF Previews
<1>2. CASE q # <<>> /\ drag.tab \in ToSet(u)
  <2>1. /\ q \in Seq(SessionIds) /\ IsInjective(q) /\ ToSet(q) = ToSet(t)
        /\ drag.tab \in SessionIds /\ SameOrder(q, t, S)
    BY <1>2 DEF Previews
  <2>2. d = [drag EXCEPT !.order = o]
    BY <1>2 DEF Resynced
  <2> HIDE DEF q
  <2>3. /\ kept \in Seq(SessionIds) /\ IsInjective(kept) /\ ToSet(kept) = ToSet(q) \cap ToSet(u)
        /\ SameOrder(kept, q, SessionIds)
    BY <2>1, FilteredFacts
  <2>4. /\ new \in Seq(SessionIds) /\ IsInjective(new)
        /\ ToSet(new) = ToSet(u) \cap (SessionIds \ ToSet(q))
        /\ SameOrder(new, u, SessionIds)
    BY FilteredFacts
  <2> HIDE DEF kept, new
  <2>5. ToSet(u) \subseteq SessionIds
    BY DEF ToSet
  <2>6. /\ o \in Seq(SessionIds) /\ Len(o) = Len(kept) + Len(new)
        /\ \A i \in 1..(Len(kept) + Len(new)) :
             o[i] = IF i <= Len(kept) THEN kept[i] ELSE new[i - Len(kept)]
    BY <2>3, <2>4, ConcatProperties
  <2>7. /\ DOMAIN o = 1..(Len(kept) + Len(new))
        /\ DOMAIN kept = 1..Len(kept) /\ DOMAIN new = 1..Len(new)
        /\ Len(kept) \in Nat /\ Len(new) \in Nat
    BY <2>3, <2>4, <2>6
  <2> HIDE DEF o
  <2>8. ASSUME NEW i \in DOMAIN o, i <= Len(kept)
        PROVE  i \in DOMAIN kept /\ o[i] = kept[i] /\ o[i] \in ToSet(q)
    <3>1. i \in DOMAIN kept /\ o[i] = kept[i]
      BY <2>6, <2>7, <2>8
    <3> QED
      BY <3>1, <2>3 DEF ToSet
  <2>9. ASSUME NEW i \in DOMAIN o, ~(i <= Len(kept))
        PROVE  /\ i - Len(kept) \in DOMAIN new /\ o[i] = new[i - Len(kept)]
               /\ o[i] \notin ToSet(q)
    <3>1. i - Len(kept) \in DOMAIN new /\ o[i] = new[i - Len(kept)]
      BY <2>6, <2>7, <2>9
    <3>2. new[i - Len(kept)] \in ToSet(new)
      BY <3>1 DEF ToSet
    <3> QED
      BY <3>1, <3>2, <2>4
  <2>10. IsInjective(o)
    <3> SUFFICES ASSUME NEW i \in DOMAIN o, NEW j \in DOMAIN o, o[i] = o[j] PROVE i = j
      BY DEF IsInjective
    <3>1. CASE i <= Len(kept)
      <4>1. j <= Len(kept)
        BY <3>1, <2>8, <2>9
      <4> QED
        BY <3>1, <4>1, <2>3, <2>8 DEF IsInjective
    <3>2. CASE ~(i <= Len(kept))
      <4>1. ~(j <= Len(kept))
        BY <3>2, <2>8, <2>9
      <4>2. i - Len(kept) = j - Len(kept)
        BY <3>2, <4>1, <2>4, <2>9 DEF IsInjective
      <4> QED
        BY <4>2, <2>7
    <3> QED
      BY <3>1, <3>2
  <2>11. ToSet(o) = ToSet(u)
    <3>1. ToSet(o) \subseteq ToSet(kept) \cup ToSet(new)
      BY <2>8, <2>9 DEF ToSet
    <3>2. ASSUME NEW i \in DOMAIN kept PROVE kept[i] \in ToSet(o)
      <4>1. i \in DOMAIN o /\ o[i] = kept[i]
        BY <2>6, <2>7
      <4> QED
        BY <4>1 DEF ToSet
    <3>3. ASSUME NEW i \in DOMAIN new PROVE new[i] \in ToSet(o)
      <4>1. i + Len(kept) \in DOMAIN o /\ ~(i + Len(kept) <= Len(kept))
            /\ (i + Len(kept)) - Len(kept) = i
        BY <2>7
      <4>2. o[i + Len(kept)] = new[i]
        BY <4>1, <2>9
      <4> QED
        BY <4>1, <4>2 DEF ToSet
    <3>4. ToSet(kept) \cup ToSet(new) \subseteq ToSet(o)
      BY <3>2, <3>3 DEF ToSet
    <3> QED
      BY <3>1, <3>4, <2>3, <2>4, <2>5
  <2>12. SameOrder(kept, u, S)
    <3>1. SameOrder(kept, q, S) /\ SameOrder(u, t, S)
      BY <2>3 DEF SameOrder, Follows
    <3>2. SameOrder(kept, t, S)
      BY <2>1, <2>3, <3>1, SameOrderThrough
    <3>3. SameOrder(t, u, S)
      BY <3>1, SameOrderConverse
    <3>4. ToSet(kept) \subseteq ToSet(t)
      BY <2>1, <2>3
    <3> QED
      BY <3>2, <3>3, <3>4, SameOrderThrough
  <2>13. SameOrder(o, u, S)
    <3> SUFFICES ASSUME NEW i \in DOMAIN o, NEW j \in DOMAIN o,
                        NEW k \in DOMAIN u, NEW l \in DOMAIN u,
                        o[i] = u[k], o[j] = u[l], o[i] \in S, o[j] \in S
                 PROVE  i < j <=> k < l
      BY DEF SameOrder
    <3>1. i \in Nat /\ j \in Nat /\ k \in Nat /\ l \in Nat
      BY <2>7
    <3>2. CASE i <= Len(kept) /\ j <= Len(kept)
      BY <3>2, <2>8, <2>12 DEF SameOrder
    <3>3. CASE i <= Len(kept) /\ ~(j <= Len(kept))
      <4>1. k < l
        BY <3>3, <2>1, <2>8, <2>9 DEF Follows
      <4>2. i < j
        BY <3>1, <3>3, <2>7
      <4> QED
        BY <4>1, <4>2
    <3>4. CASE ~(i <= Len(kept)) /\ j <= Len(kept)
      <4>1. l < k
        BY <3>4, <2>1, <2>8, <2>9 DEF Follows
      <4>2. j < i
        BY <3>1, <3>4, <2>7
      <4> QED
        BY <3>1, <4>1, <4>2
    <3>5. CASE ~(i <= Len(kept)) /\ ~(j <= Len(kept))
      <4>1. i - Len(kept) < j - Len(kept) <=> k < l
        BY <3>5, <2>4, <2>9 DEF SameOrder
      <4> QED
        BY <4>1, <3>1, <2>7
    <3> QED
      BY <3>2, <3>3, <3>4, <3>5
  <2>14. /\ d \in [tab : SessionIds, order : Seq(SessionIds)]
         /\ d.order = o /\ d.tab = drag.tab
    BY <2>2, <2>6
  <2> QED
    BY <1>2, <2>10, <2>11, <2>13, <2>14 DEF Previews
<1> QED
  BY <1>1, <1>2
-----------------------------------------------------------------------------
(* Every action of the host keeps the invariant *)

\* What is used of a sound store.
LEMMA StoreTabs ==
  ASSUME NEW s, Sound(s)
  PROVE  /\ s \in Store /\ s.tabs \in Seq(SessionIds) /\ IsInjective(s.tabs)
         /\ TabsOf(s) = ToSet(s.tabs) /\ TabsOf(s) \subseteq SessionIds
         /\ s.activeTab \in TabsOf(s) /\ s.activeTab \in SessionIds
         /\ s.activeSession = s.activeTab
         /\ s.repo = s.tabRepo /\ s.route \in [SessionIds -> Routes]
         /\ s.repo \in [SessionIds -> MaybeRepo] /\ s.repos \subseteq Repos
<1>1. s \in Store /\ WellFormed(s)
  BY DEF Sound, Healthy
<1>2. s.tabs \in Seq(SessionIds)
  BY <1>1 DEF Store
<1>3. TabsOf(s) = ToSet(s.tabs) /\ TabsOf(s) \subseteq SessionIds
  BY <1>2 DEF TabsOf, ToSet
<1> QED
  BY <1>1, <1>2, <1>3 DEF WellFormed, Store

\* The host's store becomes h, what is known of the other tabs being kept.
LEMMA HostChanged ==
  ASSUME IInv, NEW h, Sound(h), Within(h, chosen), HostBecomes(h),
         Follows(h.tabs, host.tabs),
         made \subseteq made', TabsOf(h) \subseteq made', made' \subseteq SessionIds,
         UNCHANGED <<disk, child, childRoute, dirty, chan, requests, listening, known, chosen>>,
         \A x \in Bound \cap TabsOf(h) :
           x \in TabsOf(host) /\ h.route[x] = host.route[x] /\ h.repo[x] = host.repo[x]
  PROVE  IInv'
<1>1. host' = h /\ drag' = Resynced(h.tabs) /\ Bound' = Bound
  BY DEF HostBecomes, Bound
<1>2. h \in Store /\ h.tabs \in Seq(SessionIds) /\ IsInjective(h.tabs)
  BY StoreTabs
<1>3. host.tabs \in Seq(SessionIds)
  BY StoreTabs DEF IInv, StoresInv
<1>4. drag' \in [tab : SessionIds, order : Seq(SessionIds)] /\ Previews(drag', h.tabs)
  BY <1>1, <1>2, <1>3, PreviewFollows DEF IInv, TypeOK, DragInv
<1>5. TypeOK'
  BY <1>1, <1>2, <1>4 DEF IInv, TypeOK
<1>6. StoresInv'
  BY <1>1 DEF IInv, StoresInv
<1>7. EventsInv'
  BY DEF IInv, EventsInv
<1>8. ReportsInv'
  BY <1>1 DEF IInv, ReportsInv, Agrees, LastAgrees
<1>9. DragInv'
  BY <1>1, <1>4 DEF DragInv
<1> QED
  BY <1>5, <1>6, <1>7, <1>8, <1>9 DEF IInv

LEMMA HostCreatesTabStep ==
  ASSUME IInv, NEW x \in SessionIds, HostCreatesTab(x)
  PROVE  IInv'
<1> DEFINE h == CreateTab(host, x, host.route[host.activeTab], NoRepo)
<1>1. /\ Sound(host) /\ Within(host, chosen) /\ x \notin TabsOf(host) /\ x \notin made
      /\ TabsOf(host) \subseteq made /\ Bound \subseteq made /\ made \subseteq SessionIds
  BY DEF IInv, StoresInv, TypeOK, HostCreatesTab
<1>2. /\ host.route[host.activeTab] \in Routes /\ NoRepo \in MaybeRepo
      /\ host.tabs \in Seq(SessionIds) /\ IsInjective(host.tabs)
      /\ TabsOf(host) = ToSet(host.tabs)
      /\ host.route \in [SessionIds -> Routes] /\ host.repo \in [SessionIds -> MaybeRepo]
  BY <1>1, StoreTabs DEF MaybeRepo
<1>3. /\ Sound(h)
      /\ h.tabs = Append(host.tabs, x) /\ TabsOf(h) = TabsOf(host) \cup {x}
      /\ h.repo = [host.repo EXCEPT ![x] = NoRepo]
      /\ h.route = [host.route EXCEPT ![x] = host.route[host.activeTab]]
  BY <1>1, <1>2, CreateTabFacts
<1>4. HostBecomes(h) /\ made' = made \cup {x}
      /\ UNCHANGED <<disk, child, childRoute, dirty, chan, requests, listening, known, chosen>>
  BY DEF HostCreatesTab, webviews
<1> HIDE DEF h
<1>5. Within(h, chosen)
  BY <1>1, <1>2, <1>3 DEF Within
<1>6. Follows(h.tabs, host.tabs)
  BY <1>1, <1>2, <1>3, OpenedFollows
<1>7. \A y \in Bound \cap TabsOf(h) :
        y \in TabsOf(host) /\ h.route[y] = host.route[y] /\ h.repo[y] = host.repo[y]
  BY <1>1, <1>2, <1>3
<1>8. made \subseteq made' /\ TabsOf(h) \subseteq made' /\ made' \subseteq SessionIds
  BY <1>1, <1>3, <1>4
<1> QED
  BY <1>3, <1>4, <1>5, <1>6, <1>7, <1>8, HostChanged

\* The operations that leave the tabs and what they show as they were.
LEMMA HostKeeps ==
  ASSUME IInv, NEW h, Sound(h), HostBecomes(h),
         h.tabs = host.tabs, h.repo = host.repo, h.route = host.route,
         UNCHANGED <<disk, child, childRoute, dirty, chan, requests, listening, known,
                     made, chosen>>
  PROVE  IInv'
<1>1. Sound(host) /\ Within(host, chosen) /\ TabsOf(host) \subseteq made /\ made \subseteq SessionIds
  BY DEF IInv, StoresInv, TypeOK
<1>2. Within(h, chosen)
  BY <1>1 DEF Within
<1>3. TabsOf(h) = TabsOf(host)
  BY DEF TabsOf
<1>4. Follows(h.tabs, host.tabs)
  BY <1>1, StoreTabs, SameFollows
<1> QED
  BY <1>1, <1>2, <1>3, <1>4, HostChanged

LEMMA HostActivatesTabStep ==
  ASSUME IInv, NEW x \in SessionIds, HostActivatesTab(x)
  PROVE  IInv'
<1>1. Sound(host)
  BY DEF IInv, StoresInv
<1> DEFINE h == ActivateTab(host, x)
<1>2. Sound(h) /\ h.tabs = host.tabs /\ h.repo = host.repo /\ h.route = host.route
  BY <1>1, ActivateTabFacts
<1>3. HostBecomes(h)
      /\ UNCHANGED <<disk, child, childRoute, dirty, chan, requests, listening, known,
                     made, chosen>>
  BY DEF HostActivatesTab, webviews, ghosts
<1> HIDE DEF h
<1> QED
  BY <1>2, <1>3, HostKeeps

LEMMA HostAdvancesStep ==
  ASSUME IInv, NEW backward \in BOOLEAN, HostAdvances(backward)
  PROVE  IInv'
<1> DEFINE n == Len(host.tabs)
           i == PlaceOf(host.tabs, host.activeTab)
           next == IF backward THEN ((i - 2 + n) % n) + 1 ELSE (i % n) + 1
           h == ActivateTab(host, host.tabs[next])
<1>1. /\ Sound(host) /\ host.tabs \in Seq(SessionIds) /\ TabsOf(host) = ToSet(host.tabs)
      /\ host.activeTab \in ToSet(host.tabs)
  BY StoreTabs DEF IInv, StoresInv
<1>2. i \in 1..n /\ n \in Nat /\ n > 1
  BY <1>1, PlaceFacts DEF HostAdvances
<1> HIDE DEF i, n
<1>3. next \in 1..n
  <2>1. i % n \in 0..(n - 1) /\ (i - 2 + n) % n \in 0..(n - 1)
    BY <1>2
  <2> QED
    BY <2>1, <1>2
<1> HIDE DEF next
<1>4. host.tabs[next] \in SessionIds
  BY <1>1, <1>3 DEF n
<1>5. Sound(h) /\ h.tabs = host.tabs /\ h.repo = host.repo /\ h.route = host.route
  BY <1>1, <1>4, ActivateTabFacts
<1>6. HostBecomes(h)
      /\ UNCHANGED <<disk, child, childRoute, dirty, chan, requests, listening, known,
                     made, chosen>>
  BY DEF HostAdvances, webviews, ghosts, next, i, n
<1> HIDE DEF h
<1> QED
  BY <1>5, <1>6, HostKeeps

LEMMA HostClosesTabStep ==
  ASSUME IInv, NEW x \in SessionIds, HostClosesTab(x)
  PROVE  IInv'
<1> DEFINE h == CloseTab(host, x)
<1>1. /\ Sound(host) /\ Within(host, chosen) /\ x \in TabsOf(host) /\ Len(host.tabs) > 1
      /\ TabsOf(host) \subseteq made /\ made \subseteq SessionIds
  BY DEF IInv, StoresInv, TypeOK, HostClosesTab
<1>2. /\ host.tabs \in Seq(SessionIds) /\ IsInjective(host.tabs)
      /\ TabsOf(host) = ToSet(host.tabs)
      /\ host.route \in [SessionIds -> Routes] /\ host.repo \in [SessionIds -> MaybeRepo]
  BY <1>1, StoreTabs
<1>3. /\ Sound(h)
      /\ h.tabs = RemoveAt(host.tabs, PlaceOf(host.tabs, x))
      /\ TabsOf(h) = TabsOf(host) \ {x}
      /\ h.repo = [host.repo EXCEPT ![x] = NoRepo]
      /\ h.route = [host.route EXCEPT ![x] = "git"]
  BY <1>1, CloseTabFacts
<1>4. HostBecomes(h)
      /\ UNCHANGED <<disk, child, childRoute, dirty, chan, requests, listening, known,
                     made, chosen>>
  BY DEF HostClosesTab, webviews, ghosts
<1> HIDE DEF h
<1>5. Within(h, chosen)
  BY <1>1, <1>2, <1>3 DEF Within
<1>6. Follows(h.tabs, host.tabs)
  BY <1>1, <1>2, <1>3, ClosedFollows
<1>7. \A y \in Bound \cap TabsOf(h) :
        y \in TabsOf(host) /\ h.route[y] = host.route[y] /\ h.repo[y] = host.repo[y]
  BY <1>1, <1>2, <1>3, StoreTabs
<1>8. made \subseteq made' /\ TabsOf(h) \subseteq made' /\ made' \subseteq SessionIds
  BY <1>1, <1>3, <1>4
<1> QED
  BY <1>3, <1>4, <1>5, <1>6, <1>7, <1>8, HostChanged

LEMMA HostCapturesStep ==
  ASSUME IInv, HostCaptures
  PROVE  IInv'
<1>1. Sound(host)
  BY DEF IInv, StoresInv
<1> DEFINE h == CaptureSession(host, host.activeSession)
<1>2. Sound(h) /\ h.tabs = host.tabs /\ h.repo = host.repo /\ h.route = host.route
  BY <1>1, CaptureSound
<1>3. HostBecomes(h)
      /\ UNCHANGED <<disk, child, childRoute, dirty, chan, requests, listening, known,
                     made, chosen>>
  BY DEF HostCaptures, webviews, ghosts
<1> HIDE DEF h
<1> QED
  BY <1>2, <1>3, HostKeeps

LEMMA HostEnsuresActiveTabStep ==
  ASSUME IInv, HostEnsuresActiveTab
  PROVE  IInv'
<1>1. Sound(host)
  BY DEF IInv, StoresInv
<1> DEFINE h == EnsureActiveTab(host)
<1>2. Sound(h) /\ h.tabs = host.tabs /\ h.repo = host.repo /\ h.route = host.route
  BY <1>1, NothingRepaired
<1>3. HostBecomes(h)
      /\ UNCHANGED <<disk, child, childRoute, dirty, chan, requests, listening, known,
                     made, chosen>>
  BY DEF HostEnsuresActiveTab, webviews, ghosts
<1> HIDE DEF h
<1> QED
  BY <1>2, <1>3, HostKeeps

LEMMA HostLoadsRepositoriesStep ==
  ASSUME IInv, HostLoadsRepositories
  PROVE  IInv'
<1>1. Sound(host) /\ known \in SUBSET Repos
  BY DEF IInv, StoresInv, TypeOK
<1> DEFINE h == SetRepositories(host, known)
<1>2. Sound(h) /\ h.tabs = host.tabs /\ h.repo = host.repo /\ h.route = host.route
  BY <1>1, SetRepositoriesFacts
<1>3. HostBecomes(h)
      /\ UNCHANGED <<disk, child, childRoute, dirty, chan, requests, listening, known,
                     made, chosen>>
  BY DEF HostLoadsRepositories, webviews, ghosts
<1> HIDE DEF h
<1> QED
  BY <1>2, <1>3, HostKeeps

LEMMA PersistStep ==
  ASSUME IInv, Persist
  PROVE  IInv'
<1>1. /\ Sound(host) /\ Within(host, chosen)
      /\ disk' = Persisted(host)
      /\ UNCHANGED <<host, child, childRoute, dirty, chan, requests, listening, known, drag,
                     made, chosen>>
  BY DEF IInv, StoresInv, Persist, webviews, ghosts
<1>2. Sound(disk') /\ disk'.repo = host.repo /\ TabsOf(disk') = TabsOf(host)
  BY <1>1, PersistedSound DEF TabsOf
<1>3. Within(disk', chosen)
  BY <1>1, <1>2 DEF Within
<1>4. Bound' = Bound
  BY <1>1 DEF Bound
<1>5. TypeOK'
  BY <1>1, <1>2 DEF IInv, TypeOK, Sound, Healthy
<1>6. StoresInv'
  BY <1>1, <1>2, <1>3, <1>4 DEF IInv, StoresInv
<1>7. EventsInv' /\ DragInv'
  BY <1>1 DEF IInv, EventsInv, DragInv
<1>8. ReportsInv'
  BY <1>1, <1>4 DEF IInv, ReportsInv, Agrees, LastAgrees
<1> QED
  BY <1>5, <1>6, <1>7, <1>8 DEF IInv

LEMMA HostRegistersListenerStep ==
  ASSUME IInv, HostRegistersListener
  PROVE  IInv'
<1>1. /\ listening < 2 /\ listening' = listening + 1
      /\ requests' = IF listening' = 2 THEN TabsOf(host) ELSE requests
      /\ UNCHANGED <<host, disk, child, childRoute, dirty, chan, known, drag, made, chosen>>
  BY DEF HostRegistersListener, webviews, ghosts
<1>2. TabsOf(host) \subseteq SessionIds
  BY StoreTabs DEF IInv, StoresInv
<1>3. Bound' = Bound
  BY <1>1 DEF Bound
<1>4. TypeOK'
  BY <1>1, <1>2 DEF IInv, TypeOK
<1>5. StoresInv'
  BY <1>1, <1>3 DEF IInv, StoresInv
<1>6. EventsInv' /\ DragInv'
  BY <1>1 DEF IInv, EventsInv, DragInv
<1>7. ReportsInv'
  BY <1>1 DEF ReportsInv
<1> QED
  BY <1>4, <1>5, <1>6, <1>7 DEF IInv

LEMMA HostReceivesStep ==
  ASSUME IInv, NEW x \in SessionIds, HostReceives(x)
  PROVE  IInv'
<1> DEFINE event == Head(chan[x])
           h == IF listening >= 1 THEN SyncTabMetadata(host, x, event) ELSE host
<1>1. /\ Sound(host) /\ Within(host, chosen) /\ chan[x] \in Seq(Event) /\ chan[x] # <<>>
      /\ chan \in [SessionIds -> Seq(Event)] /\ TabsOf(host) \subseteq made
      /\ requests \subseteq SessionIds
  BY DEF IInv, StoresInv, TypeOK, HostReceives
<1>2. /\ chan' = [chan EXCEPT ![x] = Tail(@)] /\ HostBecomes(h)
      /\ requests' \in {requests, requests \cup {x}}
      /\ UNCHANGED <<disk, child, childRoute, dirty, listening, known, made, chosen>>
  BY DEF HostReceives, ghosts
<1>3. /\ event \in Event /\ event = chan[x][1]
      /\ Tail(chan[x]) \in Seq(Event) /\ Len(Tail(chan[x])) = Len(chan[x]) - 1
      /\ \A i \in 1..(Len(chan[x]) - 1) : Tail(chan[x])[i] = chan[x][i + 1]
      /\ Len(chan[x]) \in Nat \ {0}
  BY <1>1, HeadTailProperties, EmptySeq
<1>4. event.repo \in chosen[x] \cup {NoRepo} /\ SnapIsolated(event.snap)
  BY <1>3 DEF IInv, EventsInv
<1> HIDE DEF event
<1>5. /\ Sound(h) /\ h.tabs = host.tabs /\ TabsOf(h) = TabsOf(host)
      /\ \A y \in SessionIds \ {x} : h.repo[y] = host.repo[y] /\ h.route[y] = host.route[y]
      /\ h.repo[x] \in {host.repo[x], event.repo}
      /\ listening = 2 /\ x \in TabsOf(host) =>
           h.route[x] = event.route /\ (event.hasRepo => h.repo[x] = event.repo)
  <2>1. CASE listening >= 1
    <3>1. h = SyncTabMetadata(host, x, event)
      BY <2>1
    <3> HIDE DEF h
    <3> QED
      BY <3>1, <1>1, <1>3, <1>4, SyncTabMetadataFacts
  <2>2. CASE ~(listening >= 1)
    BY <2>2, <1>1
  <2> QED
    BY <2>1, <2>2
<1> HIDE DEF h
<1>6. Within(h, chosen)
  BY <1>1, <1>4, <1>5 DEF Within
<1>7. /\ host' = h /\ drag' = Resynced(h.tabs) /\ Bound' = Bound
  BY <1>2 DEF HostBecomes, Bound
<1>8. drag' \in [tab : SessionIds, order : Seq(SessionIds)] /\ Previews(drag', h.tabs)
  <2>1. h.tabs \in Seq(SessionIds) /\ IsInjective(h.tabs) /\ Follows(h.tabs, host.tabs)
    BY <1>1, <1>5, StoreTabs, SameFollows
  <2> QED
    BY <2>1, <1>5, <1>7, PreviewFollows DEF IInv, TypeOK, DragInv
<1>9. /\ \A y \in SessionIds \ {x} : chan'[y] = chan[y]
      /\ chan'[x] = Tail(chan[x]) /\ chan' \in [SessionIds -> Seq(Event)]
  BY <1>1, <1>2, <1>3
<1>10. TypeOK'
  <2>1. h \in Store
    BY <1>5, StoreTabs
  <2> QED
    BY <1>1, <1>2, <1>7, <1>8, <1>9, <2>1 DEF IInv, TypeOK
<1>11. StoresInv'
  BY <1>2, <1>5, <1>6, <1>7 DEF IInv, StoresInv
<1>12. EventsInv'
  <2>1. ASSUME NEW y \in SessionIds, NEW i \in DOMAIN chan'[y]
        PROVE  chan'[y][i].repo \in chosen[y] \cup {NoRepo} /\ SnapIsolated(chan'[y][i].snap)
    <3>1. CASE y # x
      BY <3>1, <1>9 DEF IInv, EventsInv
    <3>2. CASE y = x
      <4>1. i \in 1..(Len(chan[x]) - 1) /\ i + 1 \in DOMAIN chan[x]
        BY <3>2, <1>3, <1>9, <1>1
      <4>2. chan'[y][i] = chan[x][i + 1]
        BY <3>2, <4>1, <1>3, <1>9
      <4> QED
        BY <3>2, <4>1, <4>2 DEF IInv, EventsInv
    <3> QED
      BY <3>1, <3>2
  <2> QED
    BY <2>1, <1>2 DEF EventsInv
<1>13. ReportsInv'
  <2> DEFINE Shows(y, route, r) ==
               route = childRoute[y] /\ (childRoute[y] = "git" => r = child[y].repo[y])
             LastShows(y, e) == Shows(y, e.route, e.repo) /\ e.hasRepo = (e.route = "git")
  <2>1. ASSUME listening = 2, NEW y \in SessionIds, y \in Bound, y \in TabsOf(host),
               y \notin dirty \cup requests
        PROVE  \/ chan'[y] = <<>> /\ Shows(y, h.route[y], h.repo[y])
               \/ chan'[y] # <<>> /\ LastShows(y, chan'[y][Len(chan'[y])])
    <3>1. \/ chan[y] = <<>> /\ Shows(y, host.route[y], host.repo[y])
          \/ chan[y] # <<>> /\ LastShows(y, chan[y][Len(chan[y])])
      BY <2>1 DEF IInv, ReportsInv, Agrees, LastAgrees
    <3>2. CASE y # x
      <4>1. chan'[y] = chan[y] /\ h.route[y] = host.route[y] /\ h.repo[y] = host.repo[y]
        BY <3>2, <1>5, <1>9
      <4> QED
        BY <3>1, <4>1
    <3>3. CASE y = x
      <4>1. LastShows(x, chan[x][Len(chan[x])])
        BY <3>1, <3>3, <1>1
      <4>2. CASE Len(chan[x]) = 1
        <5>1. Len(Tail(chan[x])) = 0
          BY <4>2, <1>3
        <5>2. chan'[x] = <<>>
          BY <5>1, <1>3, <1>9, EmptySeq
        <5>3. LastShows(x, event)
          BY <4>1, <4>2, <1>3
        <5>4. h.route[x] = event.route /\ (event.hasRepo => h.repo[x] = event.repo)
          BY <2>1, <3>3, <1>5
        <5> QED
          BY <3>3, <5>2, <5>3, <5>4
      <4>3. CASE Len(chan[x]) # 1
        <5>1. Len(chan'[x]) \in 1..(Len(chan[x]) - 1) /\ Len(chan'[x]) + 1 = Len(chan[x])
          <6> DEFINE n == Len(chan[x])
          <6>1. n \in Nat \ {0} /\ n # 1 /\ Len(chan'[x]) = n - 1
            BY <4>3, <1>3, <1>9
          <6> HIDE DEF n
          <6>2. Len(chan'[x]) \in 1..(n - 1) /\ Len(chan'[x]) + 1 = n
            BY <6>1
          <6> QED
            BY <6>2 DEF n
        <5>2. chan'[x][Len(chan'[x])] = chan[x][Len(chan[x])]
          BY <5>1, <1>3, <1>9
        <5>3. chan'[x] # <<>>
          BY <5>1, EmptySeq
        <5> QED
          BY <3>3, <4>1, <5>2, <5>3
      <4> QED
        BY <4>2, <4>3
    <3> QED
      BY <3>2, <3>3
  <2>2. requests \subseteq requests' /\ TabsOf(host') = TabsOf(host)
    BY <1>2, <1>5, <1>7
  <2>3. Bound \subseteq SessionIds
    BY DEF Bound
  <2> QED
    BY <2>1, <2>2, <2>3, <1>2, <1>7 DEF ReportsInv, Agrees, LastAgrees
<1>14. DragInv'
  BY <1>7, <1>8 DEF DragInv
<1> QED
  BY <1>10, <1>11, <1>12, <1>13, <1>14 DEF IInv
-----------------------------------------------------------------------------
(* Dragging *)

\* Without a drag there is no order previewed.
LEMMA NothingDragged ==
  NoDrag \in [tab : SessionIds, order : Seq(SessionIds)] /\ NoDrag.order = <<>>
BY StoreAssumption, EmptySeq DEF NoDrag

\* Previewing changes nothing but the preview.
LEMMA OnlyDragChanged ==
  ASSUME IInv, drag' \in [tab : SessionIds, order : Seq(SessionIds)],
         drag'.order # <<>> => DragInv',
         UNCHANGED <<host, disk, child, childRoute, dirty, chan, requests, listening, known,
                     made, chosen>>
  PROVE  IInv'
<1>1. Bound' = Bound
  BY DEF Bound
<1>2. TypeOK'
  BY DEF IInv, TypeOK
<1>3. StoresInv'
  BY <1>1 DEF IInv, StoresInv
<1>4. EventsInv' /\ DragInv'
  BY DEF IInv, EventsInv, DragInv, Previews
<1>5. ReportsInv'
  BY <1>1 DEF IInv, ReportsInv, Agrees, LastAgrees
<1> QED
  BY <1>2, <1>3, <1>4, <1>5 DEF IInv

LEMMA DragStartsStep ==
  ASSUME IInv, NEW x \in SessionIds, DragStarts(x)
  PROVE  IInv'
<1>1. /\ x \in TabsOf(host) /\ drag' = [tab |-> x, order |-> host.tabs]
      /\ UNCHANGED <<host, disk, child, childRoute, dirty, chan, requests, listening, known,
                     made, chosen>>
  BY DEF DragStarts, webviews, ghosts
<1>2. host.tabs \in Seq(SessionIds) /\ IsInjective(host.tabs) /\ TabsOf(host) = ToSet(host.tabs)
  BY StoreTabs DEF IInv, StoresInv
<1>3. SameOrder(host.tabs, host.tabs, SessionIds \ {x})
  BY <1>2, SameOrderSelf, SameOrderPart
<1>4. DragInv'
  BY <1>1, <1>2, <1>3 DEF DragInv, Previews
<1> QED
  BY <1>1, <1>2, <1>4, OnlyDragChanged

LEMMA DragOverStep ==
  ASSUME IInv, NEW y \in SessionIds, DragOver(y)
  PROVE  IInv'
<1> DEFINE o == drag.order
           r == InsertAt(RemoveAt(o, PlaceOf(o, drag.tab)), PlaceOf(o, y), drag.tab)
<1>1. /\ o # <<>> /\ y \in ToSet(o) /\ drag' = [drag EXCEPT !.order = r]
      /\ UNCHANGED <<host, disk, child, childRoute, dirty, chan, requests, listening, known,
                     made, chosen>>
  BY DEF DragOver, webviews, ghosts
<1>2. /\ drag \in [tab : SessionIds, order : Seq(SessionIds)]
      /\ IsInjective(o) /\ ToSet(o) = ToSet(host.tabs) /\ drag.tab \in ToSet(o)
      /\ SameOrder(o, host.tabs, SessionIds \ {drag.tab})
  BY <1>1 DEF IInv, TypeOK, DragInv, Previews
<1>3. o \in Seq(SessionIds) /\ PlaceOf(o, y) \in 1..Len(o)
  BY <1>1, <1>2, PlaceFacts
<1>4. r \in Seq(SessionIds) /\ IsInjective(r) /\ ToSet(r) = ToSet(o)
  BY <1>2, <1>3, Moved
<1>5. SameOrder(r, o, SessionIds \ {drag.tab})
  BY <1>2, <1>3, MovedOrder
<1> HIDE DEF r, o
<1>6. SameOrder(r, host.tabs, SessionIds \ {drag.tab})
  BY <1>2, <1>4, <1>5, SameOrderThrough
<1>7. drag' \in [tab : SessionIds, order : Seq(SessionIds)]
      /\ drag'.order = r /\ drag'.tab = drag.tab
  BY <1>1, <1>2, <1>4
<1>8. DragInv'
  BY <1>1, <1>2, <1>4, <1>6, <1>7 DEF DragInv, Previews
<1> QED
  BY <1>1, <1>7, <1>8, OnlyDragChanged

LEMMA DragCancelsStep ==
  ASSUME IInv, DragCancels
  PROVE  IInv'
<1>1. /\ drag' = NoDrag
      /\ UNCHANGED <<host, disk, child, childRoute, dirty, chan, requests, listening, known,
                     made, chosen>>
  BY DEF DragCancels, webviews, ghosts
<1> QED
  BY <1>1, NothingDragged, OnlyDragChanged

\* The drop moves the tab to where the preview has it, and the order becomes
\* the one previewed: without the tab both are the same.
LEMMA Dropped ==
  ASSUME IInv, DragEnds
  PROVE  /\ Sound(host') /\ host'.tabs = drag.order
         /\ TabsOf(host') = TabsOf(host)
         /\ host'.repo = host.repo /\ host'.route = host.route
<1> DEFINE o == drag.order
           t == host.tabs
           x == drag.tab
           wo == RemoveAt(o, PlaceOf(o, x))
           wt == RemoveAt(t, PlaceOf(t, x))
           j == PlaceOf(o, x)
<1>1. /\ o \in Seq(SessionIds) /\ IsInjective(o) /\ o # <<>>
      /\ ToSet(o) = ToSet(t) /\ x \in ToSet(o) /\ x \in SessionIds
      /\ SameOrder(o, t, SessionIds \ {x})
  BY DEF DragEnds, IInv, TypeOK, DragInv, Previews
<1>2. /\ t \in Seq(SessionIds) /\ IsInjective(t) /\ TabsOf(host) = ToSet(t) /\ Sound(host)
  BY StoreTabs DEF IInv, StoresInv
<1>3. host' = ReorderTab(host, x, j)
  BY <1>1 DEF DragEnds
<1> HIDE DEF o, t, x
<1>4. /\ wo \in Seq(SessionIds) /\ IsInjective(wo) /\ DOMAIN wo = 1..Len(wo) /\ ToSet(wo) = ToSet(o) \ {x}
      /\ SameOrder(wo, o, SessionIds)
  BY <1>1, Without, WithoutOrder
<1>5. /\ wt \in Seq(SessionIds) /\ IsInjective(wt) /\ ToSet(wt) = ToSet(t) \ {x}
      /\ SameOrder(wt, t, SessionIds)
  BY <1>1, <1>2, Without, WithoutOrder
<1>6. j \in 1..Len(o) /\ PlaceOf(t, x) \in 1..Len(t) /\ Len(o) \in Nat /\ Len(t) \in Nat
  BY <1>1, <1>2, PlaceFacts
<1>7. Len(wo) = Len(o) - 1 /\ Len(wt) = Len(t) - 1
  BY <1>1, <1>2, <1>6, RemoveAtFacts
<1>8. InsertAt(wo, j, x) = o /\ InsertAt(wt, PlaceOf(t, x), x) = t
  BY <1>1, <1>2, Reinserted
<1> HIDE DEF wo, wt, j
<1>9. SameOrder(wo, wt, SessionIds \ {x})
  <2>1. SameOrder(wo, t, SessionIds \ {x})
    BY <1>1, <1>4, SameOrderPart, SameOrderThrough
  <2>2. SameOrder(t, wt, SessionIds \ {x})
    BY <1>5, SameOrderPart, SameOrderConverse
  <2>3. ToSet(wo) \subseteq ToSet(t)
    BY <1>1, <1>4
  <2> QED
    BY <2>1, <2>2, <2>3, SameOrderThrough
<1>10. SameOrder(wo, wt, SessionIds)
  <2>1. \A i \in DOMAIN wo : wo[i] \in ToSet(wo)
    BY DEF ToSet
  <2>2. \A i \in DOMAIN wo : wo[i] \in SessionIds \ {x}
    BY <2>1, <1>4
  <2> QED
    BY <2>2, <1>9 DEF SameOrder
<1>11. wo = wt
  BY <1>1, <1>4, <1>5, <1>10, SameOrderEqual
<1>12. Len(o) = Len(t)
  BY <1>6, <1>7, <1>11
<1>13. /\ Sound(host') /\ TabsOf(host') = TabsOf(host)
       /\ host'.repo = host.repo /\ host'.route = host.route
       /\ host'.tabs = IF j = PlaceOf(t, x) THEN t ELSE InsertAt(wt, j, x)
  <2>1. x \in TabsOf(host) /\ j \in 1..Len(host.tabs)
    BY <1>1, <1>2, <1>6, <1>12 DEF t
  <2> QED
    BY <2>1, <1>2, <1>3, ReorderTabFacts DEF t, wt
<1>14. host'.tabs = o
  BY <1>8, <1>11, <1>13
<1> QED
  BY <1>13, <1>14 DEF o

LEMMA DragEndsStep ==
  ASSUME IInv, DragEnds
  PROVE  IInv'
<1>1. /\ drag' = NoDrag
      /\ UNCHANGED <<disk, child, childRoute, dirty, chan, requests, listening, known,
                     made, chosen>>
  BY DEF DragEnds, webviews, ghosts
<1>2. /\ Sound(host') /\ TabsOf(host') = TabsOf(host)
      /\ host'.repo = host.repo /\ host'.route = host.route
  BY Dropped
<1>3. Bound' = Bound
  BY <1>1 DEF Bound
<1>4. host' \in Store
  BY <1>2 DEF Sound, Healthy
<1>5. TypeOK'
  BY <1>1, <1>4, NothingDragged DEF IInv, TypeOK
<1>6. StoresInv'
  BY <1>1, <1>2, <1>3 DEF IInv, StoresInv, Within
<1>7. EventsInv' /\ DragInv'
  BY <1>1, NothingDragged DEF IInv, EventsInv, DragInv, Previews
<1>8. ReportsInv'
  BY <1>1, <1>2, <1>3 DEF IInv, ReportsInv, Agrees, LastAgrees
<1> QED
  BY <1>5, <1>6, <1>7, <1>8 DEF IInv

-----------------------------------------------------------------------------
(* Reports *)

\* What a webview reports is what it shows, and is of its own tab.
LEMMA ReportFacts ==
  ASSUME NEW x \in SessionIds, NEW s, Sound(s), s.tabs = <<x>>, Within(s, chosen),
         NEW route \in Routes, NEW first \in BOOLEAN,
         NEW e, e = ReportOf(s, x, route, first)
  PROVE  /\ e \in Event /\ e.route = route /\ e.hasRepo = (route = "git")
         /\ e.repo = s.repo[x] /\ e.repo \in chosen[x] \cup {NoRepo}
         /\ SnapIsolated(e.snap)
<1> DEFINE p == ActivePath(s)
           chose == SelectionAt(s, x, p)
           snap == [path |-> PathOf(s, x), view |-> s.view, sel |-> chose]
<1>1. /\ s \in Store /\ SelIsolated(s) /\ s.repo[x] \in MaybeRepo
      /\ s.view \in Views /\ s.sel[x] \in [Repos -> Selection]
      /\ PathOf(s, x) \in MaybeRepo
  BY PathOfType DEF Sound, Healthy, Store
<1>2. s.activeSession = x
  <2>1. TabsOf(s) = {x}
    BY DEF TabsOf
  <2> QED
    BY <2>1, StoreTabs
<1>3. p \in MaybeRepo /\ (p # NoRepo => PathOf(s, x) = p)
  BY <1>2, ActivePathFacts
<1> HIDE DEF p
<1>4. chose \in Selection /\ \A f \in chose : f[2] = PathOf(s, x)
  <2>1. CASE p = NoRepo
    BY <2>1 DEF SelectionAt, Selection
  <2>2. CASE p # NoRepo
    <3>1. p \in Repos /\ chose = s.sel[x][p] /\ PathOf(s, x) = p
      BY <2>2, <1>3 DEF SelectionAt, MaybeRepo
    <3>2. \A f \in s.sel[x][p] : f[2] = p
      BY <3>1, <1>1 DEF SelIsolated
    <3> QED
      BY <3>1, <3>2, <1>1
  <2> QED
    BY <2>1, <2>2
<1> HIDE DEF chose
<1>5. snap \in Snapshot /\ SnapIsolated(snap)
  BY <1>1, <1>4 DEF Snapshot, SnapIsolated
<1>6. /\ e = [first |-> first, route |-> route, hasRepo |-> route = "git",
              repo |-> s.repo[x], snap |-> snap]
  BY DEF ReportOf, snap, chose, p
<1> HIDE DEF snap
<1>7. (route = "git") \in BOOLEAN
  OBVIOUS
<1>8. s.repo[x] \in chosen[x] \cup {NoRepo}
  BY DEF Within
<1> QED
  BY <1>1, <1>5, <1>6, <1>7, <1>8 DEF Event

\* An event sent is the last of its webview, behind those under way.
LEMMA SentFacts ==
  ASSUME NEW c \in [SessionIds -> Seq(Event)], NEW x \in SessionIds, NEW e \in Event,
         NEW d, d = [c EXCEPT ![x] = Append(@, e)]
  PROVE  /\ d \in [SessionIds -> Seq(Event)]
         /\ \A y \in SessionIds \ {x} : d[y] = c[y]
         /\ d[x] # <<>> /\ d[x][Len(d[x])] = e
         /\ \A i \in DOMAIN d[x] : d[x][i] = e \/ (i \in DOMAIN c[x] /\ d[x][i] = c[x][i])
<1> DEFINE q == c[x]
           r == Append(q, e)
<1>1. q \in Seq(Event) /\ d[x] = r /\ \A y \in SessionIds \ {x} : d[y] = c[y]
  OBVIOUS
<1>2. /\ r \in Seq(Event) /\ r # <<>> /\ Len(r) = Len(q) + 1 /\ r[Len(q) + 1] = e
      /\ \A i \in 1..Len(q) : r[i] = q[i]
      /\ Len(q) \in Nat
  BY <1>1, AppendProperties
<1>3. DOMAIN r = 1..(Len(q) + 1) /\ DOMAIN q = 1..Len(q)
  BY <1>1, <1>2
<1>4. d \in [SessionIds -> Seq(Event)]
  BY <1>1, <1>2
<1> HIDE DEF q, r
<1>5. \A i \in 1..(Len(q) + 1) : i \in 1..Len(q) \/ i = Len(q) + 1
  BY <1>2
<1> QED
  BY <1>1, <1>2, <1>3, <1>4, <1>5 DEF q

\* A bound webview sends what it shows.
LEMMA Reported ==
  ASSUME IInv, NEW x \in Bound, NEW route \in Routes, NEW first \in BOOLEAN,
         NEW e, e = ReportOf(child[x], x, route, first),
         chan' = [chan EXCEPT ![x] = Append(@, e)],
         childRoute' = [childRoute EXCEPT ![x] = route],
         dirty' \in {dirty, dirty \ {x}}, requests' \in {requests, requests \ {x}},
         UNCHANGED <<host, disk, child, listening, known, drag, made, chosen>>
  PROVE  IInv'
<1>1. Bound' = Bound /\ Bound \subseteq SessionIds
  BY DEF Bound
<1>2. /\ x \in SessionIds /\ Sound(child[x]) /\ child[x].tabs = <<x>> /\ Within(child[x], chosen)
      /\ chan \in [SessionIds -> Seq(Event)] /\ childRoute \in [SessionIds -> Routes]
  BY <1>1 DEF IInv, StoresInv, TypeOK
<1>3. /\ e \in Event /\ e.route = route /\ e.hasRepo = (route = "git")
      /\ e.repo = child[x].repo[x] /\ e.repo \in chosen[x] \cup {NoRepo}
      /\ SnapIsolated(e.snap)
  BY <1>2, ReportFacts
<1>4. /\ chan' \in [SessionIds -> Seq(Event)]
      /\ \A y \in SessionIds \ {x} : chan'[y] = chan[y]
      /\ chan'[x] # <<>> /\ chan'[x][Len(chan'[x])] = e
      /\ \A i \in DOMAIN chan'[x] :
           chan'[x][i] = e \/ (i \in DOMAIN chan[x] /\ chan'[x][i] = chan[x][i])
  BY <1>2, <1>3, SentFacts
<1>5. /\ childRoute' \in [SessionIds -> Routes] /\ childRoute'[x] = route
      /\ \A y \in SessionIds \ {x} : childRoute'[y] = childRoute[y]
  BY <1>2
<1>6. TypeOK'
  BY <1>4, <1>5 DEF IInv, TypeOK
<1>7. StoresInv'
  BY <1>1 DEF IInv, StoresInv
<1>8. DragInv'
  BY DEF IInv, DragInv
<1>9. EventsInv'
  <2>1. ASSUME NEW y \in SessionIds, NEW i \in DOMAIN chan'[y]
        PROVE  chan'[y][i].repo \in chosen[y] \cup {NoRepo} /\ SnapIsolated(chan'[y][i].snap)
    <3>1. CASE y # x
      BY <3>1, <1>4 DEF IInv, EventsInv
    <3>2. CASE y = x
      BY <3>2, <1>2, <1>3, <1>4 DEF IInv, EventsInv
    <3> QED
      BY <3>1, <3>2
  <2> QED
    BY <2>1 DEF EventsInv
<1>10. ReportsInv'
  <2>1. LastAgrees(x)'
    BY <1>3, <1>4, <1>5 DEF LastAgrees, Agrees
  <2>2. ASSUME listening = 2, NEW y \in Bound \cap TabsOf(host), y # x
        PROVE  \/ y \in dirty' \cup requests'
               \/ chan'[y] = <<>> /\ Agrees(y, host.route[y], host.repo[y])'
               \/ chan'[y] # <<>> /\ LastAgrees(y)'
    <3>1. /\ chan'[y] = chan[y] /\ childRoute'[y] = childRoute[y]
          /\ y \in dirty \cup requests => y \in dirty' \cup requests'
      BY <2>2, <1>1, <1>4, <1>5
    <3>2. \/ y \in dirty \cup requests
          \/ chan[y] = <<>> /\ Agrees(y, host.route[y], host.repo[y])
          \/ chan[y] # <<>> /\ LastAgrees(y)
      BY <2>2 DEF IInv, ReportsInv
    <3> QED
      BY <3>1, <3>2 DEF Agrees, LastAgrees
  <2> QED
    BY <2>1, <2>2, <1>1, <1>4 DEF ReportsInv
<1> QED
  BY <1>6, <1>7, <1>8, <1>9, <1>10 DEF IInv

LEMMA EmitStep ==
  ASSUME IInv, NEW x \in SessionIds, Emit(x)
  PROVE  IInv'
<1>1. x \in Bound /\ childRoute \in [SessionIds -> Routes]
  BY DEF Emit, IInv, StoresInv, TypeOK
<1>2. childRoute[x] \in Routes /\ childRoute' = [childRoute EXCEPT ![x] = childRoute[x]]
  BY <1>1 DEF Emit
<1> QED
  BY <1>1, <1>2, Reported DEF Emit, Report, ghosts

LEMMA AnswerRequestStep ==
  ASSUME IInv, NEW x \in SessionIds, AnswerRequest(x)
  PROVE  IInv'
<1>1. childRoute \in [SessionIds -> Routes]
  BY DEF IInv, TypeOK
<1>2. childRoute[x] \in Routes /\ childRoute' = [childRoute EXCEPT ![x] = childRoute[x]]
  BY <1>1 DEF AnswerRequest
<1>3. CASE x \in Bound
  BY <1>2, <1>3, Reported DEF AnswerRequest, Report, ghosts
<1>4. CASE x \notin Bound
  <2>1. /\ requests' = requests \ {x}
        /\ UNCHANGED <<host, disk, child, childRoute, dirty, chan, listening, known, drag,
                       made, chosen>>
    BY <1>4 DEF AnswerRequest, ghosts
  <2>2. Bound' = Bound
    BY <2>1 DEF Bound
  <2>3. TypeOK'
    BY <2>1 DEF IInv, TypeOK
  <2>4. StoresInv'
    BY <2>1, <2>2 DEF IInv, StoresInv
  <2>5. EventsInv' /\ DragInv'
    BY <2>1 DEF IInv, EventsInv, DragInv
  <2>6. ReportsInv'
    BY <2>1, <2>2, <1>4 DEF IInv, ReportsInv, Agrees, LastAgrees
  <2> QED
    BY <2>3, <2>4, <2>5, <2>6 DEF IInv
<1> QED
  BY <1>3, <1>4

LEMMA NavigateStep ==
  ASSUME IInv, NEW x \in SessionIds, Navigate(x)
  PROVE  IInv'
<1> DEFINE to == IF childRoute[x] = "git" THEN "other" ELSE "git"
<1>1. x \in Bound /\ to \in Routes
  BY DEF Navigate, Routes
<1> QED
  BY <1>1, Reported DEF Navigate, ghosts

-----------------------------------------------------------------------------
(* The actions of the webviews *)

LEMMA WebviewLoadsStep ==
  ASSUME IInv, NEW x \in SessionIds, WebviewLoads(x)
  PROVE  IInv'
<1>1. /\ x \in TabsOf(host) /\ child[x] = Unloaded
      /\ UNCHANGED <<host, disk, requests, listening, known, drag, made, chosen>>
  BY DEF WebviewLoads, ghosts
<1>2. /\ Sound(disk) /\ Sound(host) /\ Within(disk, chosen) /\ TabsOf(host) \subseteq made
      /\ child \in [SessionIds -> Store \cup {Unloaded, Unbound}]
      /\ childRoute \in [SessionIds -> Routes] /\ chan \in [SessionIds -> Seq(Event)]
      /\ dirty \subseteq Bound /\ Bound \subseteq SessionIds /\ x \notin Bound
  BY <1>1 DEF IInv, StoresInv, TypeOK, Bound
<1>3. DragInv'
  BY <1>1 DEF IInv, DragInv
<1>4. CASE x \in TabsOf(disk)
  <2> DEFINE n == Loaded(x)
             route == host.route[x]
             e == ReportOf(n, x, route, TRUE)
  <2>1. /\ Sound(n) /\ n.tabs = <<x>>
        /\ n.repo = [y \in SessionIds |-> IF y = x THEN disk.repo[x] ELSE NoRepo]
    BY <1>2, <1>4, LoadedFacts
  <2>2. route \in Routes
    BY <1>2, StoreTabs
  <2>3. /\ child' = [child EXCEPT ![x] = n]
        /\ childRoute' = [childRoute EXCEPT ![x] = route]
        /\ dirty' = dirty \cup {x} /\ chan' = [chan EXCEPT ![x] = Append(@, e)]
    BY <1>4 DEF WebviewLoads
  <2> HIDE DEF n, route
  <2>4. Within(n, chosen)
    BY <1>2, <2>1 DEF Within
  <2>5. e \in Event /\ e.repo \in chosen[x] \cup {NoRepo} /\ SnapIsolated(e.snap)
    BY <2>1, <2>2, <2>4, ReportFacts
  <2> HIDE DEF e
  <2>6. /\ chan' \in [SessionIds -> Seq(Event)]
        /\ \A y \in SessionIds \ {x} : chan'[y] = chan[y]
        /\ \A i \in DOMAIN chan'[x] :
             chan'[x][i] = e \/ (i \in DOMAIN chan[x] /\ chan'[x][i] = chan[x][i])
    BY <1>2, <2>3, <2>5, SentFacts
  <2>7. n \in Store /\ n \notin {Unloaded, Unbound}
    BY <2>1, StoreTabs, TabsAssumption
  <2>8. /\ child' \in [SessionIds -> Store \cup {Unloaded, Unbound}]
        /\ child'[x] = n /\ \A y \in SessionIds \ {x} : child'[y] = child[y]
    BY <1>2, <2>3, <2>7
  <2>9. Bound' = Bound \cup {x}
    BY <2>7, <2>8 DEF Bound
  <2>10. TypeOK'
    BY <1>1, <1>2, <2>2, <2>3, <2>6, <2>8 DEF IInv, TypeOK
  <2>11. StoresInv'
    <3>1. ASSUME NEW y \in Bound'
          PROVE  Sound(child'[y]) /\ child'[y].tabs = <<y>> /\ Within(child'[y], chosen)
      <4>1. CASE y = x
        BY <4>1, <2>1, <2>4, <2>8
      <4>2. CASE y # x
        BY <4>2, <1>2, <2>8, <2>9 DEF IInv, StoresInv
      <4> QED
        BY <4>1, <4>2
    <3>2. dirty' \subseteq Bound' /\ Bound' \subseteq made
      BY <1>1, <1>2, <2>3, <2>9 DEF IInv, StoresInv
    <3> QED
      BY <3>1, <3>2, <1>1 DEF IInv, StoresInv
  <2>12. EventsInv'
    <3>1. ASSUME NEW y \in SessionIds, NEW i \in DOMAIN chan'[y]
          PROVE  chan'[y][i].repo \in chosen[y] \cup {NoRepo} /\ SnapIsolated(chan'[y][i].snap)
      <4>1. CASE y # x
        BY <4>1, <2>6 DEF IInv, EventsInv
      <4>2. CASE y = x
        BY <4>2, <2>5, <2>6 DEF IInv, EventsInv
      <4> QED
        BY <4>1, <4>2
    <3> QED
      BY <3>1, <1>1 DEF EventsInv
  <2>13. ReportsInv'
    <3>1. ASSUME NEW y \in Bound, y # x
          PROVE  child'[y] = child[y] /\ childRoute'[y] = childRoute[y] /\ chan'[y] = chan[y]
      BY <3>1, <1>2, <2>3, <2>6, <2>8
    <3> QED
      BY <3>1, <1>1, <2>3, <2>9 DEF IInv, ReportsInv, Agrees, LastAgrees
  <2> QED
    BY <1>3, <2>10, <2>11, <2>12, <2>13 DEF IInv
<1>5. CASE x \notin TabsOf(disk)
  <2>1. child' = [child EXCEPT ![x] = Unbound] /\ UNCHANGED <<childRoute, dirty, chan>>
    BY <1>5 DEF WebviewLoads
  <2>2. child' \in [SessionIds -> Store \cup {Unloaded, Unbound}]
        /\ child'[x] = Unbound /\ \A y \in SessionIds \ {x} : child'[y] = child[y]
    BY <1>2, <2>1
  <2>3. Bound' = Bound /\ \A y \in Bound : child'[y] = child[y]
    BY <1>2, <2>2 DEF Bound
  <2>4. TypeOK'
    BY <1>1, <2>1, <2>2 DEF IInv, TypeOK
  <2>5. StoresInv'
    BY <1>1, <2>1, <2>3 DEF IInv, StoresInv
  <2>6. EventsInv'
    BY <1>1, <2>1 DEF IInv, EventsInv
  <2>7. ReportsInv'
    BY <1>1, <2>1, <2>3 DEF IInv, ReportsInv, Agrees, LastAgrees
  <2> QED
    BY <1>3, <2>4, <2>5, <2>6, <2>7 DEF IInv
<1> QED
  BY <1>4, <1>5

LEMMA WebviewClosesStep ==
  ASSUME IInv, NEW x \in SessionIds, WebviewCloses(x)
  PROVE  IInv'
<1>1. /\ child' = [child EXCEPT ![x] = Unloaded]
      /\ childRoute' = [childRoute EXCEPT ![x] = "git"]
      /\ dirty' = dirty \ {x}
      /\ UNCHANGED <<host, disk, chan, requests, listening, known, drag, made, chosen>>
  BY DEF WebviewCloses, ghosts
<1>2. /\ child \in [SessionIds -> Store \cup {Unloaded, Unbound}]
      /\ childRoute \in [SessionIds -> Routes] /\ Bound \subseteq SessionIds
      /\ dirty \subseteq Bound
  BY DEF IInv, TypeOK, StoresInv, Bound
<1>3. /\ child' \in [SessionIds -> Store \cup {Unloaded, Unbound}] /\ child'[x] = Unloaded
      /\ \A y \in SessionIds \ {x} : child'[y] = child[y] /\ childRoute'[y] = childRoute[y]
      /\ childRoute' \in [SessionIds -> Routes]
  BY <1>1, <1>2 DEF Routes
<1>4. Bound' = Bound \ {x}
  BY <1>3 DEF Bound
<1>5. TypeOK'
  BY <1>1, <1>3 DEF IInv, TypeOK
<1>6. StoresInv'
  BY <1>1, <1>2, <1>3, <1>4 DEF IInv, StoresInv
<1>7. EventsInv' /\ DragInv'
  BY <1>1 DEF IInv, EventsInv, DragInv
<1>8. ReportsInv'
  BY <1>1, <1>2, <1>3, <1>4 DEF IInv, ReportsInv, Agrees, LastAgrees
<1> QED
  BY <1>5, <1>6, <1>7, <1>8 DEF IInv

\* The store of a bound webview becomes s.
LEMMA WebviewChanged ==
  ASSUME IInv, NEW x \in Bound, NEW s, Sound(s), s.tabs = <<x>>, Within(s, chosen'),
         WebviewBecomes(x, s), known' \subseteq Repos,
         chosen' \in [SessionIds -> SUBSET Repos],
         \A y \in SessionIds : chosen[y] \subseteq chosen'[y]
  PROVE  IInv'
<1>1. /\ child' = [child EXCEPT ![x] = s]
      /\ dirty' = IF s = child[x] THEN dirty ELSE dirty \cup {x}
      /\ UNCHANGED <<host, disk, childRoute, chan, requests, listening, drag, made>>
  BY DEF WebviewBecomes
<1>2. /\ child \in [SessionIds -> Store \cup {Unloaded, Unbound}]
      /\ Bound \subseteq SessionIds /\ dirty \subseteq Bound
  BY DEF IInv, TypeOK, StoresInv, Bound
<1>3. s \in Store /\ s \notin {Unloaded, Unbound}
  BY StoreTabs, TabsAssumption
<1>4. /\ child' \in [SessionIds -> Store \cup {Unloaded, Unbound}] /\ child'[x] = s
      /\ \A y \in SessionIds \ {x} : child'[y] = child[y]
  BY <1>1, <1>2, <1>3
<1>5. Bound' = Bound
  BY <1>2, <1>3, <1>4 DEF Bound
<1>6. \A n : Within(n, chosen) => Within(n, chosen')
  BY DEF Within
<1>7. TypeOK'
  BY <1>1, <1>2, <1>4 DEF IInv, TypeOK
<1>8. StoresInv'
  <2>1. \A n \in {host', disk'} : Sound(n) /\ Within(n, chosen')
    BY <1>1, <1>6 DEF IInv, StoresInv
  <2>2. ASSUME NEW y \in Bound'
        PROVE  Sound(child'[y]) /\ child'[y].tabs = <<y>> /\ Within(child'[y], chosen')
    <3>1. CASE y = x
      BY <3>1, <1>4
    <3>2. CASE y # x
      BY <3>2, <1>2, <1>4, <1>5, <1>6 DEF IInv, StoresInv
    <3> QED
      BY <3>1, <3>2
  <2>3. dirty' \subseteq Bound' /\ TabsOf(host') \cup TabsOf(disk') \cup Bound' \subseteq made'
    BY <1>1, <1>2, <1>5 DEF IInv, StoresInv
  <2> QED
    BY <2>1, <2>2, <2>3 DEF StoresInv
<1>9. EventsInv'
  BY <1>1 DEF IInv, EventsInv
<1>10. DragInv'
  BY <1>1 DEF IInv, DragInv
<1>11. ReportsInv'
  <2>1. CASE s = child[x]
    <3>1. child' = child /\ dirty' = dirty
      BY <2>1, <1>1, <1>2
    <3> QED
      BY <3>1, <1>1, <1>5 DEF IInv, ReportsInv, Agrees, LastAgrees
  <2>2. CASE s # child[x]
    <3>1. dirty' = dirty \cup {x}
      BY <2>2, <1>1
    <3> QED
      BY <3>1, <1>1, <1>2, <1>4, <1>5 DEF IInv, ReportsInv, Agrees, LastAgrees
  <2> QED
    BY <2>1, <2>2
<1> QED
  BY <1>7, <1>8, <1>9, <1>10, <1>11 DEF IInv

\* What every operation of a webview starts from.
LEMMA BoundFacts ==
  ASSUME IInv, NEW x \in Bound
  PROVE  /\ x \in SessionIds /\ Sound(child[x]) /\ child[x].tabs = <<x>>
         /\ Within(child[x], chosen) /\ child[x].activeSession = x
         /\ child[x].repos \subseteq Repos
         /\ child[x].repo \in [SessionIds -> MaybeRepo]
         /\ chosen \in [SessionIds -> SUBSET Repos] /\ known \subseteq Repos
<1>1. /\ x \in SessionIds /\ Sound(child[x]) /\ child[x].tabs = <<x>>
      /\ Within(child[x], chosen)
      /\ chosen \in [SessionIds -> SUBSET Repos] /\ known \subseteq Repos
  BY DEF IInv, StoresInv, TypeOK, Bound
<1>2. TabsOf(child[x]) = {x}
  BY <1>1 DEF TabsOf
<1> QED
  BY <1>1, <1>2, StoreTabs

\* A choice of repository r in tab x is within what was chosen there.
LEMMA ChosenWithin ==
  ASSUME IInv, NEW x \in Bound, NEW r \in Repos,
         NEW n, n.repo = [child[x].repo EXCEPT ![x] = r],
         chosen' = [chosen EXCEPT ![x] = @ \cup {r}]
  PROVE  /\ Within(n, chosen') /\ chosen' \in [SessionIds -> SUBSET Repos]
         /\ \A y \in SessionIds : chosen[y] \subseteq chosen'[y]
<1>1. /\ x \in SessionIds /\ Within(child[x], chosen)
      /\ child[x].repo \in [SessionIds -> MaybeRepo]
      /\ chosen \in [SessionIds -> SUBSET Repos]
  BY BoundFacts
<1>2. /\ chosen' \in [SessionIds -> SUBSET Repos] /\ chosen'[x] = chosen[x] \cup {r}
      /\ \A y \in SessionIds \ {x} : chosen'[y] = chosen[y]
  BY <1>1
<1>3. n.repo[x] = r /\ \A y \in SessionIds \ {x} : n.repo[y] = child[x].repo[y]
  BY <1>1
<1>4. \A y \in SessionIds : n.repo[y] \in chosen'[y] \cup {NoRepo}
  BY <1>1, <1>2, <1>3 DEF Within
<1> QED
  BY <1>2, <1>4 DEF Within

LEMMA ChooseRepositoryStep ==
  ASSUME IInv, NEW x \in SessionIds, NEW r \in Repos, ChooseRepository(x, r)
  PROVE  IInv'
<1> DEFINE s == child[x]
           n == SetSelectedRepository(s, r)
<1>1. /\ x \in Bound /\ r \in s.repos /\ WebviewBecomes(x, n) /\ known' = known
      /\ chosen' = [chosen EXCEPT ![x] = @ \cup {r}]
  BY DEF ChooseRepository
<1>2. Sound(s) /\ s.tabs = <<x>> /\ s.activeSession = x /\ known \subseteq Repos
  BY <1>1, BoundFacts
<1>3. Sound(n) /\ n.tabs = <<x>> /\ n.repo = [s.repo EXCEPT ![x] = r]
  BY <1>1, <1>2, SetSelectedRepositoryFacts
<1> HIDE DEF n
<1>4. /\ Within(n, chosen') /\ chosen' \in [SessionIds -> SUBSET Repos]
      /\ \A y \in SessionIds : chosen[y] \subseteq chosen'[y]
  BY <1>1, <1>3, ChosenWithin
<1> QED
  BY <1>1, <1>2, <1>3, <1>4, WebviewChanged

LEMMA AddRepositoryStep ==
  ASSUME IInv, NEW x \in SessionIds, NEW r \in Repos, NEW rendered \in SUBSET Repos,
         AddRepository(x, r, rendered)
  PROVE  IInv'
<1> DEFINE s == child[x]
           m == SetRepositories(s, rendered \cup {r})
           n == SetSelectedRepository(m, r)
<1>1. /\ x \in Bound /\ WebviewBecomes(x, n) /\ known' = known \cup {r}
      /\ chosen' = [chosen EXCEPT ![x] = @ \cup {r}]
  BY DEF AddRepository
<1>2. Sound(s) /\ s.tabs = <<x>> /\ s.activeSession = x /\ known' \subseteq Repos
  BY <1>1, BoundFacts
<1>3. /\ Sound(m) /\ m.tabs = <<x>> /\ m.repo = s.repo /\ m.activeSession = x
      /\ r \in m.repos
  <2>1. rendered \cup {r} \in SUBSET Repos
    OBVIOUS
  <2> QED
    BY <2>1, <1>2, SetRepositoriesFacts
<1> HIDE DEF m
<1>4. Sound(n) /\ n.tabs = <<x>> /\ n.repo = [s.repo EXCEPT ![x] = r]
  BY <1>3, SetSelectedRepositoryFacts
<1> HIDE DEF n
<1>5. /\ Within(n, chosen') /\ chosen' \in [SessionIds -> SUBSET Repos]
      /\ \A y \in SessionIds : chosen[y] \subseteq chosen'[y]
  BY <1>1, <1>4, ChosenWithin
<1> QED
  BY <1>1, <1>2, <1>4, <1>5, WebviewChanged

\* The operations of a webview that leave its repository as it was.
LEMMA WebviewKeeps ==
  ASSUME IInv, NEW x \in Bound, NEW n, Sound(n), n.tabs = child[x].tabs,
         n.repo = child[x].repo, WebviewBecomes(x, n),
         known' \subseteq Repos, chosen' = chosen
  PROVE  IInv'
<1>1. n.tabs = <<x>> /\ Within(n, chosen') /\ chosen' \in [SessionIds -> SUBSET Repos]
  BY BoundFacts DEF Within
<1> QED
  BY <1>1, WebviewChanged

\* Lists, files and views.
LEMMA WebviewKeepsStep ==
  ASSUME IInv, NEW x \in SessionIds,
         \/ \E r \in Repos : RemoveRepository(x, r)
         \/ WebviewLoadsRepositories(x)
         \/ \E kind \in Kinds : ChooseFile(x, kind) \/ UnchooseFile(x, kind)
         \/ \E v \in Views : ChooseView(x, v)
  PROVE  IInv'
<1> DEFINE s == child[x]
<1>1. x \in Bound
  BY DEF RemoveRepository, WebviewLoadsRepositories, ChooseFile, UnchooseFile, ChooseView
<1>2. Sound(s) /\ s.repos \subseteq Repos /\ known \subseteq Repos
  BY <1>1, BoundFacts
<1>3. ASSUME NEW r \in Repos, RemoveRepository(x, r) PROVE IInv'
  <2> DEFINE rs == s.repos \ {r}
             n == SetRepositories(s, rs)
  <2>1. WebviewBecomes(x, n) /\ known' \subseteq Repos /\ chosen' = chosen
    BY <1>2, <1>3 DEF RemoveRepository
  <2>2. Sound(n) /\ n.tabs = s.tabs /\ n.repo = s.repo
    BY <1>2, SetRepositoriesFacts
  <2> QED
    BY <1>1, <2>1, <2>2, WebviewKeeps
<1>4. ASSUME WebviewLoadsRepositories(x) PROVE IInv'
  <2> DEFINE n == SetRepositories(s, known)
  <2>1. WebviewBecomes(x, n) /\ known' = known /\ chosen' = chosen
    BY <1>4 DEF WebviewLoadsRepositories
  <2>2. Sound(n) /\ n.tabs = s.tabs /\ n.repo = s.repo
    BY <1>2, SetRepositoriesFacts
  <2> QED
    BY <1>1, <1>2, <2>1, <2>2, WebviewKeeps
<1>5. ASSUME NEW kind \in Kinds, ChooseFile(x, kind) PROVE IInv'
  <2> DEFINE n == SelectFile(s, kind, ActivePath(s))
  <2>1. /\ ActivePath(s) # NoRepo
        /\ WebviewBecomes(x, n) /\ known' = known /\ chosen' = chosen
    BY <1>5 DEF ChooseFile
  <2>2. Sound(n) /\ n.tabs = s.tabs /\ n.repo = s.repo
    BY <1>2, <2>1, SelectFileFacts
  <2> QED
    BY <1>1, <1>2, <2>1, <2>2, WebviewKeeps
<1>6. ASSUME NEW kind \in Kinds, UnchooseFile(x, kind) PROVE IInv'
  <2> DEFINE n == ClearSelection(s, kind)
  <2>1. WebviewBecomes(x, n) /\ known' = known /\ chosen' = chosen
    BY <1>6 DEF UnchooseFile
  <2>2. Sound(n) /\ n.tabs = s.tabs /\ n.repo = s.repo
    BY <1>2, ClearSelectionFacts
  <2> QED
    BY <1>1, <1>2, <2>1, <2>2, WebviewKeeps
<1>7. ASSUME NEW v \in Views, ChooseView(x, v) PROVE IInv'
  <2> DEFINE n == SetMainWindowView(s, v)
  <2>1. WebviewBecomes(x, n) /\ known' = known /\ chosen' = chosen
    BY <1>7 DEF ChooseView
  <2>2. Sound(n) /\ n.tabs = s.tabs /\ n.repo = s.repo
    BY <1>2, SetMainWindowViewFacts
  <2> QED
    BY <1>1, <1>2, <2>1, <2>2, WebviewKeeps
<1> QED
  BY <1>3, <1>4, <1>5, <1>6, <1>7

-----------------------------------------------------------------------------
(* The theorems *)

\* The first start satisfies the invariant.
LEMMA InitInv ==
  ASSUME Init
  PROVE  IInv
<1>1. /\ host = InitStore /\ disk = InitStore /\ child = [x \in SessionIds |-> Unloaded]
      /\ childRoute = [x \in SessionIds |-> "git"] /\ dirty = {} /\ requests = {}
      /\ chan = [x \in SessionIds |-> <<>>] /\ listening = 0 /\ known = KnownAtStart
      /\ drag = NoDrag /\ made = {MainTab} /\ chosen = [x \in SessionIds |-> {}]
  BY DEF Init
<1>2. /\ Sound(InitStore) /\ InitStore.repo = [x \in SessionIds |-> NoRepo]
      /\ TabsOf(InitStore) = {MainTab} /\ MainTab \in SessionIds
  BY InitStoreSound, StoreAssumption
<1>3. Bound = {}
  BY <1>1 DEF Bound
<1>4. TypeOK
  <2>1. InitStore \in Store
    BY <1>2, StoreTabs
  <2>2. chan \in [SessionIds -> Seq(Event)]
    BY <1>1, EmptySeq
  <2> QED
    BY <1>1, <1>2, <2>1, <2>2, TabsAssumption, NothingDragged DEF TypeOK, Routes
<1>5. StoresInv
  BY <1>1, <1>2, <1>3 DEF StoresInv, Within
<1>6. EventsInv
  BY <1>1 DEF EventsInv
<1>7. ReportsInv
  BY <1>3 DEF ReportsInv
<1>8. DragInv
  BY <1>1, NothingDragged DEF DragInv, Previews
<1> QED
  BY <1>4, <1>5, <1>6, <1>7, <1>8 DEF IInv

\* Only what is on the disk outlives the application.
LEMMA RestartStep ==
  ASSUME IInv, Restart
  PROVE  IInv'
<1>1. /\ host' = Rehydrated(disk) /\ child' = [x \in SessionIds |-> Unloaded]
      /\ childRoute' = [x \in SessionIds |-> "git"] /\ dirty' = {} /\ requests' = {}
      /\ chan' = [x \in SessionIds |-> <<>>] /\ listening' = 0 /\ drag' = NoDrag
      /\ UNCHANGED <<disk, known, made, chosen>>
  BY DEF Restart, ghosts
<1>2. Sound(disk) /\ Within(disk, chosen) /\ TabsOf(disk) \subseteq made
  BY DEF IInv, StoresInv
<1>3. Sound(host') /\ host'.repo = disk.repo /\ TabsOf(host') = TabsOf(disk)
  BY <1>1, <1>2, RehydratedFacts DEF TabsOf
<1>4. Within(host', chosen)
  BY <1>2, <1>3 DEF Within
<1>5. Bound' = {}
  BY <1>1 DEF Bound
<1>6. TypeOK'
  <2>1. host' \in Store
    BY <1>3, StoreTabs
  <2>2. chan' \in [SessionIds -> Seq(Event)]
    BY <1>1, EmptySeq
  <2> QED
    BY <1>1, <2>1, <2>2, NothingDragged DEF IInv, TypeOK, Routes
<1>7. StoresInv'
  BY <1>1, <1>2, <1>3, <1>4, <1>5 DEF StoresInv
<1>8. EventsInv'
  BY <1>1 DEF EventsInv
<1>9. ReportsInv'
  BY <1>5 DEF ReportsInv
<1>10. DragInv'
  BY <1>1, NothingDragged DEF DragInv, Previews
<1> QED
  BY <1>6, <1>7, <1>8, <1>9, <1>10 DEF IInv

\* Every step keeps it.
LEMMA StepInv ==
  ASSUME IInv, [Next]_vars
  PROVE  IInv'
<1>1. ASSUME HostStep PROVE IInv'
  BY <1>1, HostCreatesTabStep, HostActivatesTabStep, HostClosesTabStep, HostReceivesStep,
     DragStartsStep, DragOverStep, HostAdvancesStep, HostCapturesStep,
     HostEnsuresActiveTabStep, HostLoadsRepositoriesStep, HostRegistersListenerStep,
     PersistStep, DragEndsStep, DragCancelsStep DEF HostStep
<1>2. ASSUME NEW x \in SessionIds, WebviewStep(x) PROVE IInv'
  BY <1>2, WebviewLoadsStep, WebviewClosesStep, EmitStep, AnswerRequestStep, NavigateStep,
     ChooseRepositoryStep, AddRepositoryStep, WebviewKeepsStep DEF WebviewStep
<1>3. ASSUME UNCHANGED vars PROVE IInv'
  <2>1. UNCHANGED <<host, disk, child, childRoute, dirty, chan, requests, listening, known,
                    drag, made, chosen>>
    BY <1>3 DEF vars
  <2>2. Bound' = Bound
    BY <2>1 DEF Bound
  <2> QED
    BY <2>1, <2>2 DEF IInv, TypeOK, StoresInv, EventsInv, ReportsInv, Agrees, LastAgrees, DragInv
<1> QED
  BY <1>1, <1>2, <1>3, RestartStep DEF Next

\* Every reachable state has the types of the model and the parts of the
\* invariant: sound stores, events and reports of their own tab, a report on
\* its way wherever host and webview differ, a preview that holds the tabs.
THEOREM Invariance == Spec => []IInv
<1>1. Init => IInv
  BY InitInv
<1>2. IInv /\ [Next]_vars => IInv'
  BY StepInv
<1> QED
  BY <1>1, <1>2, PTL DEF Spec

\* The sessions and pointers of every store agree with its tabs whatever the
\* host, the webviews, the disk and a restart do, so that ensureActiveTab
\* never repairs anything.
THEOREM NeverRepaired == Spec => []NothingToRepair
<1>1. IInv => NothingToRepair
  <2> SUFFICES ASSUME IInv PROVE NothingToRepair
    OBVIOUS
  <2>1. \A x \in Bound : child[x].activeSession = x
    BY BoundFacts
  <2> QED
    BY <2>1 DEF IInv, StoresInv, Sound, Healthy, NothingToRepair
<1> QED
  BY <1>1, Invariance, PTL

\* What a tab shows, has recorded or reports is of a repository chosen in it,
\* and what is selected under a repository is of its files.
THEOREM Isolation == Spec => []TabsAreIsolated
<1>1. IInv => TabsAreIsolated
  <2> SUFFICES ASSUME IInv, NEW x \in SessionIds
               PROVE  /\ \A snap \in ({host.snap[x], disk.snap[x]} \ {NoSnap})
                                     \cup {chan[x][i].snap : i \in DOMAIN chan[x]} :
                           \A f \in snap.sel : f[2] = snap.path
                      /\ \A s \in {host, disk} \cup (IF x \in Bound THEN {child[x]} ELSE {}) :
                           /\ s.repo[x] \in chosen[x] \cup {NoRepo}
                           /\ \A p \in Repos : \A f \in s.sel[x][p] : f[2] = p
    BY DEF TabsAreIsolated
  <2>1. \A s \in {host, disk} \cup (IF x \in Bound THEN {child[x]} ELSE {}) :
          SelIsolated(s) /\ Within(s, chosen)
    BY DEF IInv, StoresInv, Sound
  <2>2. \A s \in {host, disk} : s.snap[x] # NoSnap => SnapIsolated(s.snap[x])
    BY <2>1 DEF SelIsolated
  <2>3. \A i \in DOMAIN chan[x] : SnapIsolated(chan[x][i].snap)
    BY DEF IInv, EventsInv
  <2> QED
    BY <2>1, <2>2, <2>3 DEF SnapIsolated, SelIsolated, Within
<1> QED
  BY <1>1, Invariance, PTL

\* Nothing a webview reports is lost for good: once the host listens and
\* nothing is on its way, host and webview agree on route and repository.
THEOREM ReportsArrive == Spec => []HostLearnsWhatTabsShow
<1>1. IInv => HostLearnsWhatTabsShow
  <2> SUFFICES ASSUME IInv, NEW x \in SessionIds, Quiet(x)
               PROVE  /\ host.route[x] = childRoute[x]
                      /\ childRoute[x] = "git" => host.tabRepo[x] = child[x].repo[x]
    BY DEF HostLearnsWhatTabsShow
  <2>1. Agrees(x, host.route[x], host.repo[x])
    BY DEF IInv, ReportsInv, Quiet
  <2>2. host.repo = host.tabRepo
    BY StoreTabs DEF IInv, StoresInv
  <2> QED
    BY <2>1, <2>2 DEF Agrees
<1> QED
  BY <1>1, Invariance, PTL

\* The order a drop leaves is the order previewed, however the tabs changed
\* while the tab was dragged.
THEOREM DropsAsPreviewed == Spec => DropMatchesPreview
<1>1. IInv /\ [Next]_vars => [DragEnds => host'.tabs = drag.order]_vars
  BY Dropped
<1> QED
  BY <1>1, Invariance, PTL DEF Spec, DropMatchesPreview
=============================================================================
