------------------------- MODULE LocalPhotosProofs -------------------------
(***************************************************************************)
(* StorageMedia and LocalPhotos, for any photos and any number of failures *)
(* and changes: no call of the storage leaves a driver behind that nobody  *)
(* would close, and the list of photos is read within its bounds.          *)
(***************************************************************************)
EXTENDS LocalPhotos, FiniteSetTheorems, SequenceTheorems, WellFoundedInduction, TLAPS

\* NoDriverLeft, of any context.
Sound(s) ==
    /\ s \in Contexts
    /\ s.open = {s.disk} \ {NoDisk}
    /\ s.disk # NoDisk => s.media = s.disk
    /\ InUse(s) => s.disk # NoDisk

LEMMA FreshIsSound == Sound(Fresh)
BY DEF Sound, Fresh, Contexts, Media, NoDisk, InUse

LEMMA NoDiskIsNoMedium == NoDisk \notin Media
BY DEF NoDisk, Media

\* What a mount to the application or to a host changes is the mount.
LEMMA MountsAreSound ==
    ASSUME NEW s, Sound(s), NEW c
    PROVE  Sound(MountedToApp(s, c)) /\ Sound(MountedByHost(s))
<1>1. Sound([s EXCEPT !.mount = "app"]) /\ Sound([s EXCEPT !.mount = "usb"])
  BY DEF Sound, Contexts, InUse
<1> QED
  BY <1>1 DEF MountedToApp, MountedByHost, Lent

\* A medium brought up where nothing is up ends up alone, or not at all.
LEMMA BringUpIsSound ==
    ASSUME NEW s, Sound(s), ~InUse(s), NEW m \in Media, NEW c, NEW o \in BringUp(s, m, c)
    PROVE  Sound(o.storage)
<1>1. s \in Contexts /\ s.open = {} /\ s.disk = NoDisk /\ s.driver = FALSE
  BY DEF Sound, InUse, Contexts
<1>2. Opened(s, m) = [s EXCEPT !.open = {m}]
  BY <1>1 DEF Opened, Contexts
<1>3. CASE o.storage = NotOpened(s, m)
  <2>1. NotOpened(s, m) = s
    BY <1>1, <1>2 DEF NotOpened, Closed, Contexts
  <2> QED
    BY <1>3, <2>1
<1>4. CASE o.storage = NotMounted(s, m)
  <2>1. NotMounted(s, m) = [s EXCEPT !.media = m]
    BY <1>1, <1>2 DEF NotMounted, Closed, Deleted, Created, Contexts
  <2>2. Sound([s EXCEPT !.media = m])
    BY <1>1 DEF Sound, InUse, Contexts
  <2> QED
    BY <1>4, <2>1, <2>2
<1>5. CASE o.storage = Installed(Created(Opened(s, m), m))
  <2> DEFINE t == Installed(Created(Opened(s, m), m))
  <2>1. t \in Contexts /\ t.disk = m /\ t.media = m /\ t.open = {m}
    <3>1. Opened(s, m) \in Contexts /\ Opened(s, m).open = {m}
      BY <1>1, <1>2 DEF Contexts
    <3> DEFINE u == Created(Opened(s, m), m)
    <3>2. u \in Contexts /\ u.disk = m /\ u.media = m /\ u.open = {m}
      BY <3>1 DEF Created, Contexts
    <3> HIDE DEF u
    <3>3. Installed(u) \in Contexts /\ Installed(u).disk = m /\ Installed(u).media = m
          /\ Installed(u).open = {m}
      BY <3>2 DEF Installed, Contexts
    <3> QED
      BY <3>3 DEF u
  <2>2. Sound(t)
    BY <2>1, NoDiskIsNoMedium DEF Sound
  <2> QED
    BY <1>5, <2>2
<1>6. \/ o.storage = NotOpened(s, m) \/ o.storage = NotMounted(s, m)
      \/ o.storage = Installed(Created(Opened(s, m), m))
  BY DEF BringUp, Outcome
<1> QED
  BY <1>3, <1>4, <1>5, <1>6

LEMMA TeardownIsSound ==
    ASSUME NEW s, Sound(s)
    PROVE  /\ \A o \in TeardownFailures(s) : Sound(o.storage)
           /\ Sound(TornDown(s)) /\ ~InUse(TornDown(s))
<1> DEFINE off == Uninstalled(s)
<1>1. Sound(off) /\ off.disk = s.disk /\ off.media = s.media /\ off.driver = FALSE
  BY DEF Sound, Contexts, InUse, Uninstalled
<1>2. Sound(Lent(off)) /\ Lent(off).disk = s.disk /\ Lent(off).media = s.media
      /\ Lent(off).driver = FALSE /\ Lent(off).open = s.open
  BY <1>1 DEF Sound, Contexts, InUse, Lent, Uninstalled
<1>3. \A o \in TeardownFailures(s) : Sound(o.storage)
  <2>1. \A o \in TeardownFailures(s) : o.storage \in {s, off, Lent(off)}
    BY DEF TeardownFailures, Outcome
  <2> QED
    BY <1>1, <1>2, <2>1
<1>4. Sound(TornDown(s)) /\ ~InUse(TornDown(s))
  <2> DEFINE u == Lent(off)
  <2>1. TornDown(s) = [u EXCEPT !.disk = NoDisk, !.open = {}]
    <3>1. u \in Contexts /\ u.open \ {s.media} = {}
      BY <1>2 DEF Sound
    <3> HIDE DEF u
    <3>2. Closed(Deleted(u), s.media) = [u EXCEPT !.disk = NoDisk, !.open = {}]
      BY <3>1 DEF Closed, Deleted, Contexts
    <3> QED
      BY <3>2 DEF TornDown, u
  <2>2. u \in Contexts /\ u.driver = FALSE
    BY <1>2 DEF Sound
  <2> HIDE DEF u
  <2> QED
    BY <2>1, <2>2 DEF Sound, InUse, Contexts
<1> QED
  BY <1>3, <1>4

LEMMA CallsAreSound ==
    ASSUME NEW s, Sound(s), NEW m \in Media, NEW c
    PROVE  /\ \A o \in Initialised(s, m, c) : Sound(o.storage)
           /\ \A o \in Switched(s, m, c) : Sound(o.storage)
<1>1. \A o \in Initialised(s, m, c) : Sound(o.storage)
  <2>1. CASE InUse(s)
    BY <2>1 DEF Initialised, Outcome
  <2>2. CASE ~InUse(s)
    BY <2>2, BringUpIsSound DEF Initialised
  <2> QED
    BY <2>1, <2>2
<1>2. \A o \in Switched(s, m, c) : Sound(o.storage)
  <2>1. \A o \in BringUp(TornDown(s), m, c) : Sound(o.storage)
    BY TeardownIsSound, BringUpIsSound
  <2>2. \A o \in TeardownFailures(s) : Sound(o.storage)
    BY TeardownIsSound
  <2> QED
    BY <2>1, <2>2 DEF Switched, Outcome
<1> QED
  BY <1>1, <1>2

\* The slideshow's choices are chains of the storage's calls.
LEMMA ChoicesAreSound ==
    ASSUME Sound(storage)
    PROVE  /\ \A o \in Selected : Sound(o.storage)
           /\ \A o \in Ensured : Sound(o.storage)
<1>1. "sd" \in Media /\ "flash" \in Media /\ Target \in Media
  BY DEF Media, Target
<1>2. ASSUME NEW o \in Selected PROVE Sound(o.storage)
  <2>1. \A x \in Initialised(Fresh, "flash", card) \cup Initialised(Fresh, "sd", card) :
            Sound(x.storage)
    BY <1>1, FreshIsSound, CallsAreSound
  <2>2. ASSUME NEW x \in Initialised(Fresh, "sd", card),
               NEW f \in Initialised(x.storage, "flash", card)
        PROVE  Sound(f.storage)
    BY <1>1, <2>1, CallsAreSound
  <2>3. \/ \E x \in Initialised(Fresh, "flash", card) \cup Initialised(Fresh, "sd", card) :
              o = Choice(x, FALSE, FALSE, 0)
        \/ \E x \in Initialised(Fresh, "sd", card) :
              \E f \in Initialised(x.storage, "flash", card) :
                  o = Choice(f, TRUE, FALSE, x.failures)
    BY DEF Selected
  <2> QED
    BY <2>1, <2>2, <2>3 DEF Choice
<1>3. ASSUME NEW o \in Ensured PROVE Sound(o.storage)
  <2>1. \A x \in Switched(storage, Target, card) : Sound(x.storage)
    BY <1>1, CallsAreSound
  <2>2. CASE storage.media = Target
    <3>1. o = Choice(Outcome(storage, TRUE, 0), FreshLock, FALSE, 0)
      BY <2>2 DEF Ensured
    <3> QED
      BY <3>1 DEF Choice, Outcome
  <2>3. CASE storage.media # Target
    <3>1. PICK x \in Switched(storage, Target, card) :
              \/ o = Choice(x, FreshLock, TRUE, 0)
              \/ o \in FallenBack(x)
              \/ o = Choice(x, FreshLock, FALSE, 0)
      BY <2>3 DEF Ensured
    <3>2. CASE o \in FallenBack(x)
      <4>1. \/ o = Choice(x, TRUE, TRUE, 0)
            \/ \E f \in Switched(x.storage, "flash", card) :
                   o = Choice(f, TRUE, f.ok, x.failures)
        BY <3>2 DEF FallenBack
      <4>2. \A f \in Switched(x.storage, "flash", card) : Sound(f.storage)
        BY <1>1, <2>1, CallsAreSound
      <4> QED
        BY <2>1, <4>1, <4>2 DEF Choice
    <3>3. CASE o = Choice(x, FreshLock, TRUE, 0) \/ o = Choice(x, FreshLock, FALSE, 0)
      BY <2>1, <3>3 DEF Choice
    <3> QED
      BY <3>1, <3>2, <3>3
  <2> QED
    BY <2>2, <2>3
<1> QED
  BY <1>2, <1>3

\* Most steps leave the storage alone; the others make one of its calls.
LEMMA NextIsSound == Sound(storage) /\ [Next]_vars => Sound(storage)'
<1> SUFFICES ASSUME Sound(storage), [Next]_vars PROVE Sound(storage')
  BY DEF Sound, Contexts, InUse
<1>1. CASE UNCHANGED storage
  BY <1>1
<1>2. CASE storage' = MountedToApp(storage, card) \/ storage' = MountedByHost(storage)
  BY <1>2, MountsAreSound
<1>3. ASSUME NEW op, Pass(op) PROVE Sound(storage')
  BY <1>3, ChoicesAreSound DEF Pass
<1>4. CASE Boot
  BY <1>4, ChoicesAreSound DEF Boot
<1>5. CASE RamLost
  BY <1>5, FreshIsSound DEF RamLost
<1>6. ASSUME NEW i, DisplayPhoto(i) \/ UNCHANGED <<storage, screen>> PROVE Sound(storage')
  BY <1>1, <1>2, <1>6 DEF DisplayPhoto, Render
<1>7. ASSUME NEW t \in Tasks, Fill(t) \/ Sort(t) PROVE Sound(storage')
  BY <1>1, <1>2, <1>7 DEF Fill, Sort
<1>8. ASSUME NEW op, Turn(op) PROVE Sound(storage')
  BY <1>1, <1>8 DEF Turn
<1>9. CASE Settle \/ AutoAdvance \/ PageShown
  BY <1>1, <1>6, <1>9 DEF Settle, AutoAdvance, PageShown
<1>10. ASSUME NEW p, AddOrDelete(p) \/ Display(p) PROVE Sound(storage')
  BY <1>2, <1>10 DEF AddOrDelete, Display, Render
<1>11. CASE FindPath \/ WakeShow
  BY <1>1, <1>11 DEF FindPath, WakeShow
<1>12. CASE PowerOff \/ Panic
  BY <1>5, <1>12 DEF PowerOff, Panic
<1>13. ASSUME NEW c, CardChanges(c) PROVE Sound(storage')
  BY <1>1, <1>13 DEF CardChanges
<1>14. CASE ShowPage \/ HostMounts \/ HostSuspends
  BY <1>2, <1>14 DEF ShowPage, HostMounts, HostSuspends
<1>15. CASE UNCHANGED vars
  BY <1>1, <1>15 DEF vars
<1> QED
  BY <1>3, <1>4, <1>7, <1>8, <1>9, <1>10, <1>11, <1>12, <1>13, <1>14, <1>15 DEF Next

\* Whatever failed and however a start, a switch or a fallback ended, the only
\* medium whose driver is up is the one behind the TinyUSB object
\* (hal_storage.cpp:388-600).
THEOREM NoDriverIsLeft == Spec => []NoDriverLeft
<1>1. Init => Sound(storage)
  BY FreshIsSound DEF Init
<1>2. Sound(storage) => NoDriverLeft
  BY DEF Sound, NoDriverLeft
<1> QED
  BY <1>1, <1>2, NextIsSound, PTL DEF Spec

LEMMA StorageIsSound == Spec => []Sound(storage)
<1>1. Init => Sound(storage)
  BY FreshIsSound DEF Init
<1> QED
  BY <1>1, NextIsSound, PTL DEF Spec

-----------------------------------------------------------------------------
(* Lists and their lengths *)

IsSeq(l) == \E S : l \in Seq(S)

LEMMA Lengths ==
    ASSUME NEW l, IsSeq(l)
    PROVE  Len(l) \in Nat /\ DOMAIN l = 1..Len(l) /\ (l # <<>> => Len(l) # 0)
BY EmptySeq, LenProperties DEF IsSeq

LEMMA SortedLength ==
    ASSUME NEW l, IsSeq(l)
    PROVE  IsSeq(Sorted(l)) /\ Len(Sorted(l)) = Len(l)
<1> DEFINE at(i) == CHOOSE v \in Range(l) :
                        /\ Cardinality({k \in DOMAIN l : l[k] < v}) < i
                        /\ Cardinality({k \in DOMAIN l : l[k] <= v}) >= i
           S == {at(i) : i \in 1..Len(l)}
<1>1. Len(l) \in Nat /\ DOMAIN l = 1..Len(l)
  BY Lengths
<1>2. Sorted(l) = [i \in 1..Len(l) |-> at(i)]
  BY <1>1 DEF Sorted
<1> HIDE DEF at
<1>3. [i \in 1..Len(l) |-> at(i)] \in Seq(S)
  BY <1>1
<1>4. Len([i \in 1..Len(l) |-> at(i)]) = Len(l)
  BY <1>1
<1> QED
  BY <1>2, <1>3, <1>4 DEF IsSeq

LEMMA InOrderIsSeq ==
    ASSUME NEW S, IsFiniteSet(S)
    PROVE  IsSeq(InOrder(S))
<1> DEFINE place(i) == CHOOSE p \in S : Cardinality({q \in S : q < p}) = i - 1
           n == Cardinality(S)
<1>1. n \in Nat
  BY FS_CardinalityType
<1>2. InOrder(S) = [i \in 1..n |-> place(i)]
  BY DEF InOrder
<1> HIDE DEF place, n
<1>3. [i \in 1..n |-> place(i)] \in Seq({place(i) : i \in 1..n})
  BY <1>1
<1> QED
  BY <1>2, <1>3 DEF IsSeq

LEMMA JoinedIsSeq ==
    ASSUME NEW l, IsSeq(l), NEW m, IsSeq(m)
    PROVE  IsSeq(l \o Reverse(m))
<1>1. PICK S : l \in Seq(S)
  BY DEF IsSeq
<1>2. PICK T : m \in Seq(T)
  BY DEF IsSeq
<1>3. Reverse(m) \in Seq(T)
  BY <1>2 DEF Reverse
<1>4. l \in Seq(S \cup T) /\ Reverse(m) \in Seq(S \cup T)
  BY <1>1, <1>3
<1>5. l \o Reverse(m) \in Seq(S \cup T)
  BY <1>4
<1> QED
  BY <1>5 DEF IsSeq

-----------------------------------------------------------------------------
(* Where the indices are while the app task has a list that only it touched *)

Uses == {"next", "prev", "auto", "settle", "page", "path", "none"}
Scans == [pc : {"idle", "fill", "sort", "use"}, for : Uses, path : Photos \cup {Page},
          opened : BOOLEAN]

Listed ==
    /\ Sound(storage)
    /\ IsSeq(list)
    /\ current \in Nat /\ pending \in Nat /\ rtc \in Nat
    /\ album \in [Media -> SUBSET Photos]
    /\ scan \in [Tasks -> Scans]

\* The app task wants a scan for its own ends, and no task scans without power.
AppScans ==
    /\ scan["app"].pc # "idle" => scan["app"].for \in Uses \ {"path", "none"}
    /\ power = "off" => \A t \in Tasks : scan[t].pc = "idle"

\* From its scan to the use of the list no scan of the HTTP task runs beside it.
AppAlone == scan["app"].pc # "idle" /\ ~touched => ~Scanning("http")

Fits(i) == i = NoPhoto \/ i < Len(list)

IndicesFit ==
    scan["app"].pc = "use" /\ ~touched =>
        list # <<>> /\ Fits(current) /\ Fits(pending)

LInv == Listed /\ AppScans /\ AppAlone /\ IndicesFit

\* An index that is wrapped is still an index, and fits a list that has photos.
LEMMA WrappedFits ==
    ASSUME NEW i \in Nat, NEW n \in Nat
    PROVE  /\ Wrapped(i, n) \in Nat
           /\ n # 0 => Wrapped(i, n) = NoPhoto \/ Wrapped(i, n) < n
BY DEF Wrapped, NoPhoto

LEMMA PhotosOfMedium ==
    ASSUME Listed, NEW s, Sound(s), s.disk # NoDisk
    PROVE  /\ IsSeq(InOrder(album[s.disk]))
           /\ IsSeq(InOrder(Shown(s)))
<1>1. s.disk \in Media
  BY DEF Sound, Contexts
<1>2. album[s.disk] \in SUBSET Photos /\ {} \in SUBSET Photos
  BY <1>1 DEF Listed
<1>3. \A S \in SUBSET Photos : IsFiniteSet(S)
  BY PhotosAreOrdered, FS_Subset
<1>4. Shown(s) \in SUBSET Photos
  BY <1>2 DEF Shown
<1> QED
  BY <1>2, <1>3, <1>4, InOrderIsSeq

LEMMA NoneShown ==
    ASSUME NEW s, s.disk = NoDisk
    PROVE  IsSeq(InOrder(Shown(s)))
<1>1. Shown(s) = {}
  BY DEF Shown, Visible
<1> QED
  BY <1>1, FS_EmptySet, InOrderIsSeq

LEMMA FillKeeps == ASSUME LInv, NEW t \in Tasks, Fill(t) PROVE LInv'
<1> DEFINE s == MountedToApp(storage, card)
<1>1. Sound(s) /\ Sound(storage')
  BY MountsAreSound DEF LInv, Listed, Fill
<1>2. IsSeq(InOrder(Shown(s)))
  BY <1>1, PhotosOfMedium, NoneShown DEF LInv
<1>3. IsSeq(list')
  BY <1>2, JoinedIsSeq DEF LInv, Listed, Fill
<1>4. Visible(s) \in BOOLEAN
  BY DEF Visible
<1> HIDE DEF s
<1>5. scan' = [scan EXCEPT ![t].pc = "sort", ![t].opened = Visible(s)]
  BY DEF Fill, s
<1>6. scan' \in [Tasks -> Scans]
  BY <1>4, <1>5 DEF LInv, Listed, Scans
<1>7. Listed'
  BY <1>1, <1>3, <1>6 DEF LInv, Listed, Fill, indices, Sound
<1>8. \A u \in Tasks : scan'[u].for = scan[u].for
                       /\ (u # t => scan'[u].pc = scan[u].pc) /\ scan[t].pc = "fill"
                       /\ scan'[t].pc = "sort"
  BY <1>5 DEF LInv, Listed, Scans, Fill
<1>9. AppScans'
  BY <1>8 DEF LInv, AppScans, Fill, Tasks
<1>10. AppAlone'
  BY <1>8 DEF LInv, AppAlone, Scanning, Fill, Tasks
<1>11. IndicesFit'
  BY <1>8 DEF LInv, AppAlone, IndicesFit, Scanning, Fill, Tasks
<1> QED
  BY <1>7, <1>9, <1>10, <1>11 DEF LInv

LEMMA SortKeeps == ASSUME LInv, NEW t \in Tasks, Sort(t) PROVE LInv'
<1> DEFINE has == scan[t].opened /\ list # <<>>
<1>1. PICK n \in Nat : n = Len(list) /\ (list # <<>> => n # 0)
  BY Lengths DEF LInv, Listed
<1>2. IsSeq(list') /\ Len(list') = n
  BY <1>1, SortedLength DEF LInv, Listed, Sort
<1>3. has => list' # <<>>
  BY <1>1, <1>2
<1>4. /\ current' \in Nat /\ pending' \in Nat
      /\ has => (current' = NoPhoto \/ current' < n) /\ (pending' = NoPhoto \/ pending' < n)
  BY <1>1, WrappedFits DEF LInv, Listed, Sort
<1>5. scan[t].pc = "sort" /\ scan[t] \in Scans
  BY DEF Sort, LInv, Listed
<1>6. \/ (has \/ t = "http") /\ scan' = [scan EXCEPT ![t].pc = "use"]
      \/ ~has /\ t = "app" /\ scan' = [scan EXCEPT ![t] = Idle]
  BY DEF Sort, Tasks
<1> HIDE DEF has
<1>7. Idle \in Scans /\ Idle.pc = "idle"
  BY DEF Idle, Scans, Uses
<1>8. scan' \in [Tasks -> Scans]
  BY <1>5, <1>6, <1>7 DEF LInv, Listed, Scans
<1>9. Listed'
  BY <1>2, <1>4, <1>8 DEF LInv, Listed, Sort, Sound
<1>10. \A u \in Tasks : u # t => scan'[u] = scan[u]
  BY <1>6 DEF LInv, Listed
<1>11. \/ (has \/ t = "http") /\ scan'[t].pc = "use" /\ scan'[t].for = scan[t].for
       \/ ~has /\ t = "app" /\ scan'[t].pc = "idle"
  BY <1>5, <1>6, <1>7 DEF LInv, Listed, Scans
<1>12. AppScans'
  BY <1>5, <1>10, <1>11 DEF LInv, AppScans, Sort, Tasks
<1>13. AppAlone'
  BY <1>5, <1>10, <1>11 DEF LInv, AppAlone, Scanning, Sort, Tasks
<1>14. IndicesFit'
  <2>1. CASE t = "app"
    BY <2>1, <1>2, <1>3, <1>4, <1>11 DEF IndicesFit, Fits, Tasks
  <2>2. CASE t = "http"
    <3>1. scan["app"].pc # "idle" => touched
      BY <1>5, <2>2 DEF LInv, AppAlone, Scanning
    <3> QED
      BY <2>2, <3>1, <1>10 DEF IndicesFit, Sort, Tasks
  <2> QED
    BY <2>1, <2>2 DEF Tasks
<1> QED
  BY <1>9, <1>12, <1>13, <1>14 DEF LInv

\* A scan of the app task starts beside an HTTP scan only if that counts as touching.
LEMMA StartKeeps ==
    ASSUME LInv, NEW t \in Tasks, NEW what \in Uses, NEW path \in Photos \cup {Page},
           t = "app" => what \notin {"path", "none"},
           Starts(t, what, path), power = "on", power' = "on",
           scan[t].pc = "idle",
           Sound(storage)', current' \in Nat, pending' \in Nat, rtc' \in Nat,
           album' = album
    PROVE  LInv'
<1> DEFINE new == [pc |-> "fill", for |-> what, path |-> path, opened |-> FALSE]
<1>1. new \in Scans /\ new.pc = "fill" /\ new.for = what
  BY DEF Scans
<1>2. scan' = [scan EXCEPT ![t] = new]
  BY DEF Starts
<1> HIDE DEF new
<1>3. scan' \in [Tasks -> Scans] /\ scan'[t] = new /\ \A u \in Tasks : u # t => scan'[u] = scan[u]
  BY <1>1, <1>2 DEF LInv, Listed
<1>4. IsSeq(list')
  <2>1. list' \in Seq({})
    BY DEF Starts
  <2> QED
    BY <2>1 DEF IsSeq
<1>5. Listed'
  BY <1>3, <1>4 DEF LInv, Listed
<1>6. AppScans'
  BY <1>1, <1>3 DEF LInv, AppScans, Tasks
<1>7. AppAlone' /\ IndicesFit'
  BY <1>1, <1>3 DEF LInv, AppAlone, IndicesFit, Scanning, Starts, Tasks
<1> QED
  BY <1>5, <1>6, <1>7 DEF LInv

\* The app task is not in a scan and starts none.
LEMMA QuietKeeps ==
    ASSUME LInv, Sound(storage)', IsSeq(list'), current' \in Nat, pending' \in Nat,
           rtc' \in Nat, album' \in [Media -> SUBSET Photos], scan' = scan,
           scan["app"].pc = "idle", power = power' \/ power' = "on"
    PROVE  LInv'
BY DEF LInv, Listed, AppScans, AppAlone, IndicesFit

\* Every pointer that is left where it was.
LEMMA IdleKeeps ==
    ASSUME LInv, Sound(storage)', album' \in [Media -> SUBSET Photos],
           rtc' \in Nat, UNCHANGED <<list, current, pending, scan, touched, power>>
    PROVE  LInv'
BY DEF LInv, Listed, AppScans, AppAlone, IndicesFit, Scanning, Fits

LEMMA PassKeeps ==
    ASSUME LInv, Sound(storage)', NEW op \in Uses \ {"path"}, Pass(op)
    PROVE  LInv'
<1>1. /\ pending' \in Nat /\ rtc' \in Nat /\ current' \in Nat
      /\ album' = album /\ power = "on" /\ power' = "on" /\ scan["app"].pc = "idle"
  BY DEF Pass, LInv, Listed, NoPhoto
<1>2. CASE op = "none"
  BY <1>1, <1>2, QuietKeeps DEF Pass, LInv, Listed
<1>3. CASE op # "none"
  <2>1. Starts("app", op, Page)
    BY <1>3 DEF Pass
  <2> QED
    BY <1>1, <1>3, <2>1, StartKeeps DEF Tasks
<1> QED
  BY <1>2, <1>3

LEMMA ShowKeeps ==
    ASSUME LInv, Sound(storage)', ShowPage \/ \E p \in Photos : Display(p)
    PROVE  LInv'
<1>1. UNCHANGED <<current, pending, rtc, album, power>> /\ power = "on"
  BY DEF ShowPage, Display, Serving, indices
<1>2. CASE ShowPage
  <2>1. Starts("app", "page", Page) /\ scan["app"].pc = "idle"
    BY <1>2 DEF ShowPage
  <2> QED
    BY <1>1, <2>1, StartKeeps DEF LInv, Listed, Tasks, Uses
<1>3. ASSUME NEW p \in Photos, Display(p) PROVE LInv'
  <2>1. Starts("http", "path", p) /\ scan["http"].pc = "idle"
    BY <1>3 DEF Display, Serving
  <2> QED
    BY <1>1, <2>1, StartKeeps DEF LInv, Listed, Tasks, Uses
<1> QED
  BY <1>2, <1>3

\* The app task uses the list, and is idle after it.
LEMMA UsingKeeps ==
    ASSUME LInv, Sound(storage)', NEW op, Using(op),
           current' \in Nat, pending' \in Nat, rtc' \in Nat
    PROVE  LInv'
<1>1. Idle \in Scans /\ Idle.pc = "idle"
  BY DEF Idle, Scans, Uses
<1>2. scan' = [scan EXCEPT !["app"] = Idle]
  BY DEF Using
<1>3. /\ scan' \in [Tasks -> Scans] /\ scan'["app"].pc = "idle"
      /\ \A t \in Tasks : scan'[t] = scan[t] \/ scan'[t].pc = "idle"
  BY <1>1, <1>2 DEF LInv, Listed, Tasks
<1>4. Listed'
  BY <1>3 DEF LInv, Listed, Using
<1> QED
  BY <1>3, <1>4 DEF LInv, AppScans, AppAlone, IndicesFit, Using, Tasks

LEMMA IndexIsNat ==
    ASSUME LInv, NEW op \in {"next", "prev", "auto", "settle"}, ~DividesByZero(op)
    PROVE  IndexFor(op) \in Nat
<1>1. PICK n \in Nat : n = Len(list)
  BY Lengths DEF LInv, Listed
<1>2. \A i \in Nat : n # 0 => (i + 1) % n \in Nat
  BY <1>1
<1>3. (n - 1) % 65536 \in Nat
  BY <1>1
<1>4. current \in Nat /\ pending \in Nat
  BY DEF LInv, Listed
<1>5. op = "next" => IndexFor(op) = IF pending = NoPhoto THEN 0 ELSE (pending + 1) % n
  BY <1>1 DEF IndexFor
<1>6. op = "auto" => IndexFor(op) = IF current = NoPhoto THEN 0 ELSE (current + 1) % n
  BY <1>1 DEF IndexFor
<1>7. op = "prev" => IndexFor(op) = IF pending = NoPhoto THEN 0
                       ELSE IF pending = 0 THEN (n - 1) % 65536 ELSE pending - 1
  BY <1>1 DEF IndexFor
<1>8. op = "settle" => IndexFor(op) = pending
  BY DEF IndexFor
<1>9. n = 0 => (op = "next" => pending = NoPhoto) /\ (op = "auto" => current = NoPhoto)
  BY <1>1 DEF DividesByZero
<1> QED
  BY <1>2, <1>3, <1>4, <1>5, <1>6, <1>7, <1>8, <1>9

LEMMA UseKeeps ==
    ASSUME LInv, Sound(storage)', (\E op \in Buttons : Turn(op)) \/ Settle \/ AutoAdvance \/ PageShown
    PROVE  LInv'
<1>1. current \in Nat /\ pending \in Nat /\ rtc \in Nat
  BY DEF LInv, Listed
<1>2. ASSUME NEW op \in Buttons, Turn(op) PROVE LInv'
  <2>1. IndexFor(op) \in Nat
    BY <1>2, IndexIsNat DEF Turn, Buttons
  <2>2. current' \in Nat /\ pending' \in Nat /\ rtc' \in Nat
    BY <1>1, <1>2, <2>1 DEF Turn
  <2> QED
    BY <1>2, <2>2, UsingKeeps DEF Turn
<1>3. CASE Settle
  BY <1>1, <1>3, UsingKeeps DEF Settle
<1>4. CASE AutoAdvance
  <2>1. IndexFor("auto") \in Nat
    BY <1>4, IndexIsNat DEF AutoAdvance
  <2> QED
    BY <1>1, <1>4, <2>1, UsingKeeps DEF AutoAdvance
<1>5. CASE PageShown
  BY <1>1, <1>5, UsingKeeps DEF PageShown, indices
<1> QED
  BY <1>2, <1>3, <1>4, <1>5

\* Every set of numbers with an element has a least one.
LEMMA Least ==
    ASSUME NEW T \in SUBSET Nat, T # {}
    PROVE  Min(T) \in T
<1> DEFINE Below == {p \in Nat \X Nat : p[1] < p[2]}
<1>1. IsWellFoundedOn(Below, Nat)
  BY NatLessThanWellFounded DEF OpToRel
<1>2. PICK x \in T : \A y \in T : ~ (<<y, x>> \in Below)
  BY <1>1, WFMin, Zenon
<1>3. \A y \in T : <<y, x>> \in Nat \X Nat /\ <<y, x>>[1] = y /\ <<y, x>>[2] = x
  OBVIOUS
<1>4. \A y \in T : ~ (y < x)
  BY <1>2, <1>3
<1>5. \E z \in T : \A y \in T : z <= y
  BY <1>4
<1> QED
  BY <1>5, Zenon DEF Min

LEMMA FindKeeps == ASSUME LInv, FindPath PROVE LInv'
<1> DEFINE found == {i \in 1..Len(list) : list[i] = scan["http"].path}
<1>1. PICK n \in Nat : n = Len(list)
  BY Lengths DEF LInv, Listed
<1>2. \/ UNCHANGED <<current, pending>>
      \/ found # {} /\ current' = Min(found) - 1 /\ pending' = Min(found) - 1
  BY DEF FindPath
<1>3. found # {} => Min(found) \in 1..n
  <2>1. found \in SUBSET Nat /\ found \subseteq 1..n
    BY <1>1
  <2> HIDE DEF found
  <2> QED
    BY <2>1, Least
<1> HIDE DEF found
<1>4. /\ current' \in Nat /\ pending' \in Nat
      /\ (Fits(current) => Fits(current')) /\ (Fits(pending) => Fits(pending'))
  BY <1>1, <1>2, <1>3 DEF LInv, Listed, Fits
<1>5. Idle \in Scans /\ Idle.pc = "idle"
  BY DEF Idle, Scans, Uses
<1>6. scan' = [scan EXCEPT !["http"] = Idle]
  BY DEF FindPath
<1>7. /\ scan' \in [Tasks -> Scans] /\ scan'["http"].pc = "idle"
      /\ scan'["app"] = scan["app"]
  BY <1>5, <1>6 DEF LInv, Listed, Tasks
<1>8. Listed'
  BY <1>4, <1>7 DEF LInv, Listed, FindPath, Sound
<1>9. AppScans' /\ AppAlone'
  BY <1>7 DEF LInv, AppScans, AppAlone, Scanning, FindPath, Tasks
<1>10. IndicesFit'
  BY <1>4, <1>7 DEF LInv, IndicesFit, Fits, FindPath
<1> QED
  BY <1>8, <1>9, <1>10 DEF LInv

LEMMA PowerKeeps ==
    ASSUME LInv, Sound(storage)', Boot \/ WakeShow \/ PowerOff \/ Panic
    PROVE  LInv'
<1>1. Sound(storage) /\ current \in Nat /\ pending \in Nat /\ rtc \in Nat
      /\ album \in [Media -> SUBSET Photos]
  BY DEF LInv, Listed
<1>2. \A o \in Selected : o.storage.disk # NoDisk => IsSeq(InOrder(album[o.storage.disk]))
  BY <1>1, ChoicesAreSound, PhotosOfMedium DEF LInv
<1>3. IsSeq(<<>>)
  <2>1. <<>> \in Seq({})
    OBVIOUS
  <2> QED
    BY <2>1 DEF IsSeq
<1>4. CASE Boot
  <2>1. IsSeq(list')
    BY <1>2, <1>3, <1>4 DEF Boot
  <2>2. scan["app"].pc = "idle"
    BY <1>4 DEF Boot, LInv, AppScans, Tasks
  <2>3. pending' \in Nat /\ current' \in Nat /\ rtc' \in Nat /\ album' = album
        /\ scan' = scan /\ power' = "on"
    BY <1>1, <1>4 DEF Boot, NoPhoto
  <2> QED
    BY <1>1, <2>1, <2>2, <2>3, QuietKeeps
<1>5. CASE WakeShow
  <2>1. PICK o \in Selected :
            LET there == IF o.storage.disk = NoDisk THEN <<>>
                         ELSE InOrder(album[o.storage.disk])
                n == Len(there)
            IN  IF n = 0 THEN UNCHANGED <<rtc, screen>>
                ELSE LET next == (Wrapped(rtc, n) + 1) % n
                     IN  rtc' = next /\ screen' = there[next + 1]
    BY <1>5 DEF WakeShow
  <2> DEFINE there == IF o.storage.disk = NoDisk THEN <<>>
                      ELSE InOrder(album[o.storage.disk])
  <2>2. IsSeq(there)
    BY <1>2, <1>3
  <2>3. rtc' = rtc \/ (Len(there) # 0 /\ rtc' = (Wrapped(rtc, Len(there)) + 1) % Len(there))
    BY <2>1
  <2> HIDE DEF there
  <2>4. PICK n \in Nat : n = Len(there)
    BY <2>2, Lengths
  <2>5. rtc' \in Nat
    <3>1. Wrapped(rtc, n) \in Nat
      BY <1>1, WrappedFits
    <3> QED
      BY <1>1, <2>3, <2>4, <3>1
  <2> QED
    BY <1>1, <1>5, <2>5, IdleKeeps DEF WakeShow
<1>6. CASE RamLost
  <2>1. Idle \in Scans /\ Idle.pc = "idle"
    BY DEF Idle, Scans, Uses
  <2>2. scan' \in [Tasks -> Scans] /\ \A t \in Tasks : scan'[t].pc = "idle"
    BY <1>6, <2>1 DEF RamLost
  <2>3. Listed'
    BY <1>1, <1>3, <1>6, <2>2 DEF RamLost, Listed, NoPhoto
  <2> QED
    BY <2>2, <2>3 DEF LInv, AppScans, AppAlone, IndicesFit, Tasks
<1> QED
  BY <1>4, <1>5, <1>6 DEF PowerOff, Panic

LEMMA WorldKeeps ==
    ASSUME LInv, Sound(storage)',
           \/ \E p \in Photos : AddOrDelete(p)
           \/ \E c \in Cards : CardChanges(c)
           \/ HostMounts \/ HostSuspends \/ UNCHANGED vars
    PROVE  LInv'
<1>1. UNCHANGED <<list, current, pending, rtc, scan, touched, power>>
  BY DEF AddOrDelete, CardChanges, HostMounts, HostSuspends, vars, photos, indices
<1>2. album' \in [Media -> SUBSET Photos]
  <2>1. album \in [Media -> SUBSET Photos]
    BY DEF LInv, Listed
  <2>2. ASSUME NEW p \in Photos, AddOrDelete(p) PROVE album' \in [Media -> SUBSET Photos]
    BY <2>1, <2>2 DEF AddOrDelete
  <2> QED
    BY <2>1, <2>2 DEF CardChanges, HostMounts, HostSuspends, vars
<1>3. rtc' \in Nat
  BY <1>1 DEF LInv, Listed
<1> QED
  BY <1>1, <1>2, <1>3, IdleKeeps

LEMMA NextKeepsList == LInv /\ [Next]_vars => LInv'
<1> SUFFICES ASSUME LInv, [Next]_vars PROVE LInv'
  OBVIOUS
<1>1. Sound(storage)'
  BY NextIsSound DEF LInv, Listed
<1>2. ASSUME NEW op \in Buttons \cup {"settle", "auto", "none"}, Pass(op) PROVE LInv'
  BY <1>1, <1>2, PassKeeps DEF Buttons, Uses
<1>3. ASSUME NEW t \in Tasks, Fill(t) \/ Sort(t) PROVE LInv'
  BY <1>3, FillKeeps, SortKeeps
<1>4. CASE ShowPage \/ \E p \in Photos : Display(p)
  BY <1>1, <1>4, ShowKeeps
<1>5. CASE (\E op \in Buttons : Turn(op)) \/ Settle \/ AutoAdvance \/ PageShown
  BY <1>1, <1>5, UseKeeps
<1>6. CASE FindPath
  BY <1>6, FindKeeps
<1>7. CASE Boot \/ WakeShow \/ PowerOff \/ Panic
  BY <1>1, <1>7, PowerKeeps
<1>8. CASE \/ \E p \in Photos : AddOrDelete(p)
           \/ \E c \in Cards : CardChanges(c)
           \/ HostMounts \/ HostSuspends \/ UNCHANGED vars
  BY <1>1, <1>8, WorldKeeps
<1> QED
  BY <1>2, <1>3, <1>4, <1>5, <1>6, <1>7, <1>8 DEF Next

LEMMA InitIsListed == Init => LInv
<1> SUFFICES ASSUME Init PROVE LInv
  OBVIOUS
<1>1. Sound(storage)
  BY FreshIsSound DEF Init
<1>2. IsSeq(list)
  <2>1. list \in Seq({})
    BY DEF Init
  <2> QED
    BY <2>1 DEF IsSeq
<1>3. Idle \in Scans /\ Idle.pc = "idle"
  BY DEF Idle, Scans, Uses
<1>4. scan \in [Tasks -> Scans] /\ \A t \in Tasks : scan[t].pc = "idle"
  BY <1>3 DEF Init
<1>5. Listed
  BY <1>1, <1>2, <1>4, StoredIsPhotos DEF Init, Listed, NoPhoto
<1> QED
  BY <1>4, <1>5 DEF LInv, AppScans, AppAlone, IndicesFit, Tasks

\* With indices that fit, whatever the app task wants the list for is in it.
LEMMA FitsMeansInRange == LInv => ListReadInRange
<1> SUFFICES ASSUME LInv, Misread, ~touched,
                    ~ (scan["app"].for = "settle" /\ pending = NoPhoto)
             PROVE  FALSE
  BY DEF ListReadInRange
<1> DEFINE op == scan["app"].for
<1>1. op \in {"next", "prev", "auto", "settle"} /\ scan["app"].pc = "use"
      /\ ~InRange(op)
  BY DEF Misread, LInv, AppScans, Uses
<1> HIDE DEF op
<1>2. PICK n \in Nat : n = Len(list) /\ n # 0
  BY <1>1, Lengths DEF LInv, Listed, IndicesFit
<1>3. /\ current \in Nat /\ pending \in Nat
      /\ current = NoPhoto \/ current < n
      /\ pending = NoPhoto \/ pending < n
  BY <1>1, <1>2 DEF LInv, Listed, IndicesFit, Fits
<1>4. ~DividesByZero(op)
  BY <1>2 DEF DividesByZero
<1>5. \A i \in Nat : (i + 1) % n < n
  BY <1>2
<1>6. (n - 1) % 65536 < n
  BY <1>2
<1>7. CASE op = "next"
  <2>1. IndexFor(op) < n
    BY <1>2, <1>3, <1>5, <1>7 DEF IndexFor
  <2> QED
    BY <1>1, <1>2, <1>4, <2>1 DEF InRange
<1>8. CASE op = "auto"
  <2>1. IndexFor(op) < n
    BY <1>2, <1>3, <1>5, <1>8 DEF IndexFor
  <2> QED
    BY <1>1, <1>2, <1>4, <2>1 DEF InRange
<1>9. CASE op = "prev"
  <2>1. IndexFor(op) < n
    BY <1>2, <1>3, <1>6, <1>9 DEF IndexFor
  <2> QED
    BY <1>1, <1>2, <1>4, <2>1 DEF InRange
<1>10. CASE op = "settle"
  <2>1. pending # NoPhoto /\ IndexFor(op) = pending
    BY <1>10 DEF op, IndexFor
  <2>2. IndexFor(op) < n
    BY <1>3, <2>1
  <2> QED
    BY <1>1, <1>2, <1>4, <2>2 DEF InRange
<1> QED
  BY <1>1, <1>7, <1>8, <1>9, <1>10

\* Whatever the buttons, the requests, the cards and the power did, and whatever
\* failed: from its scan to its use the app task's indices fit its list, so it
\* reads the list within its bounds unless the HTTP task touched it, or a change
\* of medium reset the index of a waiting refresh
\* (local_photo_slideshow.cpp:172, 402-470, 543-560).
THEOREM ListIsReadInRange == Spec => []ListReadInRange
BY InitIsListed, NextKeepsList, FitsMeansInRange, PTL DEF Spec
=============================================================================
