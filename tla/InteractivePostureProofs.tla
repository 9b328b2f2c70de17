----------------------- MODULE InteractivePostureProofs -----------------------
(***************************************************************************)
(* What InteractivePosture keeps for any sessions, activities, faults and  *)
(* bounds.  However calls overlap: its types, the exact reference count,   *)
(* and the single ownership of each declared activity.  While calls do not *)
(* overlap: what is declared and runs between calls is what its holders    *)
(* ask for, and each step is one of PostureContract.  The hub calls it as  *)
(* it assumes, so all of this is true of the hub too.                      *)
(***************************************************************************)
EXTENDS WebRtcHub, FiniteSetTheorems, TLAPS

Labels == {"idle"} \cup EnterPc \cup AfterPc \cup WinPc

LEMMA NatMinus1Type == ASSUME NEW n \in Nat PROVE NatMinus1(n) \in Nat
BY DEF NatMinus1

LEMMA ReleasedType ==
  ASSUME NEW f \in [Act -> Sig], NEW S, NEW stopped, NEW failed
  PROVE  Released(f, S, stopped, failed) \in [Act -> Sig]
BY DEF Released, Sig

LEMMA SceneKept == ASSUME [Next]_vars PROVE scene' = scene
<1> USE DEF winVars, postureVars
<1>1. CASE UNCHANGED vars
  BY <1>1 DEF vars
<1>2. CASE \E s \in Session : EnterCount(s) \/ EnterStep(s) \/ LeaveCount(s)
  BY <1>2 DEF EnterCount, LeaveCount, LeaveCounted, EnterStep, Reuse, MoshiOn, ReuseCheck,
              ReuseFails, CheckKey, ReleaseStale, Declare, DeclareRefused, MoshiCheck,
              MoshiFails, UndoCount, Commit
<1>3. CASE \E t \in Thread : CallStep(t)
  BY <1>3 DEF CallStep, MoshiOff, ReleaseHeld, Reconcile, ReadUrgent, EnsureDeclared,
              DeclareWindow, DeclareWindowRefused, StartWorker, DropWindow, ReleaseWindow,
              StopWorker
<1>4. CASE Serve \/ EngineStop \/ Restart \/ Environment
  BY <1>4 DEF Serve, EngineStop, LeaveCounted, Restart, Environment, Lapse, MoshiBooted,
              MoshiDies, WindowLapse
<1> QED
  BY <1>1, <1>2, <1>3, <1>4 DEF Next

LEMMA InitTypeOK == Init => TypeOK
<1> SUFFICES ASSUME Init PROVE TypeOK
  OBVIOUS
<1>1. pc \in [Thread -> Labels]
  BY DEF Init, Labels, WinPc
<1>2. WinTypeOK
  BY DEF Init, WinInit, WinTypeOK, Sig
<1> QED
  BY <1>1, <1>2 DEF Init, TypeOK, Labels, Sig

LEMMA EnterTypeOK ==
  ASSUME TypeOK, NEW s \in Session, EnterCount(s) \/ EnterStep(s) \/ LeaveCount(s)
  PROVE  TypeOK'
<1> USE DEF TypeOK, WinTypeOK, winVars, postureVars, Goto, Thread, EnterPc, AfterPc
<1>1. CASE EnterCount(s)
  BY <1>1 DEF EnterCount, MayCall
<1>2. CASE Reuse(s) \/ ReuseCheck(s)
  BY <1>2 DEF Reuse, ReuseCheck
<1>3. CASE MoshiOn(s)
  BY <1>3 DEF MoshiOn
<1>4. CASE ReuseFails(s)
  BY <1>4, NatMinus1Type DEF ReuseFails, MoshiGivesUp
<1>5. CASE CheckKey(s)
  BY <1>5 DEF CheckKey
<1>6. CASE ReleaseStale(s)
  BY <1>6, ReleasedType DEF ReleaseStale
<1>7. CASE Declare(s)
  BY <1>7 DEF Declare, Sig
<1>8. CASE DeclareRefused(s) \/ MoshiCheck(s)
  BY <1>8 DEF DeclareRefused, MoshiCheck
<1>9. CASE MoshiFails(s)
  BY <1>9 DEF MoshiFails, MoshiGivesUp
<1>10. CASE UndoCount(s)
  BY <1>10, NatMinus1Type DEF UndoCount
<1>11. CASE Commit(s)
  BY <1>11 DEF Commit, Sig, WinPc
<1>12. CASE LeaveCount(s)
  BY <1>12, NatMinus1Type DEF LeaveCount, LeaveCounted, MayCall
<1> QED BY <1>1, <1>2, <1>3, <1>4, <1>5, <1>6, <1>7, <1>8, <1>9, <1>10, <1>11, <1>12
        DEF EnterStep

LEMMA CallTypeOK ==
  ASSUME TypeOK, NEW t \in Thread, CallStep(t)
  PROVE  TypeOK'
<1> USE DEF TypeOK, WinTypeOK, winVars, postureVars, Goto, EnterPc, AfterPc, WinPc
<1>1. CASE MoshiOff(t)
  BY <1>1 DEF MoshiOff
<1>2. CASE ReleaseHeld(t)
  BY <1>2, ReleasedType DEF ReleaseHeld
<1>3. CASE Reconcile(t) /\ UNCHANGED postureVars
  <2>1. CASE ReadUrgent(t)
    BY <1>3, <2>1 DEF ReadUrgent
  <2>2. CASE EnsureDeclared(t)
    BY <1>3, <2>2, ReleasedType DEF EnsureDeclared
  <2>3. CASE DeclareWindow(t)
    BY <1>3, <2>3 DEF DeclareWindow, Sig
  <2>4. CASE DeclareWindowRefused(t) \/ StartWorker(t) \/ StopWorker(t)
    BY <1>3, <2>4 DEF DeclareWindowRefused, StartWorker, StopWorker
  <2>5. CASE DropWindow(t)
    BY <1>3, <2>5 DEF DropWindow
  <2>6. CASE ReleaseWindow(t)
    BY <1>3, <2>6, ReleasedType DEF ReleaseWindow
  <2> QED
    BY <1>3, <2>1, <2>2, <2>3, <2>4, <2>5, <2>6 DEF Reconcile
<1> QED
  BY <1>1, <1>2, <1>3 DEF CallStep

LEMMA SystemTypeOK ==
  ASSUME TypeOK, Serve \/ EngineStop \/ Restart \/ Environment
  PROVE  TypeOK'
<1> USE DEF TypeOK, WinTypeOK, winVars, postureVars
<1>1. CASE Serve
  BY <1>1 DEF Serve
<1>2. CASE EngineStop
  BY <1>2, NatMinus1Type DEF EngineStop, LeaveCounted, Goto, Thread, AfterPc
<1>3. CASE Restart
  <2>1. pc' \in [Thread -> Labels]
    BY <1>3 DEF Restart, Labels, WinPc
  <2>2. sig' \in [Act -> Sig] /\ winSig' \in [Act -> Sig]
    BY <1>3 DEF Restart, Sig
  <2> QED
    BY <1>3, <2>1, <2>2 DEF Restart, Labels
<1>4. CASE Lapse
  BY <1>4 DEF Lapse, Sig
<1>5. CASE MoshiBooted \/ MoshiDies
  BY <1>5 DEF MoshiBooted, MoshiDies
<1>6. CASE WindowLapse /\ UNCHANGED postureVars
  BY <1>6 DEF WindowLapse, Sig
<1> QED
  BY <1>1, <1>2, <1>3, <1>4, <1>5, <1>6 DEF Environment

LEMMA TypeStep ==
  ASSUME TypeOK, [Next]_vars PROVE TypeOK'
<1>1. CASE UNCHANGED vars
  BY <1>1 DEF vars, winVars, postureVars, TypeOK, WinTypeOK
<1>2. CASE Next
  BY <1>2, EnterTypeOK, CallTypeOK, SystemTypeOK DEF Next
<1> QED
  BY <1>1, <1>2

(* Every variable of the posture keeps its type in every reachable state. *)
THEOREM TypeCorrect == Spec => []TypeOK
<1>1. TypeOK /\ [Next]_vars => TypeOK'
  BY TypeStep
<1> QED
  BY <1>1, InitTypeOK, PTL DEF Spec

-----------------------------------------------------------------------------
(* The reference count.  It is inductive once a session that is entering is
   known not to be a holder: its count then has one reason only, and undoing
   the enter removes that reason. *)
EntersAreNew == \A s \in Session : pc[s] \in EnterPc \cup {"commit"} => s \notin holders
CountInv == TypeOK /\ EntersAreNew /\ RefcountExact

LEMMA CountedFinite ==
  ASSUME TypeOK PROVE Counted \in SUBSET Session /\ IsFiniteSet(Counted)
<1>1. Counted \in SUBSET Session
  BY DEF TypeOK, Counted, Entering
<1> QED
  BY <1>1, SessionAssumption, FS_Subset

LEMMA CountUp ==
  ASSUME TypeOK, refcount = Cardinality(Counted),
         NEW s, s \notin Counted, Counted' = Counted \cup {s}, refcount' = refcount + 1
  PROVE  refcount' = Cardinality(Counted')
BY CountedFinite, FS_AddElement

LEMMA CountDown ==
  ASSUME TypeOK, refcount = Cardinality(Counted),
         NEW s, s \in Counted, Counted' = Counted \ {s}, refcount' = NatMinus1(refcount)
  PROVE  refcount' = Cardinality(Counted')
<1>1. Cardinality(Counted') = Cardinality(Counted) - 1
  BY CountedFinite, FS_RemoveElement
<1>2. Cardinality(Counted) # 0
  BY CountedFinite, FS_EmptySet
<1> QED
  BY <1>1, <1>2, CountedFinite, FS_CardinalityType DEF NatMinus1

(* The steps of a session: only the first and the last step of an enter, the
   undo and the leave touch the count. *)
LEMMA SessionCounts ==
  ASSUME CountInv, NEW s \in Session, EnterCount(s) \/ EnterStep(s) \/ LeaveCount(s)
  PROVE  EntersAreNew' /\ ("key" \notin Faults /\ refcount = Cardinality(Counted)
                            => refcount' = Cardinality(Counted'))
<1> DEFINE Same == EntersAreNew' /\ Counted' = Counted /\ refcount' = refcount
<1> USE DEF CountInv, EntersAreNew, TypeOK, Counted, Entering, EnterPc, Goto, Thread
<1>1. CASE EnterCount(s)
  <2>1. pc[s] = "idle" /\ s \notin holders /\ pc'[s] \in {"reuse", "key"}
        /\ holders' = holders /\ \A u \in Thread \ {s} : pc'[u] = pc[u]
    BY <1>1 DEF EnterCount, MayCall
  <2>3. s \notin Counted /\ Counted' = Counted \cup {s} /\ EntersAreNew'
    BY <2>1
  <2>2. refcount' = refcount + 1
    BY <1>1 DEF EnterCount
  <2> QED
    BY <2>3, <2>2, CountUp
<1>2. CASE Reuse(s) \/ ReuseCheck(s)
  <2>1. Same
    BY <1>2 DEF Reuse, ReuseCheck
  <2> QED
    BY <2>1
<1>3. CASE ReuseFails(s)
  <2>1. s \in Counted /\ Counted' = Counted \ {s} /\ EntersAreNew'
    BY <1>3 DEF ReuseFails
  <2> QED
    BY <1>3, <2>1, CountDown DEF ReuseFails
<1>4. CASE CheckKey(s)
  <2>1. EntersAreNew'
    BY <1>4 DEF CheckKey, postureVars
  <2>2. "key" \notin Faults => Counted' = Counted /\ refcount' = refcount
    BY <1>4 DEF CheckKey, postureVars
  <2> QED
    BY <2>1, <2>2
<1>5. CASE MoshiOn(s) \/ MoshiCheck(s) \/ MoshiFails(s)
  <2>1. Same
    BY <1>5 DEF MoshiOn, MoshiCheck, MoshiFails, postureVars
  <2> QED
    BY <2>1
<1>6. CASE ReleaseStale(s) \/ Declare(s) \/ DeclareRefused(s)
  <2>1. Same
    BY <1>6 DEF ReleaseStale, Declare, DeclareRefused, postureVars
  <2> QED
    BY <2>1
<1>7. CASE UndoCount(s)
  <2>1. s \in Counted /\ Counted' = Counted \ {s} /\ EntersAreNew'
    BY <1>7 DEF UndoCount
  <2> QED
    BY <1>7, <2>1, CountDown DEF UndoCount
<1>8. CASE Commit(s)
  <2>1. Same
    BY <1>8 DEF Commit
  <2> QED
    BY <2>1
<1>9. CASE LeaveCount(s)
  <2>1. s \in Counted /\ Counted' = Counted \ {s} /\ EntersAreNew'
    BY <1>9 DEF LeaveCount, LeaveCounted, MayCall
  <2> QED
    BY <1>9, <2>1, CountDown DEF LeaveCount, LeaveCounted
<1> QED
  BY <1>1, <1>2, <1>3, <1>4, <1>5, <1>6, <1>7, <1>8, <1>9 DEF EnterStep

(* A call past its count: moshi, the releases and the window. *)
LEMMA CallCounts ==
  ASSUME CountInv, NEW t \in Thread, CallStep(t)
  PROVE  EntersAreNew' /\ Counted' = Counted /\ refcount' = refcount
<1> DEFINE Past(u) == pc[u] \notin EnterPc \cup {"commit"}
<1>0. pc \in [Thread -> Labels]
  BY DEF CountInv, TypeOK, Labels
<1>1. Past(t) /\ Past(t)' /\ \A u \in Thread \ {t} : pc'[u] = pc[u]
  <2> USE <1>0 DEF Goto, EnterPc
  <2>1. CASE MoshiOff(t)
    BY <2>1 DEF MoshiOff
  <2>2. CASE ReleaseHeld(t)
    BY <2>2 DEF ReleaseHeld
  <2>3. CASE ReadUrgent(t) \/ EnsureDeclared(t)
    BY <2>3 DEF ReadUrgent, EnsureDeclared
  <2>4. CASE DeclareWindow(t) \/ DeclareWindowRefused(t)
    BY <2>4 DEF DeclareWindow, DeclareWindowRefused
  <2>5. CASE StartWorker(t) \/ StopWorker(t)
    BY <2>5 DEF StartWorker, StopWorker
  <2>6. CASE DropWindow(t) \/ ReleaseWindow(t)
    BY <2>6 DEF DropWindow, ReleaseWindow
  <2> QED
    BY <2>1, <2>2, <2>3, <2>4, <2>5, <2>6 DEF CallStep, Reconcile
<1>2. holders' = holders /\ refcount' = refcount
  BY DEF CallStep, MoshiOff, ReleaseHeld, postureVars
<1> QED
  BY <1>1, <1>2 DEF CountInv, EntersAreNew, Counted, Entering, Thread

LEMMA SystemCounts ==
  ASSUME CountInv, Serve \/ EngineStop \/ Restart \/ Environment
  PROVE  EntersAreNew' /\ RefcountExact'
<1> USE DEF CountInv, EntersAreNew, TypeOK, Counted, Entering, EnterPc, Goto,
            winVars, postureVars, RefcountExact, Faults
<1>0. scene' = scene
  BY SceneKept DEF Next
<1>1. CASE Serve \/ Environment
  BY <1>0, <1>1 DEF Serve, Environment, Lapse, MoshiBooted, MoshiDies, WindowLapse
<1>2. CASE EngineStop
  BY <1>2, NamesAssumption DEF EngineStop, LeaveCounted, Thread
<1>3. CASE Restart
  <2>1. EntersAreNew' /\ Counted' = {} /\ refcount' = 0
    BY <1>3, NamesAssumption DEF Restart, Thread
  <2> QED
    BY <2>1, FS_EmptySet
<1> QED
  BY <1>1, <1>2, <1>3

LEMMA CountAlways == Spec => []CountInv
<1>1. Init => CountInv
  <2> SUFFICES ASSUME Init PROVE CountInv
    OBVIOUS
  <2>1. EntersAreNew /\ Counted = {} /\ refcount = 0
    BY NamesAssumption DEF Init, EntersAreNew, Counted, Entering, EnterPc, Thread
  <2> QED
    BY <2>1, InitTypeOK, FS_EmptySet DEF CountInv, RefcountExact
<1>2. CountInv /\ [Next]_vars => CountInv'
  <2> SUFFICES ASSUME CountInv, [Next]_vars PROVE CountInv'
    OBVIOUS
  <2>1. TypeOK'
    BY TypeStep DEF CountInv
  <2>0. scene' = scene /\ Faults' = Faults
    BY SceneKept DEF Faults
  <2>2. CASE UNCHANGED vars
    BY <2>0, <2>1, <2>2 DEF CountInv, EntersAreNew, RefcountExact, Counted, Entering,
                      vars, postureVars
  <2>3. CASE \E s \in Session : EnterCount(s) \/ EnterStep(s) \/ LeaveCount(s)
    <3>1. PICK s \in Session : EnterCount(s) \/ EnterStep(s) \/ LeaveCount(s)
      BY <2>3
    <3>2. phase' = phase
      BY <3>1 DEF EnterCount, LeaveCount, EnterStep, Reuse, MoshiOn, ReuseCheck, ReuseFails,
                  CheckKey, ReleaseStale, Declare, DeclareRefused, MoshiCheck, MoshiFails,
                  UndoCount, Commit, postureVars
    <3> QED
      BY <2>0, <2>1, <3>1, <3>2, SessionCounts DEF CountInv, RefcountExact
  <2>4. CASE \E t \in Thread : CallStep(t)
    <3>1. PICK t \in Thread : CallStep(t)
      BY <2>4
    <3>2. phase' = phase
      BY <3>1 DEF CallStep, MoshiOff, ReleaseHeld, postureVars
    <3> QED
      BY <2>0, <2>1, <3>1, <3>2, CallCounts DEF CountInv, RefcountExact
  <2>5. CASE Serve \/ EngineStop \/ Restart \/ Environment
    BY <2>1, <2>5, SystemCounts DEF CountInv, RefcountExact
  <2> QED
    BY <2>2, <2>3, <2>4, <2>5 DEF Next
<1> QED
  BY <1>1, <1>2, PTL DEF Spec

(* However enter and leave overlap, and whatever fails in them except the
   Cerebras key, _refcount is the number of sessions it stands for. *)
THEOREM RefcountCorrect == Spec => []RefcountExact
<1>1. CountInv => RefcountExact
  BY DEF CountInv
<1> QED
  BY <1>1, CountAlways, PTL

-----------------------------------------------------------------------------
(* The ownership of the activities.  The local variable of a thread is empty
   except from its declare, or its last hangup, to its release, and the main
   thread is outside any call while sessions are served. *)
EmptyPc == {"idle", "reuse", "reuseOn", "reuseCheck", "key", "stale", "declare",
            "urgent", "winEnsure", "winDeclare", "winStart", "winDrop", "winStop"}
OwnerPc == {"moshi", "moshiCheck", "commit", "undo", "undoTimeout",
            "undoOff", "undoRelease", "off", "release"}
LocalEmpty(t) == pc[t] \in EmptyPc => held[t] = None
LocalFull(t) == pc[t] \in {"moshi", "moshiCheck", "commit"} => held[t] # None

HeldInv == \A t \in Thread : LocalEmpty(t) /\ LocalFull(t)
MainIdle == phase = "serve" => pc[Main] = "idle"
LeaseInv == TypeOK /\ HeldInv /\ MainIdle /\ LeaseOwnedOnce

(* A step of one thread that takes no activity over: it keeps the one it has
   or drops it. *)
LEMMA OwnStep ==
  ASSUME LeaseInv, NEW t \in Thread,
         \A u \in Thread \ {t} : pc'[u] = pc[u] /\ held'[u] = held[u],
         lease' = lease, active' = active, phase' = phase,
         t = Main => pc[t] # "idle",
         LocalEmpty(t)', LocalFull(t)',
         held'[t] # None /\ pc'[t] \in OwnerPc => held'[t] = held[t] /\ pc[t] \in OwnerPc
  PROVE  HeldInv' /\ MainIdle' /\ LeaseOwnedOnce'
<1>1. \A u \in Owners' : u \in Owners /\ held'[u] = held[u]
  BY DEF Owners, OwnerPc
<1>2. LeaseOwnedOnce'
  BY <1>1 DEF LeaseInv, LeaseOwnedOnce
<1>3. HeldInv'
  BY DEF LeaseInv, HeldInv, LocalEmpty, LocalFull
<1>4. MainIdle'
  BY DEF LeaseInv, MainIdle, Thread
<1> QED
  BY <1>2, <1>3, <1>4

LEMMA EnterOwns ==
  ASSUME LeaseInv, NEW s \in Session, EnterCount(s) \/ EnterStep(s)
  PROVE  HeldInv' /\ MainIdle' /\ LeaseOwnedOnce'
<1>0. s \in Thread /\ s # Main /\ pc \in [Thread -> Labels] /\ held \in [Thread -> Act \cup {None}]
  BY NamesAssumption DEF Thread, LeaseInv, TypeOK, Labels
<1>1. LocalEmpty(s) /\ LocalFull(s)
  BY <1>0 DEF LeaseInv, HeldInv
<1>2. CASE EnterCount(s) \/ Reuse(s) \/ ReuseCheck(s) \/ ReuseFails(s)
  BY <1>0, <1>1, <1>2, OwnStep
     DEF EnterCount, MayCall, Reuse, ReuseCheck, ReuseFails, Goto,
         LocalEmpty, LocalFull, EmptyPc, OwnerPc
<1>3. CASE MoshiOn(s)
  BY <1>0, <1>1, <1>3, OwnStep DEF MoshiOn, Goto, LocalEmpty, LocalFull, EmptyPc, OwnerPc
<1>4. CASE CheckKey(s) \/ ReleaseStale(s)
  BY <1>0, <1>1, <1>4, OwnStep
     DEF CheckKey, ReleaseStale, Goto, postureVars, LocalEmpty, LocalFull, EmptyPc, OwnerPc
<1>5. CASE DeclareRefused(s) \/ MoshiCheck(s) \/ MoshiFails(s)
  BY <1>0, <1>1, <1>5, OwnStep
     DEF DeclareRefused, MoshiCheck, MoshiFails, Goto, postureVars,
         LocalEmpty, LocalFull, EmptyPc, OwnerPc
<1>6. CASE Declare(s)
  <2>1. PICK a \in Act \ (InForce(sig) \cup {lease} \cup {held[t] : t \in Thread}) :
          held' = [held EXCEPT ![s] = a]
    BY <1>6 DEF Declare
  <2>2. /\ pc'[s] \in {"moshi", "undo"} /\ \A u \in Thread \ {s} : pc'[u] = pc[u]
        /\ lease' = lease /\ active' = active /\ phase' = phase
    BY <1>0, <1>6 DEF Declare, Goto
  <2>3. held'[s] = a /\ a # None /\ \A u \in Thread \ {s} : held'[u] = held[u]
    BY <1>0, <2>1, NamesAssumption
  <2>4. \A u \in Owners' : u = s \/ (u \in Owners /\ held'[u] = held[u])
    BY <2>2, <2>3 DEF Owners
  <2>5. LeaseOwnedOnce'
    BY <2>1, <2>2, <2>3, <2>4 DEF LeaseInv, LeaseOwnedOnce, Owners
  <2> QED
    BY <1>0, <2>2, <2>3, <2>5
       DEF LeaseInv, HeldInv, LocalEmpty, LocalFull, EmptyPc, MainIdle, Thread
<1>7. CASE UndoCount(s)
  <2>1. /\ pc'[s] \in {"undoOff", "undoRelease"} /\ \A u \in Thread \ {s} : pc'[u] = pc[u]
        /\ lease' = None /\ active' = FALSE /\ phase' = phase /\ held' = held
    BY <1>0, <1>7 DEF UndoCount, Goto
  <2>2. pc[s] \in {"undo", "undoTimeout"}
    BY <1>7 DEF UndoCount
  <2>3. Owners' = Owners
    BY <2>1, <2>2 DEF Owners
  <2>4. LeaseOwnedOnce'
    BY <2>1, <2>3 DEF LeaseInv, LeaseOwnedOnce, Owners
  <2> QED
    BY <1>0, <2>1, <2>4
       DEF LeaseInv, HeldInv, LocalEmpty, LocalFull, EmptyPc, MainIdle, Thread
<1>8. CASE Commit(s)
  <2>1. /\ pc'[s] = "urgent" /\ held'[s] = None
        /\ \A u \in Thread \ {s} : pc'[u] = pc[u] /\ held'[u] = held[u]
        /\ lease' = held[s] /\ active' = TRUE /\ phase' = phase
    BY <1>0, <1>8 DEF Commit, Goto
  <2>2. s \in Owners /\ held[s] # None
    BY <1>0, <1>1, <1>8 DEF Commit, Owners, LocalFull
  <2>3. \A u \in Owners' : u # s /\ u \in Owners /\ held'[u] = held[u]
    BY <2>1 DEF Owners
  <2>4. LeaseOwnedOnce'
    BY <2>1, <2>2, <2>3 DEF LeaseInv, LeaseOwnedOnce
  <2> QED
    BY <1>0, <2>1, <2>4
       DEF LeaseInv, HeldInv, LocalEmpty, LocalFull, EmptyPc, MainIdle, Thread
<1> QED
  BY <1>2, <1>3, <1>4, <1>5, <1>6, <1>7, <1>8 DEF EnterStep

(* leave, from a session or from the stopping engine: the lease moves from
   the module to the thread. *)
LEMMA LeaveOwns ==
  ASSUME LeaseInv, NEW t \in Thread, pc[t] = "idle", LeaveCounted(t),
         phase' = "serve" => phase = "serve" /\ t # Main
  PROVE  HeldInv' /\ MainIdle' /\ LeaseOwnedOnce'
<1>0. held[t] = None /\ t \notin Owners
  BY DEF LeaseInv, HeldInv, LocalEmpty, EmptyPc, Owners
<1>1. \A u \in Thread \ {t} : pc'[u] = pc[u] /\ held'[u] = held[u]
  BY DEF LeaveCounted, Goto, LeaseInv, TypeOK
<1>2. CASE refcount' > 0
  <2>1. pc'[t] = "idle" /\ held' = held /\ active' = active /\ lease' = lease
    BY <1>2 DEF LeaveCounted, Goto, LeaseInv, TypeOK
  <2>2. Owners' = Owners
    BY <1>0, <1>1, <2>1 DEF Owners
  <2> QED
    BY <1>0, <1>1, <2>1, <2>2
       DEF LeaseInv, LeaseOwnedOnce, HeldInv, LocalEmpty, LocalFull, MainIdle, Thread
<1>3. CASE ~(refcount' > 0)
  <2>1. /\ pc'[t] = "off" /\ held'[t] = lease
        /\ active' = FALSE /\ lease' = None
    BY <1>3 DEF LeaveCounted, Goto, LeaseInv, TypeOK
  <2>2. \A u \in Owners' : u = t \/ (u \in Owners /\ held'[u] = held[u])
    BY <1>1 DEF Owners
  <2>3. LeaseOwnedOnce'
    BY <2>1, <2>2 DEF LeaseInv, LeaseOwnedOnce, Owners
  <2> QED
    BY <1>1, <2>1, <2>3
       DEF LeaseInv, HeldInv, LocalEmpty, LocalFull, EmptyPc, MainIdle, Thread
<1> QED
  BY <1>2, <1>3

LEMMA CallOwns ==
  ASSUME LeaseInv, NEW t \in Thread, CallStep(t)
  PROVE  HeldInv' /\ MainIdle' /\ LeaseOwnedOnce'
<1>0. pc \in [Thread -> Labels] /\ held \in [Thread -> Act \cup {None}]
  BY DEF LeaseInv, TypeOK, Labels
<1>1. LocalEmpty(t) /\ LocalFull(t)
  BY DEF LeaseInv, HeldInv
<1> USE DEF Goto, LocalEmpty, LocalFull, EmptyPc, OwnerPc, winVars, postureVars
<1>2. CASE MoshiOff(t)
  BY <1>0, <1>1, <1>2, OwnStep DEF MoshiOff
<1>3. CASE ReleaseHeld(t)
  BY <1>0, <1>1, <1>3, OwnStep DEF ReleaseHeld
<1>4. CASE Reconcile(t) /\ UNCHANGED postureVars
  <2>1. CASE ReadUrgent(t) \/ StartWorker(t) \/ StopWorker(t)
    BY <1>0, <1>1, <1>4, <2>1, OwnStep DEF ReadUrgent, StartWorker, StopWorker
  <2>2. CASE EnsureDeclared(t)
    BY <1>0, <1>1, <1>4, <2>2, OwnStep DEF EnsureDeclared
  <2>3. CASE DeclareWindow(t) \/ DeclareWindowRefused(t)
    BY <1>0, <1>1, <1>4, <2>3, OwnStep DEF DeclareWindow, DeclareWindowRefused
  <2>4. CASE DropWindow(t) \/ ReleaseWindow(t)
    BY <1>0, <1>1, <1>4, <2>4, OwnStep DEF DropWindow, ReleaseWindow
  <2> QED
    BY <1>4, <2>1, <2>2, <2>3, <2>4 DEF Reconcile
<1> QED
  BY <1>2, <1>3, <1>4 DEF CallStep

LEMMA SystemOwns ==
  ASSUME LeaseInv, Serve \/ EngineStop \/ Restart \/ Environment
  PROVE  HeldInv' /\ MainIdle' /\ LeaseOwnedOnce'
<1> USE DEF LeaseInv, HeldInv, MainIdle, LocalEmpty, LocalFull
<1>1. CASE Serve
  BY <1>1 DEF Serve, LeaseOwnedOnce, Owners
<1>2. CASE EngineStop
  <2>1. Main \in Thread /\ pc[Main] = "idle" /\ phase' = "stop" /\ LeaveCounted(Main)
    BY <1>2 DEF EngineStop, Thread
  <2> QED
    BY <2>1, LeaveOwns
<1>3. CASE Restart
  <2>1. /\ \A t \in Thread : pc'[t] \in {"idle", "urgent"} /\ held'[t] = None
        /\ active' = FALSE /\ lease' = None /\ phase' = "boot"
    BY <1>3 DEF Restart
  <2> QED
    BY <2>1 DEF LeaseOwnedOnce, Owners
<1>4. CASE Environment
  <2>1. UNCHANGED <<pc, held, active, lease, phase>>
    BY <1>4 DEF Environment, Lapse, MoshiBooted, MoshiDies, WindowLapse, postureVars
  <2> QED
    BY <2>1 DEF LeaseOwnedOnce, Owners
<1> QED
  BY <1>1, <1>2, <1>3, <1>4

LEMMA LeaseAlways == Spec => []LeaseInv
<1>1. Init => LeaseInv
  <2> SUFFICES ASSUME Init PROVE LeaseInv
    OBVIOUS
  <2>1. /\ \A t \in Thread : pc[t] \in {"idle", "urgent"} /\ held[t] = None
        /\ active = FALSE /\ lease = None /\ phase = "boot"
    BY DEF Init
  <2> QED
    BY <2>1, InitTypeOK
       DEF LeaseInv, HeldInv, LocalEmpty, LocalFull, MainIdle, LeaseOwnedOnce, Owners
<1>2. LeaseInv /\ [Next]_vars => LeaseInv'
  <2> SUFFICES ASSUME LeaseInv, [Next]_vars PROVE LeaseInv'
    OBVIOUS
  <2>1. TypeOK'
    BY TypeStep DEF LeaseInv
  <2>2. CASE UNCHANGED vars
    BY <2>1, <2>2 DEF LeaseInv, HeldInv, LocalEmpty, LocalFull, MainIdle, LeaseOwnedOnce,
                      Owners, vars, postureVars
  <2>3. CASE \E s \in Session : EnterCount(s) \/ EnterStep(s)
    BY <2>1, <2>3, EnterOwns DEF LeaseInv
  <2>4. CASE \E s \in Session : LeaveCount(s)
    <3>1. PICK s \in Session : LeaveCount(s)
      BY <2>4
    <3>2. s \in Thread /\ s # Main /\ pc[s] = "idle" /\ LeaveCounted(s) /\ phase' = phase
      BY <3>1, NamesAssumption DEF LeaveCount, MayCall, Thread
    <3> QED
      BY <2>1, <3>2, LeaveOwns DEF LeaseInv
  <2>5. CASE \E t \in Thread : CallStep(t)
    BY <2>1, <2>5, CallOwns DEF LeaseInv
  <2>6. CASE Serve \/ EngineStop \/ Restart \/ Environment
    BY <2>1, <2>6, SystemOwns DEF LeaseInv
  <2> QED
    BY <2>2, <2>3, <2>4, <2>5, <2>6 DEF Next
<1> QED
  BY <1>1, <1>2, PTL DEF Spec
(* However enter, leave and engine stop overlap and fail, an activity that was
   declared is in one place only, so nobody releases or publishes another
   session's activity. *)
THEOREM LeaseOwned == Spec => []LeaseOwnedOnce
<1>1. LeaseInv => LeaseOwnedOnce
  BY DEF LeaseInv
<1> QED
  BY <1>1, LeaseAlways, PTL

-----------------------------------------------------------------------------
(* Calls that do not overlap.  While the engine serves or starts, one thread
   is inside a call, or none is; what holds then depends on how far that
   thread has come, and is said of its label l and its local activity h.
   Nothing is said of an engine that stops: its last leave overlaps whatever
   call is in flight. *)
NewPc == {"key", "stale", "declare", "moshi", "moshiCheck", "commit",
          "undo", "undoTimeout", "undoOff", "undoRelease"}
ReusePc == {"reuse", "reuseOn", "reuseCheck"}
EndPc == {"off", "release", "winDrop", "winRelease", "winStop"}

Keyed == "key" \notin Faults
Timely == {"signals", "slow"} \cap Faults = {}
Steady == {"moshi", "key", "restart"} \cap Faults = {}

FlagAt(l) ==
  /\ l \in NewPc \cup EndPc => ~active
  /\ l \in ReusePc \cup {"winEnsure", "winDeclare", "winStart"} => active

BeatsAt(l, h) ==
  /\ \A a \in Act : sig[a] = "live" => a = lease \/ (l \in {"off", "release"} /\ a = h)
  /\ active /\ Timely => sig[lease] = "live"
  /\ l \in {"moshi", "moshiCheck", "commit"} /\ Timely => sig[h] = "silent"

WindowAt(l, h) ==
  /\ \A a \in Act : winSig[a] = "live" => a = winLease \/ (l = "winRelease" /\ a = h)
  /\ l \notin EndPc \cup {"urgent"} =>
       (worker => active /\ winLease # None) /\ (winLease # None => active)
  /\ l = "urgent" /\ active /\ worker => winLease # None
  /\ l \in {"winDeclare", "winRelease", "winStop"} => winLease = None
  /\ l = "winStart" => winLease # None

CountAt(l) ==
  /\ active => refcount >= 1
  /\ l \in NewPc \ {"undoOff", "undoRelease"} => refcount >= 1
  /\ l \in ReusePc => refcount >= 2
  /\ Keyed => (active <=> holders # {})

MoshiAt(l) ==
  Steady =>
    /\ moshi \in {"off", "on"}
    /\ active \/ l \in {"moshiCheck", "commit"} => moshi = "on"
    /\ ~active /\ l \notin {"moshiCheck", "commit", "off"} => moshi = "off"

At(l, h) == FlagAt(l) /\ BeatsAt(l, h) /\ WindowAt(l, h) /\ CountAt(l) /\ MoshiAt(l)

Alone(t) == \A u \in Thread \ {t} : pc[u] = "idle"
AloneInv ==
  /\ pc[Main] \in {"idle"} \cup WinPc
  /\ phase = "boot" => \A s \in Session : pc[s] = "idle"
  /\ \E t \in Thread : Alone(t) /\ At(pc[t], held[t])
CallInv == Serial /\ phase # "stop" => AloneInv

LEMMA BusyAlone ==
  ASSUME AloneInv, NEW t \in Thread, pc[t] # "idle"
  PROVE  Alone(t) /\ At(pc[t], held[t])
BY DEF AloneInv, Alone

(* A call of a session begins when no other is in flight. *)
LEMMA BetweenCalls ==
  ASSUME LeaseInv, AloneInv, Serial, NEW s \in Session, MayCall(s)
  PROVE  phase = "serve" /\ (\A u \in Thread : pc[u] = "idle" /\ held[u] = None) /\ At("idle", None)
<1>1. InFlight \in SUBSET Session /\ IsFiniteSet(InFlight)
  BY SessionAssumption, FS_Subset DEF InFlight
<1>2. InFlight = {}
  BY <1>1, FS_CardinalityType, FS_EmptySet DEF MayCall, MaxCalls, Serial
<1>3. phase = "serve" /\ \A u \in Thread : pc[u] = "idle"
  BY <1>2 DEF MayCall, InFlight, Thread, LeaseInv, MainIdle
<1>4. \A u \in Thread : held[u] = None
  BY <1>3 DEF LeaseInv, HeldInv, LocalEmpty, EmptyPc
<1> QED
  BY <1>3, <1>4 DEF AloneInv

(* What releases and lapses leave: no heartbeat that was not there. *)
LEMMA ReleasedBeats ==
  ASSUME NEW f \in [Act -> Sig], NEW S, NEW stopped, NEW failed, NEW a \in Act
  PROVE  /\ Released(f, S, stopped, failed)[a] = "live" => f[a] = "live" /\ a \notin S \cap stopped
         /\ a \notin S => Released(f, S, stopped, failed)[a] = f[a]
BY DEF Released, Sig

LEMMA SessionAlone ==
  ASSUME LeaseInv, AloneInv, Serial, phase # "stop", scene' = scene,
         NEW s \in Session, EnterStep(s)
  PROVE  At(pc[s], held[s])'
<1>0. /\ TypeOK /\ s \in Thread /\ (active <=> lease # None)
      /\ LocalEmpty(s) /\ LocalFull(s) /\ Act \cap {None} = {}
  BY NamesAssumption DEF LeaseInv, HeldInv, LeaseOwnedOnce, Thread
<1>1. pc[s] \in EnterPc \cup {"commit"}
  BY DEF EnterPc, EnterStep, Reuse, MoshiOn, ReuseCheck, ReuseFails, CheckKey, ReleaseStale,
         Declare, DeclareRefused, MoshiCheck, MoshiFails, UndoCount, Commit
<1>2. At(pc[s], held[s])
  BY <1>0, <1>1, BusyAlone DEF EnterPc
<1> USE <1>0, <1>2 DEF At, FlagAt, BeatsAt, WindowAt, CountAt, MoshiAt, NewPc, ReusePc, EndPc,
        Keyed, Timely, Steady, Faults, Goto, TypeOK, WinTypeOK, winVars, postureVars
<1>3. CASE Reuse(s) \/ ReuseCheck(s)
  BY <1>3 DEF Reuse, ReuseCheck
<1>4. CASE MoshiOn(s)
  BY <1>4 DEF MoshiOn
<1>5. CASE ReuseFails(s)
  BY <1>5 DEF ReuseFails, MoshiGivesUp, NatMinus1
<1>6. CASE CheckKey(s)
  BY <1>6 DEF CheckKey
<1>7. CASE ReleaseStale(s)
  <2>1. PICK failed \in MayFail(InForce(sig)) : sig' = Released(sig, InForce(sig), {}, failed)
    BY <1>7 DEF ReleaseStale
  <2>2. \A a \in Act : sig'[a] = "live" => sig[a] = "live"
    BY <2>1, ReleasedBeats
  <2> QED
    BY <1>7, <2>2 DEF ReleaseStale
<1>8. CASE Declare(s)
  <2>1. PICK a \in Act : sig' = [sig EXCEPT ![a] = "silent"] /\ held' = [held EXCEPT ![s] = a]
    BY <1>8 DEF Declare
  <2> QED
    BY <1>8, <2>1 DEF Declare
<1>9. CASE DeclareRefused(s) \/ MoshiCheck(s)
  BY <1>9 DEF DeclareRefused, MoshiCheck
<1>10. CASE MoshiFails(s)
  BY <1>10 DEF MoshiFails
<1>11. CASE UndoCount(s)
  BY <1>11 DEF UndoCount
<1>12. CASE Commit(s)
  BY <1>12 DEF Commit, LocalFull
<1> QED
  BY <1>3, <1>4, <1>5, <1>6, <1>7, <1>8, <1>9, <1>10, <1>11, <1>12 DEF EnterStep

LEMMA CallAlone ==
  ASSUME LeaseInv, AloneInv, scene' = scene, NEW t \in Thread, CallStep(t)
  PROVE  At(pc[t], held[t])'
<1>0. /\ TypeOK /\ (active <=> lease # None) /\ LocalEmpty(t) /\ Act \cap {None} = {}
  BY NamesAssumption DEF LeaseInv, HeldInv, LeaseOwnedOnce
<1>1. pc[t] \in AfterPc \cup WinPc
  BY DEF AfterPc, WinPc, CallStep, MoshiOff, ReleaseHeld, Reconcile, ReadUrgent, EnsureDeclared,
         DeclareWindow, DeclareWindowRefused, StartWorker, DropWindow, ReleaseWindow, StopWorker
<1>2. At(pc[t], held[t])
  BY <1>1, BusyAlone DEF AfterPc, WinPc
<1> USE <1>0, <1>2 DEF At, FlagAt, BeatsAt, WindowAt, CountAt, MoshiAt, NewPc, ReusePc, EndPc,
        Keyed, Timely, Steady, Faults, Goto, TypeOK, WinTypeOK, winVars, postureVars
<1>3. CASE MoshiOff(t)
  BY <1>3 DEF MoshiOff
<1>4. CASE ReleaseHeld(t)
  <2> DEFINE S == {held[t]} \ {None}
  <2>1. PICK failed \in MayFail(S) : sig' = Released(sig, S, S, failed)
    BY <1>4 DEF ReleaseHeld
  <2>2. \A a \in Act : sig'[a] = "live" => sig[a] = "live" /\ a # held[t]
    BY <2>1, ReleasedBeats
  <2> QED
    BY <1>4, <2>2 DEF ReleaseHeld
<1>5. CASE Reconcile(t) /\ UNCHANGED postureVars
  <2>1. CASE ReadUrgent(t)
    BY <1>5, <2>1 DEF ReadUrgent
  <2>2. CASE EnsureDeclared(t)
    <3>1. \A a \in Act : winSig'[a] = "live" => winSig[a] = "live"
      BY <2>2, ReleasedBeats DEF EnsureDeclared
    <3> QED
      BY <1>5, <2>2, <3>1 DEF EnsureDeclared
  <2>3. CASE DeclareWindow(t)
    BY <1>5, <2>3 DEF DeclareWindow
  <2>4. CASE DeclareWindowRefused(t) \/ StartWorker(t)
    BY <1>5, <2>4 DEF DeclareWindowRefused, StartWorker
  <2>5. CASE StopWorker(t)
    BY <1>5, <2>5 DEF StopWorker
  <2>6. CASE DropWindow(t)
    BY <1>5, <2>6 DEF DropWindow
  <2>7. CASE ReleaseWindow(t)
    <3> DEFINE S == IF held[t] # None THEN {held[t]} ELSE InForce(winSig)
    <3>1. PICK failed \in MayFail(S) : winSig' = Released(winSig, S, {held[t]}, failed)
      BY <2>7 DEF ReleaseWindow
    <3>2. \A a \in Act : winSig'[a] = "live" => winSig[a] = "live" /\ a # held[t]
      BY <3>1, ReleasedBeats
    <3> QED
      BY <1>5, <2>7, <3>2 DEF ReleaseWindow
  <2> QED
    BY <1>5, <2>1, <2>2, <2>3, <2>4, <2>5, <2>6, <2>7 DEF Reconcile
<1> QED
  BY <1>3, <1>4, <1>5 DEF CallStep

(* The first step of an enter or a leave.  That the last hangup finds no
   holder left, and no earlier one does, is the exact count. *)
LEMMA BeginAlone ==
  ASSUME LeaseInv, CountInv, CountInv', AloneInv, Serial, scene' = scene,
         NEW s \in Session, EnterCount(s) \/ LeaveCount(s)
  PROVE  Alone(s) /\ At(pc[s], held[s])'
<1>0. /\ TypeOK /\ s \in Thread /\ (active <=> lease # None) /\ Act \cap {None} = {}
  BY NamesAssumption DEF LeaseInv, LeaseOwnedOnce, Thread
<1>1. phase = "serve" /\ (\A u \in Thread : pc[u] = "idle" /\ held[u] = None) /\ At("idle", None)
  BY BetweenCalls DEF EnterCount, LeaveCount
<1> USE <1>0, <1>1 DEF At, FlagAt, BeatsAt, WindowAt, CountAt, MoshiAt, NewPc, ReusePc, EndPc,
        Keyed, Timely, Steady, Faults, Goto, TypeOK, WinTypeOK, winVars, postureVars
<1>2. CASE EnterCount(s)
  BY <1>2 DEF EnterCount, Alone
<1>3. CASE LeaveCount(s)
  <2>1. \A u \in Thread : pc'[u] \notin EnterPc \cup {"commit"}
    BY <1>3 DEF LeaveCount, LeaveCounted, EnterPc
  <2>2. Counted' = holders' /\ phase' = "serve"
    BY <1>3, <2>1 DEF Counted, Entering, Thread, LeaveCount
  <2>3. Keyed => refcount' = Cardinality(holders')
    BY <2>2 DEF CountInv, RefcountExact
  <2>4. holders' \in SUBSET Session /\ IsFiniteSet(holders')
    BY SessionAssumption, FS_Subset DEF CountInv
  <2>5. Keyed => (refcount' = 0 <=> holders' = {})
    BY <2>3, <2>4, FS_EmptySet
  <2> QED
    BY <1>3, <2>5 DEF LeaveCount, LeaveCounted, Alone, NatMinus1
<1> QED
  BY <1>2, <1>3

LEMMA SystemAlone ==
  ASSUME LeaseInv, AloneInv, scene' = scene, Serve \/ Environment
  PROVE  AloneInv'
<1>0. TypeOK /\ (active <=> lease # None) /\ Act \cap {None} = {}
  BY NamesAssumption DEF LeaseInv, LeaseOwnedOnce
<1>1. UNCHANGED <<pc, held, active, lease, refcount, holders, winLease, worker>>
      /\ (phase' = "boot" => phase = "boot")
  BY DEF Serve, Environment, Lapse, MoshiBooted, MoshiDies, WindowLapse, winVars, postureVars
<1>2. PICK t \in Thread : Alone(t) /\ At(pc[t], held[t])
  BY DEF AloneInv
<1>3. \A a \in Act : /\ sig'[a] \in {sig[a], "none"} /\ winSig'[a] \in {winSig[a], "none"}
  BY <1>0 DEF Serve, Environment, Lapse, MoshiBooted, MoshiDies, WindowLapse, winVars, postureVars,
              TypeOK, WinTypeOK
<1>4. Timely => \A a \in Act : /\ sig[a] = "live" => sig'[a] = "live"
                               /\ sig[a] = "silent" /\ a \in Awaited => sig'[a] = "silent"
  BY <1>0 DEF Serve, Environment, Lapse, MoshiBooted, MoshiDies, WindowLapse, winVars, postureVars,
              TypeOK, Timely, Awaited
<1>5. Steady /\ moshi # "booting" => moshi' = moshi
  BY DEF Serve, Environment, Lapse, MoshiBooted, MoshiDies, WindowLapse, winVars, postureVars, Steady
<1>6. pc[t] \in {"moshi", "moshiCheck", "commit"} => held[t] \in Act /\ held[t] \in Awaited
  <2> SUFFICES ASSUME pc[t] \in {"moshi", "moshiCheck", "commit"} PROVE held[t] \in Act /\ held[t] \in Awaited
    OBVIOUS
  <2>1. held[t] \in Act
    BY <1>0 DEF LeaseInv, HeldInv, LocalFull, TypeOK
  <2>2. t \in Session
    BY DEF AloneInv, WinPc, Thread
  <2> QED
    BY <2>1, <2>2 DEF Awaited
<1>7. lease \in Act \cup {None}
  BY <1>0 DEF TypeOK
<1>8. At(pc[t], held[t])'
  BY <1>0, <1>1, <1>2, <1>3, <1>4, <1>5, <1>6, <1>7
     DEF At, FlagAt, BeatsAt, WindowAt, CountAt, MoshiAt, Keyed, Timely, Steady, Faults
<1> QED
  BY <1>1, <1>2, <1>8 DEF AloneInv, Alone

(* An engine that starts has no session and no heartbeat. *)
LEMMA StartAlone ==
  ASSUME TypeOK, Main \in Thread, \A t \in Thread : pc[t] = (IF t = Main THEN "urgent" ELSE "idle"),
         ~active, lease = None, winLease = None, holders = {},
         \A a \in Act : sig[a] # "live" /\ winSig[a] # "live",
         Steady => moshi = "off"
  PROVE  AloneInv
<1>1. Alone(Main) /\ pc[Main] = "urgent" /\ \A s \in Session : pc[s] = "idle"
  BY NamesAssumption DEF Alone, Thread
<1>2. At("urgent", held[Main])
  BY NamesAssumption DEF At, FlagAt, BeatsAt, WindowAt, CountAt, MoshiAt, NewPc, ReusePc, EndPc
<1> QED
  BY <1>1, <1>2 DEF AloneInv, WinPc

LEMMA CallStart == Init => CallInv
<1> SUFFICES ASSUME Init PROVE AloneInv
  BY DEF CallInv
<1>1. TypeOK /\ Main \in Thread
  BY InitTypeOK DEF Thread
<1> QED
  BY <1>1, StartAlone DEF Init, WinInit

LEMMA CallInvStep ==
  ASSUME LeaseInv, CountInv, LeaseInv', CountInv', CallInv, [Next]_vars
  PROVE  CallInv'
<1> SUFFICES ASSUME Serial', phase' # "stop" PROVE AloneInv'
  BY DEF CallInv
<1>0. scene' = scene /\ Serial
  BY SceneKept DEF Serial
<1>1. pc \in [Thread -> Labels] /\ Main \in Thread /\ Main \notin Session
  BY NamesAssumption DEF LeaseInv, TypeOK, Labels, Thread
<1>2. CASE UNCHANGED vars
  BY <1>0, <1>2 DEF CallInv, AloneInv, Alone, At, FlagAt, BeatsAt, WindowAt, CountAt, MoshiAt,
                    Keyed, Timely, Steady, Faults, vars, winVars, postureVars
<1>3. CASE \E s \in Session : EnterCount(s) \/ EnterStep(s) \/ LeaveCount(s)
  <2>1. PICK s \in Session : EnterCount(s) \/ EnterStep(s) \/ LeaveCount(s)
    BY <1>3
  <2>2. phase' = phase /\ \A u \in Thread \ {s} : pc'[u] = pc[u]
    BY <1>1, <2>1 DEF EnterCount, LeaveCount, LeaveCounted, EnterStep, Reuse, MoshiOn, ReuseCheck,
                ReuseFails, CheckKey, ReleaseStale, Declare, DeclareRefused, MoshiCheck, MoshiFails,
                UndoCount, Commit, Goto, postureVars
  <2>3. AloneInv
    BY <1>0, <2>2 DEF CallInv
  <2>4. s \in Thread /\ Alone(s) /\ phase # "boot" /\ At(pc[s], held[s])'
    <3>1. CASE EnterCount(s) \/ LeaveCount(s)
      BY <1>0, <2>3, <3>1, BeginAlone DEF EnterCount, LeaveCount, MayCall, Thread
    <3>2. CASE EnterStep(s)
      <4>1. pc[s] # "idle"
        BY <3>2 DEF EnterStep, Reuse, MoshiOn, ReuseCheck, ReuseFails, CheckKey, ReleaseStale,
                    Declare, DeclareRefused, MoshiCheck, MoshiFails, UndoCount, Commit
      <4>2. s \in Thread /\ Alone(s)
        BY <2>3, <4>1, BusyAlone DEF Thread
      <4> QED
        BY <1>0, <2>2, <2>3, <3>2, <4>1, <4>2, SessionAlone DEF AloneInv
    <3> QED
      BY <2>1, <3>1, <3>2
  <2> QED
    BY <1>1, <2>2, <2>3, <2>4 DEF AloneInv, Alone
<1>4. CASE \E t \in Thread : CallStep(t)
  <2>1. PICK t \in Thread : CallStep(t)
    BY <1>4
  <2>2. phase' = phase /\ \A u \in Thread \ {t} : pc'[u] = pc[u]
    BY <1>1, <2>1 DEF CallStep, MoshiOff, ReleaseHeld, Reconcile, ReadUrgent, EnsureDeclared,
         DeclareWindow, DeclareWindowRefused, StartWorker, DropWindow, ReleaseWindow, StopWorker,
         Goto, postureVars
  <2>3. AloneInv
    BY <1>0, <2>2 DEF CallInv
  <2>4. /\ pc[t] # "idle"
        /\ pc[t] \in WinPc => pc'[t] \in {"idle"} \cup WinPc
    BY <1>1, <2>1 DEF CallStep, MoshiOff, ReleaseHeld, Reconcile, ReadUrgent, EnsureDeclared,
         DeclareWindow, DeclareWindowRefused, StartWorker, DropWindow, ReleaseWindow, StopWorker,
         Goto, WinPc
  <2>5. Alone(t) /\ At(pc[t], held[t])'
    BY <1>0, <2>1, <2>3, <2>4, BusyAlone, CallAlone
  <2>6. phase' = "boot" => \A s \in Session : pc'[s] = "idle"
    BY <2>2, <2>3, <2>4 DEF AloneInv, Thread
  <2>7. pc'[Main] \in {"idle"} \cup WinPc
    BY <1>1, <2>2, <2>3, <2>4 DEF AloneInv
  <2> QED
    BY <2>2, <2>5, <2>6, <2>7 DEF AloneInv, Alone
<1>5. CASE Serve \/ Environment
  <2>1. AloneInv
    BY <1>0, <1>5 DEF CallInv, Serve, Environment, Lapse, MoshiBooted, MoshiDies, WindowLapse, postureVars
  <2> QED
    BY <1>0, <1>5, <2>1, SystemAlone
<1>6. CASE EngineStop
  BY <1>6 DEF EngineStop
<1>7. CASE Restart
  <2>1. /\ \A t \in Thread : pc'[t] = (IF t = Main THEN "urgent" ELSE "idle")
        /\ ~active' /\ lease' = None /\ winLease' = None /\ holders' = {}
    BY <1>7 DEF Restart
  <2>6. ~Steady'
    BY <1>0, <1>7 DEF Restart, Steady, Faults
  <2>2. \A a \in Act : sig'[a] # "live" /\ winSig'[a] # "live"
    BY <1>7 DEF Restart
  <2>3. TypeOK'
    BY DEF LeaseInv
  <2>4. Alone(Main)' /\ pc'[Main] = "urgent" /\ \A s \in Session : pc'[s] = "idle"
    BY <1>1, <2>1 DEF Alone, Thread
  <2>5. At(pc[Main], held[Main])'
    BY <2>1, <2>2, <2>4, <2>6, NamesAssumption
       DEF At, FlagAt, BeatsAt, WindowAt, CountAt, MoshiAt, NewPc, ReusePc, EndPc
  <2> QED
    BY <1>1, <2>4, <2>5 DEF AloneInv, WinPc
<1> QED
  BY <1>2, <1>3, <1>4, <1>5, <1>6, <1>7 DEF Next

LEMMA CallAlways == Spec => []CallInv
<1>1. LeaseInv /\ LeaseInv' /\ CountInv /\ CountInv' /\ CallInv /\ [Next]_vars => CallInv'
  BY CallInvStep
<1> QED
  BY <1>1, CallStart, CountAlways, LeaseAlways, PTL DEF Spec

(* Between calls that do not overlap, the posture, the worker and moshi are
   what the sessions that are up ask for, for any sessions and activities. *)
THEOREM PostureIsFollowed == Spec => []FollowsHolders
<1>1. LeaseInv /\ CallInv => FollowsHolders
  <2> SUFFICES ASSUME LeaseInv, CallInv, Quiescent, Serial PROVE FollowsHolders
    BY DEF FollowsHolders, PostureFollowsHolders, WorkerFollowsPosture, MoshiFollowsHolders
  <2>1. \E h : At("idle", h)
    BY DEF CallInv, AloneInv, Quiescent
  <2> QED
    BY <2>1 DEF At, FlagAt, WindowAt, CountAt, MoshiAt, Keyed, Steady, NewPc, ReusePc, EndPc,
                FollowsHolders, PostureFollowsHolders, WorkerFollowsPosture, MoshiFollowsHolders
<1> QED
  BY <1>1, LeaseAlways, CallAlways, PTL

(* Between calls that do not overlap, only recorded leases have a heartbeat,
   and a session that is up has one while Signals answers in time. *)
THEOREM HeartbeatsAreOwned == Spec => []HeartbeatsOwned
<1>1. LeaseInv /\ CallInv => HeartbeatsOwned
  <2> SUFFICES ASSUME LeaseInv, CallInv, Quiescent, Serial PROVE HeartbeatsOwned
    BY DEF HeartbeatsOwned
  <2>1. \E h : At("idle", h)
    BY DEF CallInv, AloneInv, Quiescent
  <2> QED
    BY <2>1 DEF At, BeatsAt, WindowAt, Timely, HeartbeatsOwned
<1> QED
  BY <1>1, LeaseAlways, CallAlways, PTL

-----------------------------------------------------------------------------
(* The refinement.  Every step of the protocol is a step of PostureContract or
   leaves what it speaks of alone, also while the engine stops.  What a new
   posture needs for it survives the last leave of the engine: from the first
   look at the key to its commit no heartbeat runs and nobody holds. *)
Beats == \E a \in Act : sig[a] = "live"

NewAlone ==
  \A s \in Session : pc[s] \in NewPc => ~active /\ ~Beats /\ (Keyed => holders = {})
ReuseOn == \A s \in Session : pc[s] \in ReusePc => active
OneCaller == \A s, u \in Session : pc[s] # "idle" /\ pc[u] # "idle" => s = u
SessionInv == Serial => NewAlone /\ ReuseOn /\ OneCaller

LEMMA BeatsBegin ==
  ASSUME TypeOK, [Next]_vars, ~Beats, Beats'
  PROVE  \E s \in Session : Commit(s)
<1> USE DEF TypeOK, Beats, winVars, postureVars
<1>1. ~UNCHANGED vars
  BY DEF vars
<1>2. ASSUME NEW s \in Session, EnterCount(s) \/ EnterStep(s) \/ LeaveCount(s)
      PROVE  Commit(s)
  <2>1. ~ReleaseStale(s)
    BY ReleasedBeats DEF ReleaseStale
  <2> QED
    BY <1>2, <2>1 DEF EnterCount, LeaveCount, LeaveCounted, EnterStep, Reuse, MoshiOn, ReuseCheck,
                ReuseFails, CheckKey, Declare, DeclareRefused, MoshiCheck, MoshiFails, UndoCount
<1>3. ASSUME NEW t \in Thread, CallStep(t) PROVE FALSE
  <2>1. ~ReleaseHeld(t)
    BY ReleasedBeats DEF ReleaseHeld
  <2> QED
    BY <1>3, <2>1 DEF CallStep, MoshiOff
<1>4. ~(Serve \/ EngineStop \/ Restart \/ Environment)
  BY DEF Serve, EngineStop, LeaveCounted, Restart, Environment, Lapse, MoshiBooted, MoshiDies, WindowLapse
<1> QED
  BY <1>1, <1>2, <1>3, <1>4 DEF Next

LEMMA SessionStep ==
  ASSUME LeaseInv, CallInv, SessionInv, Serial, scene' = scene,
         NEW s \in Session, EnterCount(s) \/ EnterStep(s) \/ LeaveCount(s)
  PROVE  NewAlone' /\ ReuseOn' /\ OneCaller'
<1>0. pc \in [Thread -> Labels] /\ s \in Thread /\ TypeOK
  BY DEF LeaseInv, TypeOK, Labels, Thread
<1>1. \A u \in Session \ {s} : pc[u] = "idle" /\ pc'[u] = "idle"
  <2>1. \A u \in Session \ {s} : pc'[u] = pc[u]
    BY <1>0 DEF EnterCount, LeaveCount, LeaveCounted, EnterStep, Reuse, MoshiOn, ReuseCheck,
                ReuseFails, CheckKey, ReleaseStale, Declare, DeclareRefused, MoshiCheck, MoshiFails,
                UndoCount, Commit, Goto, Thread
  <2>2. CASE pc[s] # "idle"
    BY <2>1, <2>2 DEF SessionInv, OneCaller
  <2>3. CASE pc[s] = "idle"
    <3>1. MayCall(s)
      BY <2>3 DEF EnterCount, LeaveCount, EnterStep, Reuse, MoshiOn, ReuseCheck, ReuseFails, CheckKey,
                  ReleaseStale, Declare, DeclareRefused, MoshiCheck, MoshiFails, UndoCount, Commit
    <3>2. \A u \in Thread : pc[u] = "idle"
      BY <3>1, BetweenCalls DEF CallInv, MayCall
    <3> QED
      BY <2>1, <3>2 DEF Thread
  <2> QED
    BY <2>2, <2>3
<1>2. OneCaller'
  BY <1>1 DEF OneCaller
<1>3. pc'[s] \in NewPc => ~active' /\ ~Beats' /\ (Keyed' => holders' = {})
  <2> SUFFICES ASSUME pc'[s] \in NewPc PROVE ~active' /\ ~Beats' /\ (Keyed' => holders' = {})
    OBVIOUS
  <2>1. ~\E u \in Session : Commit(u)
    BY <1>0, <1>1 DEF Commit, NewPc, Goto
  <2>2. ~active /\ ~Beats /\ (Keyed => holders = {})
    <3>1. CASE EnterCount(s)
      <4>1. At("idle", None)
        BY <3>1, BetweenCalls DEF EnterCount, MayCall, CallInv
      <4>2. ~active
        BY <1>0, <3>1, <4>1 DEF EnterCount, Goto, At, CountAt, NewPc, TypeOK
      <4> QED
        BY <4>1, <4>2, NamesAssumption DEF At, BeatsAt, CountAt, Beats, LeaseInv, LeaseOwnedOnce
    <3>2. CASE ~EnterCount(s)
      <4>1. pc[s] \in NewPc
        BY <1>0, <3>2 DEF LeaveCount, LeaveCounted, EnterStep, Reuse, MoshiOn, ReuseCheck, ReuseFails,
             CheckKey, ReleaseStale, Declare, DeclareRefused, MoshiCheck, MoshiFails, UndoCount, Commit,
             Goto, NewPc
      <4> QED
        BY <4>1 DEF SessionInv, NewAlone
    <3> QED
      BY <3>1, <3>2
  <2>3. ~active' /\ (holders = {} => holders' = {})
    BY <1>0, <2>1, <2>2 DEF EnterCount, LeaveCount, LeaveCounted, EnterStep, Reuse, MoshiOn, ReuseCheck,
         ReuseFails, CheckKey, ReleaseStale, Declare, DeclareRefused, MoshiCheck, MoshiFails,
         UndoCount, postureVars, Goto, NewPc
  <2>4. ~Beats'
    BY <1>0, <2>1, <2>2, BeatsBegin DEF Next
  <2> QED
    BY <2>2, <2>3, <2>4 DEF Keyed, Faults
<1>4. pc'[s] \in ReusePc => active'
  <2> SUFFICES ASSUME pc'[s] \in ReusePc PROVE active'
    OBVIOUS
  <2>1. CASE EnterCount(s)
    BY <1>0, <2>1 DEF EnterCount, Goto, ReusePc
  <2>2. CASE LeaveCount(s)
    BY <1>0, <2>2 DEF LeaveCount, LeaveCounted, Goto, ReusePc
  <2>3. CASE EnterStep(s)
    BY <1>0, <2>3 DEF EnterStep, Reuse, MoshiOn, ReuseCheck, ReuseFails, CheckKey, ReleaseStale,
         Declare, DeclareRefused, MoshiCheck, MoshiFails, UndoCount, Commit, Goto, ReusePc,
         SessionInv, ReuseOn
  <2> QED
    BY <2>1, <2>2, <2>3
<1> QED
  BY <1>1, <1>2, <1>3, <1>4 DEF NewAlone, ReuseOn, NewPc, ReusePc

(* The other steps take no session into a call. *)
LEMMA OthersGoOn ==
  ASSUME TypeOK, [Next]_vars, ~Restart,
         ~\E s \in Session : EnterCount(s) \/ EnterStep(s) \/ LeaveCount(s)
  PROVE  /\ \A s \in Session : /\ pc'[s] \in NewPc => pc[s] \in NewPc
                               /\ pc'[s] \in ReusePc => pc[s] \in ReusePc
                               /\ pc'[s] # "idle" => pc[s] # "idle"
         /\ holders' = holders
         /\ active' => active
         /\ active => active' \/ EngineStop
<1>0. pc \in [Thread -> Labels] /\ \A s \in Session : s \in Thread /\ s # Main
  BY NamesAssumption DEF TypeOK, Labels, Thread
<1> USE <1>0 DEF Goto, NewPc, ReusePc
<1>1. CASE UNCHANGED vars \/ Serve \/ Environment
  BY <1>1 DEF vars, Serve, Environment, Lapse, MoshiBooted, MoshiDies, WindowLapse, postureVars
<1>2. CASE EngineStop
  <2>1. holders' = holders
    BY <1>2, NamesAssumption DEF EngineStop, LeaveCounted, TypeOK
  <2>2. \A s \in Session : pc'[s] = pc[s]
    BY <1>2 DEF EngineStop, LeaveCounted
  <2>3. active' => active
    BY <1>2 DEF EngineStop, LeaveCounted
  <2> QED
    BY <1>2, <2>1, <2>2, <2>3
<1>3. CASE \E t \in Thread : CallStep(t)
  <2>1. PICK t \in Thread : CallStep(t)
    BY <1>3
  <2>2. /\ \A u \in Thread \ {t} : pc'[u] = pc[u]
        /\ pc[t] # "idle" /\ pc'[t] \notin (NewPc \ {"undoRelease"}) \cup ReusePc
        /\ pc'[t] = "undoRelease" => pc[t] = "undoOff"
    BY <2>1 DEF CallStep, MoshiOff, ReleaseHeld, Reconcile, ReadUrgent, EnsureDeclared,
             DeclareWindow, DeclareWindowRefused, StartWorker, DropWindow, ReleaseWindow, StopWorker
  <2>3. holders' = holders /\ active' = active
    BY <2>1 DEF CallStep, MoshiOff, ReleaseHeld, Reconcile, ReadUrgent, EnsureDeclared,
             DeclareWindow, DeclareWindowRefused, StartWorker, DropWindow, ReleaseWindow, StopWorker,
             postureVars
  <2> QED
    BY <2>2, <2>3
<1> QED
  BY <1>1, <1>2, <1>3 DEF Next

LEMMA SessionInvStep ==
  ASSUME LeaseInv, CallInv, SessionInv, [Next]_vars
  PROVE  SessionInv'
<1> SUFFICES ASSUME Serial' PROVE NewAlone' /\ ReuseOn' /\ OneCaller'
  BY DEF SessionInv
<1>0. scene' = scene /\ Serial /\ TypeOK
  BY SceneKept DEF Serial, LeaseInv
<1>1. CASE \E s \in Session : EnterCount(s) \/ EnterStep(s) \/ LeaveCount(s)
  BY <1>0, <1>1, SessionStep
<1>2. CASE Restart
  <2>1. \A s \in Session : pc'[s] = "idle"
    BY <1>2, NamesAssumption DEF Restart, Thread
  <2> QED
    BY <2>1 DEF NewAlone, ReuseOn, OneCaller, NewPc, ReusePc
<1>3. CASE ~Restart /\ ~\E s \in Session : EnterCount(s) \/ EnterStep(s) \/ LeaveCount(s)
  <2>1. ~Beats => ~Beats'
    BY <1>0, <1>3, BeatsBegin DEF EnterStep
  <2>2. OneCaller'
    BY <1>0, <1>3, OthersGoOn DEF OneCaller, SessionInv
  <2>3. NewAlone'
    <3> SUFFICES ASSUME NEW s \in Session, pc'[s] \in NewPc
                 PROVE  ~active' /\ ~Beats' /\ (Keyed' => holders' = {})
      BY DEF NewAlone
    <3>1. pc[s] \in NewPc /\ ~active /\ ~Beats /\ (Keyed => holders = {})
      BY <1>0, <1>3, OthersGoOn DEF SessionInv, NewAlone
    <3> QED
      <4>1. ~active' /\ holders' = holders
        BY <1>0, <1>3, <3>1, OthersGoOn
      <4> QED
        BY <1>0, <2>1, <3>1, <4>1 DEF Keyed, Faults
  <2>4. ASSUME NEW s \in Session, pc'[s] \in ReusePc PROVE active'
    <3>1. pc[s] \in ReusePc /\ active
      BY <1>0, <1>3, <2>4, OthersGoOn DEF SessionInv, ReuseOn
    <3>2. CASE EngineStop
      <4>1. At(pc[s], held[s])
        BY <1>0, <3>1, <3>2, BusyAlone DEF EngineStop, CallInv, Thread, ReusePc
      <4>2. refcount \in Nat /\ refcount >= 2
        BY <1>0, <3>1, <4>1 DEF At, CountAt, TypeOK
      <4>3. refcount' # 0
        BY <3>2, <4>2 DEF EngineStop, LeaveCounted, NatMinus1
      <4> QED
        BY <3>1, <3>2, <4>3 DEF EngineStop, LeaveCounted
    <3> QED
      BY <1>0, <1>3, <3>1, <3>2, OthersGoOn
  <2> QED
    BY <2>2, <2>3, <2>4 DEF ReuseOn
<1> QED
  BY <1>1, <1>2, <1>3

LEMMA SessionAlways == Spec => []SessionInv
<1>1. Init => SessionInv
  BY NamesAssumption DEF Init, SessionInv, NewAlone, ReuseOn, OneCaller, NewPc, ReusePc, Thread
<1>2. LeaseInv /\ CallInv /\ SessionInv /\ [Next]_vars => SessionInv'
  BY SessionInvStep
<1> QED
  BY <1>1, <1>2, LeaseAlways, CallAlways, PTL DEF Spec

(* One step: a session joins, begins or ends the posture where the contract
   says so; the worker starts and stops under the posture it was meant for;
   all the other steps change nothing of it, or end the claim. *)
ContractInv == LeaseInv /\ CallInv /\ SessionInv /\ Serial /\ Keyed

LEMMA SessionContract ==
  ASSUME ContractInv, CallInv', scene' = scene,
         NEW s \in Session, EnterCount(s) \/ EnterStep(s) \/ LeaveCount(s)
  PROVE  [Contract!Next]_(Contract!vars)
<1> USE DEF Contract!vars, Contract!Next
<1>0. TypeOK
  BY DEF ContractInv, LeaseInv
<1>1. CASE Reuse(s) \/ ReuseCheck(s)
  <2>1. active
    BY <1>1 DEF ContractInv, SessionInv, ReuseOn, ReusePc, Reuse, ReuseCheck
  <2> QED
    BY <1>1, <2>1 DEF Reuse, ReuseCheck, Contract!Join, winVars
<1>2. CASE Commit(s)
  <2>1. ~active /\ ~Beats /\ holders = {}
    BY <1>2 DEF ContractInv, SessionInv, NewAlone, NewPc, Commit
  <2> QED
    BY <1>2, <2>1 DEF Commit, Contract!First, winVars, Beats
<1>3. CASE LeaveCount(s)
  <2>1. phase = "serve" /\ phase' = "serve" /\ s \in holders /\ holders' = holders \ {s}
        /\ sig' = sig /\ worker' = worker
    BY <1>3 DEF LeaveCount, LeaveCounted, MayCall, winVars
  <2>2. active' <=> holders' # {}
    BY <2>1 DEF ContractInv, CallInv, AloneInv, At, CountAt, Serial, Keyed, Faults
  <2>3. active \in BOOLEAN /\ active' \in BOOLEAN
    BY <1>0, <1>3 DEF TypeOK, LeaveCount, LeaveCounted
  <2> QED
    BY <2>1, <2>2, <2>3 DEF Contract!HangUp
<1>4. CASE EnterCount(s) \/ (EnterStep(s) /\ ~(Reuse(s) \/ ReuseCheck(s) \/ Commit(s)))
  <2>1. pc[s] \in {"undo", "undoTimeout"} => active = FALSE
    BY <1>0 DEF ContractInv, SessionInv, NewAlone, NewPc, TypeOK
  <2>2. UNCHANGED <<phase, holders, active, worker>>
    BY <1>4, <2>1 DEF EnterCount, EnterStep, MoshiOn, ReuseFails, CheckKey, ReleaseStale, Declare,
         DeclareRefused, MoshiCheck, MoshiFails, UndoCount, winVars, postureVars
  <2>3. ~Beats => ~Beats'
    <3>1. \A u \in Session : ~Commit(u)
      BY <1>0, <1>4 DEF EnterCount, EnterStep, MayCall, MoshiOn, ReuseFails, CheckKey, ReleaseStale,
         Declare, DeclareRefused, MoshiCheck, MoshiFails, UndoCount, Commit, Goto, TypeOK, Thread
    <3> QED
      BY <1>0, <1>4, <3>1, BeatsBegin DEF Next
  <2> QED
    BY <2>2, <2>3 DEF Contract!ClaimEnds, Beats
<1> QED
  BY <1>1, <1>2, <1>3, <1>4 DEF EnterStep

LEMMA OtherContract ==
  ASSUME ContractInv, [Next]_vars, ~\E s \in Session : EnterCount(s) \/ EnterStep(s) \/ LeaveCount(s)
  PROVE  [Contract!Next]_(Contract!vars)
<1> USE DEF Contract!vars, Contract!Next
<1>0. TypeOK
  BY DEF ContractInv, LeaseInv
<1>1. ~Beats => ~Beats'
  BY <1>0, BeatsBegin DEF EnterStep
<1>2. CASE UNCHANGED vars
  BY <1>2 DEF vars, winVars, postureVars
<1>3. CASE \E t \in Thread : CallStep(t)
  <2>1. PICK t \in Thread : CallStep(t)
    BY <1>3
  <2>2. UNCHANGED <<phase, holders, active>>
    BY <2>1 DEF CallStep, MoshiOff, ReleaseHeld, Reconcile, ReadUrgent, EnsureDeclared,
         DeclareWindow, DeclareWindowRefused, StartWorker, DropWindow, ReleaseWindow, StopWorker, postureVars
  <2>3. CASE StartWorker(t) /\ UNCHANGED postureVars
    <3>1. active \/ phase # "serve"
      BY <2>3, BusyAlone DEF ContractInv, CallInv, StartWorker, At, FlagAt
    <3> QED
      BY <2>2, <2>3, <3>1 DEF StartWorker, Contract!WorkerStarts, postureVars
  <2>4. CASE StopWorker(t) /\ UNCHANGED postureVars
    <3>1. ~active \/ phase # "serve"
      BY <2>4, BusyAlone DEF ContractInv, CallInv, StopWorker, At, FlagAt, EndPc
    <3>2. worker \in BOOLEAN
      BY <1>0 DEF TypeOK, WinTypeOK
    <3> QED
      BY <2>2, <2>4, <3>1, <3>2 DEF StopWorker, Contract!WorkerStops, postureVars
  <2>5. CASE ~((StartWorker(t) \/ StopWorker(t)) /\ UNCHANGED postureVars)
    <3>1. worker' = worker
      BY <2>1, <2>5 DEF CallStep, MoshiOff, ReleaseHeld, Reconcile, ReadUrgent, EnsureDeclared,
           DeclareWindow, DeclareWindowRefused, DropWindow, ReleaseWindow, winVars
    <3> QED
      BY <1>1, <2>2, <3>1 DEF Contract!ClaimEnds, Beats
  <2> QED
    BY <2>1, <2>3, <2>4, <2>5 DEF CallStep, Reconcile
<1>4. CASE Serve
  BY <1>4 DEF Serve, winVars, Contract!Serve
<1>5. CASE EngineStop
  <2>1. phase = "serve" /\ phase' = "stop" /\ sig' = sig /\ worker' = worker
        /\ holders' = holders \ {Main} /\ active' \in {active, FALSE}
    BY <1>5 DEF EngineStop, LeaveCounted, winVars
  <2>2. holders' = holders
    BY <1>0, <2>1, NamesAssumption DEF TypeOK
  <2> QED
    BY <2>1, <2>2 DEF Contract!Stop
<1>6. CASE Restart
  <2>1. phase' = "boot" /\ holders' = {} /\ active' = FALSE /\ worker' = worker
        /\ \A a \in Act : sig'[a] # "live"
    BY <1>6 DEF Restart
  <2> QED
    BY <2>1 DEF Contract!Restart
<1>7. CASE Environment
  <2>1. UNCHANGED <<phase, holders, active, worker>>
    BY <1>7 DEF Environment, Lapse, MoshiBooted, MoshiDies, WindowLapse, winVars, postureVars
  <2> QED
    BY <1>1, <2>1 DEF Contract!ClaimEnds, Beats
<1> QED
  BY <1>2, <1>3, <1>4, <1>5, <1>6, <1>7 DEF Next

(* The protocol of locks, RPCs and supervisor requests implements the safety of
   PostureContract, for calls that do not overlap and a Cerebras key that is
   there, whatever else fails and however often the engine restarts. *)
THEOREM PostureImplementsContract == Spec /\ Serial /\ Keyed => Contract!Spec
<1>1. Init => Contract!Init
  BY DEF Init, WinInit, Contract!Init
<1>2. Serial /\ Keyed /\ [Next]_vars => Serial' /\ Keyed'
  BY SceneKept DEF Serial, Keyed, Faults
<1>3. LeaseInv /\ CallInv /\ CallInv' /\ SessionInv /\ Serial /\ Keyed /\ [Next]_vars
        => [Contract!Next]_(Contract!vars)
  BY SessionContract, OtherContract, SceneKept DEF ContractInv
<1> QED
  BY <1>1, <1>2, <1>3, LeaseAlways, CallAlways, SessionAlways, PTL DEF Spec, Contract!Spec

-----------------------------------------------------------------------------
(* The hub.  Whatever offers, hangups and restarts it goes through, what it
   does to the posture is what InteractivePosture allows, so each theorem
   above holds under the hub too. *)
LEMMA HubStepsPosture == ASSUME [HubNext]_allVars PROVE [Next]_vars
<1>1. CASE UNCHANGED allVars
  BY <1>1 DEF allVars
<1>2. CASE HubNext
  <2>1. ASSUME NEW s \in Session, Offer(s) \/ Hangup(s) \/ HangupAgain(s) \/ HubStep(s)
        PROVE  [Next]_vars
    <3>1. CASE CallEnter(s) \/ CallLeave(s)
      BY <3>1 DEF CallEnter, CallLeave, Next
    <3>2. CASE ~(CallEnter(s) \/ CallLeave(s))
      BY <2>1, <3>2 DEF Offer, Hangup, HangupAgain, HubStep, EnterReturns, Answer, Unbind, Closed,
                        LeaveReturns, DropAgain
    <3> QED
      BY <3>1, <3>2
  <2>2. PostureStep => Next
    BY DEF PostureStep, Next
  <2> QED
    BY <1>2, <2>1, <2>2 DEF HubNext, HubRestart, Next
<1> QED
  BY <1>1, <1>2

(* The hub drives the posture as InteractivePosture specifies. *)
THEOREM HubImplementsPosture == HubSpec => Spec
<1>1. HubInit => Init
  BY DEF HubInit
<1> QED
  BY <1>1, HubStepsPosture, PTL DEF HubSpec, Spec

(* The RTC sessions of the engine give the federation what PostureContract
   promises, while their calls do not overlap and the key is there. *)
THEOREM HubImplementsContract == HubSpec /\ Serial /\ Keyed => Contract!Spec
BY HubImplementsPosture, PostureImplementsContract, PTL

(* A session that is up, or on its way down, holds the posture. *)
Stays == {"answer", "up", "drop", "closing", "leave"}
HoldsInv ==
  /\ stage \in [Session -> Stage]
  /\ \A s \in Session : stage[s] \in Stays => s \in holders

LEMMA HoldersKept == ASSUME TypeOK, PostureStep PROVE holders \subseteq holders'
<1>1. ASSUME NEW u \in Session, EnterStep(u) PROVE holders \subseteq holders'
  BY <1>1 DEF EnterStep, Reuse, MoshiOn, ReuseCheck, ReuseFails, CheckKey, ReleaseStale, Declare,
              DeclareRefused, MoshiCheck, MoshiFails, UndoCount, Commit, postureVars
<1>2. ASSUME NEW t \in Thread, CallStep(t) PROVE holders \subseteq holders'
  BY <1>2 DEF CallStep, MoshiOff, ReleaseHeld, postureVars
<1>3. CASE Serve \/ EngineStop \/ Environment
  BY <1>3, NamesAssumption DEF Serve, EngineStop, LeaveCounted, Environment, Lapse, MoshiBooted,
              MoshiDies, WindowLapse, postureVars, TypeOK
<1> QED
  BY <1>1, <1>2, <1>3 DEF PostureStep

LEMMA HoldsStep == ASSUME TypeOK, HoldsInv, [HubNext]_allVars PROVE HoldsInv'
<1> USE DEF HoldsInv, Stays, Stage, Stage_
<1>1. CASE UNCHANGED allVars
  BY <1>1 DEF allVars, vars, hubVars, postureVars
<1>2. CASE HubRestart
  BY <1>2 DEF HubRestart
<1>3. CASE PostureStep /\ UNCHANGED hubVars
  BY <1>3, HoldersKept DEF hubVars
<1>4. ASSUME NEW s \in Session, Offer(s) \/ Hangup(s) \/ HangupAgain(s) \/ HubStep(s)
      PROVE  HoldsInv'
  <2>1. CASE CallEnter(s)
    BY <2>1 DEF CallEnter, EnterCount
  <2>2. CASE CallLeave(s)
    BY <2>2 DEF CallLeave, LeaveCount, LeaveCounted
  <2>3. CASE ~(CallEnter(s) \/ CallLeave(s))
    <3>1. holders' = holders
      BY <1>4, <2>3 DEF Offer, Hangup, HangupAgain, HubStep, EnterReturns, Answer, Unbind, Closed,
                        LeaveReturns, DropAgain, vars, postureVars
    <3> QED
      BY <1>4, <2>3, <3>1 DEF Offer, Hangup, HangupAgain, HubStep, EnterReturns, Answer, Unbind,
                              Closed, LeaveReturns, DropAgain
  <2> QED
    BY <2>1, <2>2, <2>3
<1> QED
  BY <1>1, <1>2, <1>3, <1>4 DEF HubNext

(* The hub leaves only for a session whose enter succeeded: no denied offer
   and no second hangup takes away somebody else's count, however the calls of
   other sessions overlap and whatever fails. *)
THEOREM HubLeavesItsOwn == HubSpec => []LeaveIsPaired
<1>1. HubInit => HoldsInv
  BY DEF HubInit, HoldsInv, Stays, Stage
<1>2. TypeOK /\ HoldsInv /\ [HubNext]_allVars => HoldsInv'
  BY HoldsStep
<1>3. HoldsInv => LeaveIsPaired
  BY DEF HoldsInv, Stays, LeaveIsPaired
<1> QED
  BY <1>1, <1>2, <1>3, HubImplementsPosture, TypeCorrect, PTL DEF HubSpec
=============================================================================
