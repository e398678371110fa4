---------------------------- MODULE LauncherProofs ----------------------------
(***************************************************************************)
(* Proofs about launches and sweeps, for every number of chromerpc         *)
(* processes and launches, whichever of them run as a pool, keep their     *)
(* directories or are process 1.                                           *)
(***************************************************************************)
EXTENDS LauncherProps, TLAPS

-----------------------------------------------------------------------------
(* Names *)

\* A launch and an encoding are those of an owner, and no encoding is a launch.
LEMMA OwnersOf ==
    /\ \A d \in Dirs : Of(d) \in Owners
    /\ \A l \in Launches : l \in Dirs /\ Of(l) \in Owners
    /\ \A d \in Encodings : d \in Dirs /\ Of(d) \in Owners /\ d \notin Launches
<1>1. \A l \in Launches : Of(l) \in Owners
  BY DEF Launches, Of
<1>2. \A d \in Encodings : Of(d) \in Owners
  BY LauncherAssumption DEF Encodings, Of
<1>3. \A d \in Encodings : d \notin Launches
  BY LauncherAssumption DEF Encodings, Launches
<1>. QED BY <1>1, <1>2, <1>3 DEF Dirs

\* Every process is the main process or the helper of one launch.
LEMMA ProcessNames ==
    /\ \A p \in Processes : p[1] \in Launches /\ (p = Main(p[1]) \/ p = Helper(p[1]))
    /\ \A l \in Launches : Main(l) \in Processes /\ Helper(l) \in Processes
    /\ \A l, k : /\ Main(l) # Helper(k)
                 /\ (Main(l) = Main(k) \/ Helper(l) = Helper(k)) => l = k
    /\ \A l : /\ Main(l)[1] = l /\ Helper(l)[1] = l
              /\ Main(l)[2] = "main" /\ Helper(l)[2] = "helper"
BY DEF Processes, Main, Helper

\* Who has lost its parent, process by process.
LEMMA Parents ==
    \A l : /\ Reparented(Main(l)) <=> ~Alive(Of(l)) \/ Of(l) \in AsInit
           /\ Reparented(Helper(l)) <=> Main(l) \notin procs
BY ProcessNames DEF Reparented

\* The group of a process that ends with it: the main process of nobody else.
LEMMA Groups ==
    \A p \in Processes :
        /\ p \in GroupOf(p) /\ GroupOf(p) \subseteq Processes
        /\ \A l : Main(l) \in GroupOf(p) => p = Main(l)
        /\ \A l : Helper(l) \in GroupOf(p) => p = Main(l) \/ p = Helper(l)
BY ProcessNames DEF GroupOf, Group

-----------------------------------------------------------------------------
(* Types *)

\* The steps of a sweep keep the types.
LEMMA SweepTyped ==
    ASSUME TypeOK, NEW o \in Owners, SweepStep(o)
    PROVE  TypeOK'
<1>1. CASE Snapshot(o)
  <2>1. Orphans \subseteq Processes /\ Owned \subseteq Dirs /\ Abandoned \subseteq Dirs
    BY ProcessNames, OwnersOf DEF TypeOK, Orphans, Owned, Abandoned
<2>2. [procs |-> Orphans, dirs |-> Abandoned] \in [procs : SUBSET Processes, dirs :
    SUBSET Dirs]
    BY <2>1
  <2>. QED BY <1>1, <2>1, <2>2 DEF Snapshot, TypeOK, SweepPc, owner_vars
<1>2. CASE SnapshotFails(o)
  BY <1>2 DEF SnapshotFails, TypeOK, SweepPc, owner_vars
<1>3. CASE KillOrphan(o)
  BY <1>3 DEF KillOrphan, TypeOK, owner_vars
<1>4. CASE ReadTmp(o)
  BY <1>4 DEF ReadTmp, Stale, TypeOK, SweepPc, owner_vars
<1>5. CASE RemoveStale(o)
  BY <1>5 DEF RemoveStale, TypeOK, SweepPc, owner_vars
<1>. QED BY <1>1, <1>2, <1>3, <1>4, <1>5 DEF SweepStep, Takes

\* So do the steps of a launch and those of its Chrome.
LEMMA LaunchTyped ==
    ASSUME TypeOK, NEW l \in Launches, LaunchStep(l) \/ Chrome(l)
    PROVE  TypeOK'
<1> USE OwnersOf, ProcessNames DEF TypeOK, Goto, LaunchPc, owner_vars, sweep_vars
<1>1. CASE Begin(l)
  BY <1>1 DEF Begin
<1>2. CASE MakeDir(l)
  BY <1>2 DEF MakeDir
<1>3. CASE StartChrome(l)
  BY <1>3 DEF StartChrome
<1>4. CASE StartFails(l)
  BY <1>4 DEF StartFails
<1>5. CASE ReadURL(l)
  BY <1>5 DEF ReadURL
<1>6. CASE NoURL(l)
  BY <1>6 DEF NoURL
<1>7. CASE Cleanup(l)
  BY <1>7 DEF Cleanup
<1>8. CASE RemoveDir(l)
  BY <1>8 DEF RemoveDir
<1>9. CASE CtxKills(l)
  BY <1>9 DEF CtxKills
<1>10. CASE Chrome(l)
  BY <1>10 DEF Chrome
<1>. QED BY <1>1, <1>2, <1>3, <1>4, <1>5, <1>6, <1>7, <1>8, <1>9, <1>10 DEF LaunchStep

\* The start, the signal and the end of a process keep the types.
LEMMA OwnerTyped ==
    ASSUME TypeOK, NEW o \in Owners,
           StartOwner(o) \/ Signal(o) \/ Exit(o) \/ Kill(o)
    PROVE  TypeOK'
<1>1. CASE StartOwner(o) \/ Signal(o)
  BY <1>1 DEF StartOwner, Signal, TypeOK, sweep_vars
<1>2. ASSUME NEW how \in {"exited", "killed"}, Ends(o, how)
      PROVE  TypeOK'
  <2>1. Nothing \in [procs : SUBSET Processes, dirs : SUBSET Dirs]
    BY DEF Nothing
  <2>2. pc' \in [Dirs -> LaunchPc]
    BY <1>2 DEF Ends, TypeOK, LaunchPc
  <2>. QED BY <1>2, <2>1, <2>2 DEF Ends, TypeOK, SweepPc
<1>. QED BY <1>1, <1>2 DEF Exit, Kill

\* So do encodings and time.
LEMMA OtherTyped ==
    ASSUME TypeOK, (\E d \in Encodings : Encode(d)) \/ (\E d \in Dirs : Age(d))
    PROVE  TypeOK'
<1>1. CASE \E d \in Encodings : Encode(d)
  BY <1>1, OwnersOf DEF Encode, Goto, TypeOK, LaunchPc, owner_vars, sweep_vars
<1>2. CASE \E d \in Dirs : Age(d)
  BY <1>2 DEF Age, TypeOK, owner_vars, sweep_vars
<1>. QED BY <1>1, <1>2

\* The initial state is well typed.
LEMMA InitTyped == Init => TypeOK
<1>1. Nothing \in [procs : SUBSET Processes, dirs : SUBSET Dirs]
  BY DEF Nothing
<1>. QED BY <1>1 DEF Init, TypeOK, SweepPc, LaunchPc

\* Every step keeps the types.
LEMMA NextTyped == TypeOK /\ [Next]_vars => TypeOK'
<1> SUFFICES ASSUME TypeOK, [Next]_vars PROVE TypeOK'
  OBVIOUS
<1>1. CASE UNCHANGED vars
  BY <1>1 DEF vars, owner_vars, sweep_vars, TypeOK
<1>. QED BY <1>1, SweepTyped, LaunchTyped, OwnerTyped, OtherTyped DEF Next

\* Every reachable state of the launches, the sweeps and the machine is well typed.
THEOREM LauncherTypeCorrect == Spec => []TypeOK
BY InitTyped, NextTyped, PTL DEF Spec

-----------------------------------------------------------------------------
(* The inductive invariant, part by part: one step for each action. *)

\* A process that ends takes its launches and its sweep along.
LEMMA AtRestNext ==
    ASSUME IInv, TypeOK', [Next]_vars
    PROVE  AtRest'
<1> USE OwnersOf DEF IInv, AtRest, Alive, Swept, TypeOK, Goto, owner_vars, sweep_vars
<1>1. ASSUME NEW o \in Owners, Alive(o), Snapshot(o)
      PROVE  AtRest'
  BY <1>1 DEF Snapshot
<1>2. ASSUME NEW o \in Owners, Alive(o), SnapshotFails(o)
      PROVE  AtRest'
  BY <1>2 DEF SnapshotFails
<1>3. ASSUME NEW o \in Owners, Alive(o), KillOrphan(o)
      PROVE  AtRest'
  BY <1>3 DEF KillOrphan
<1>4. ASSUME NEW o \in Owners, Alive(o), ReadTmp(o)
      PROVE  AtRest'
  BY <1>4 DEF ReadTmp
<1>5. ASSUME NEW o \in Owners, Alive(o), RemoveStale(o)
      PROVE  AtRest'
  BY <1>5 DEF RemoveStale
<1>6. ASSUME NEW o \in Owners, StartOwner(o)
      PROVE  AtRest'
  BY <1>6 DEF StartOwner
<1>7. ASSUME NEW o \in Owners, Signal(o)
      PROVE  AtRest'
  BY <1>7 DEF Signal
<1>8. ASSUME NEW o \in Owners, Exit(o)
      PROVE  AtRest'
  BY <1>8 DEF Exit, Ends
<1>9. ASSUME NEW o \in Owners, Kill(o)
      PROVE  AtRest'
  BY <1>9 DEF Kill, Ends
<1>10. ASSUME NEW l \in Launches, Alive(Of(l)), Begin(l)
      PROVE  AtRest'
  BY <1>10 DEF Begin
<1>11. ASSUME NEW l \in Launches, Alive(Of(l)), MakeDir(l)
      PROVE  AtRest'
  BY <1>11 DEF MakeDir
<1>12. ASSUME NEW l \in Launches, Alive(Of(l)), StartChrome(l)
      PROVE  AtRest'
  BY <1>12 DEF StartChrome
<1>13. ASSUME NEW l \in Launches, Alive(Of(l)), StartFails(l)
      PROVE  AtRest'
  BY <1>13 DEF StartFails
<1>14. ASSUME NEW l \in Launches, Alive(Of(l)), ReadURL(l)
      PROVE  AtRest'
  BY <1>14 DEF ReadURL
<1>15. ASSUME NEW l \in Launches, Alive(Of(l)), NoURL(l)
      PROVE  AtRest'
  BY <1>15 DEF NoURL
<1>16. ASSUME NEW l \in Launches, Alive(Of(l)), Cleanup(l)
      PROVE  AtRest'
  BY <1>16 DEF Cleanup
<1>17. ASSUME NEW l \in Launches, Alive(Of(l)), RemoveDir(l)
      PROVE  AtRest'
  BY <1>17 DEF RemoveDir
<1>18. ASSUME NEW l \in Launches, Alive(Of(l)), CtxKills(l)
      PROVE  AtRest'
  BY <1>18 DEF CtxKills
<1>19. ASSUME NEW l \in Launches, Chrome(l)
      PROVE  AtRest'
  BY <1>19 DEF Chrome
<1>20. ASSUME NEW d \in Encodings, Encode(d)
      PROVE  AtRest'
  BY <1>20 DEF Encode
<1>21. ASSUME NEW d \in Dirs, Age(d)
      PROVE  AtRest'
  BY <1>21 DEF Age
<1>22. CASE UNCHANGED vars
  BY <1>22 DEF vars
<1>. QED BY <1>1, <1>2, <1>3, <1>4, <1>5, <1>6, <1>7, <1>8, <1>9, <1>10, <1>11, <1>12,
  <1>13, <1>14, <1>15, <1>16, <1>17, <1>18, <1>19, <1>20, <1>21, <1>22 DEF Next,
  SweepStep, Takes, LaunchStep

\* What has not been made is neither there nor looked for: names are not reused.
LEMMA UntouchedNext ==
    ASSUME IInv, TypeOK', [Next]_vars
    PROVE  Untouched'
<1> USE OwnersOf, ProcessNames, Groups DEF IInv, AtRest, Untouched, Alive, Ahead,
  Stale, Orphans, Abandoned, Removed, Group, Nothing, TypeOK, Goto, owner_vars,
  sweep_vars
<1>1. ASSUME NEW o \in Owners, Alive(o), Snapshot(o)
      PROVE  Untouched'
  BY <1>1 DEF Snapshot
<1>2. ASSUME NEW o \in Owners, Alive(o), SnapshotFails(o)
      PROVE  Untouched'
  BY <1>2 DEF SnapshotFails
<1>3. ASSUME NEW o \in Owners, Alive(o), KillOrphan(o)
      PROVE  Untouched'
  BY <1>3 DEF KillOrphan
<1>4. ASSUME NEW o \in Owners, Alive(o), ReadTmp(o)
      PROVE  Untouched'
  BY <1>4 DEF ReadTmp
<1>5. ASSUME NEW o \in Owners, Alive(o), RemoveStale(o)
      PROVE  Untouched'
  BY <1>5 DEF RemoveStale
<1>6. ASSUME NEW o \in Owners, StartOwner(o)
      PROVE  Untouched'
  BY <1>6 DEF StartOwner
<1>7. ASSUME NEW o \in Owners, Signal(o)
      PROVE  Untouched'
  BY <1>7 DEF Signal
<1>8. ASSUME NEW o \in Owners, Exit(o)
      PROVE  Untouched'
  BY <1>8 DEF Exit, Ends
<1>9. ASSUME NEW o \in Owners, Kill(o)
      PROVE  Untouched'
  BY <1>9 DEF Kill, Ends
<1>10. ASSUME NEW l \in Launches, Alive(Of(l)), Begin(l)
      PROVE  Untouched'
  BY <1>10 DEF Begin
<1>11. ASSUME NEW l \in Launches, Alive(Of(l)), MakeDir(l)
      PROVE  Untouched'
<2>1. CASE pc' = [pc EXCEPT ![l] = "start"] /\ dirs' = dirs \cup {l} /\ young' = young
    \cup {l}
    <3>1. /\ \A d \in Dirs : Ahead(d)' => Ahead(d) /\ d # l
          /\ \A k \in Launches : Ahead(k)' \/ pc'[k] = "start" => Ahead(k) \/ pc[k] = "start"
      BY <1>11, <2>1 DEF MakeDir
    <3>. QED BY <1>11, <2>1, <3>1 DEF MakeDir
  <2>2. CASE pc' = [pc EXCEPT ![l] = "over"] /\ UNCHANGED <<dirs, young>>
    BY <1>11, <2>2 DEF MakeDir
  <2>. QED BY <1>11, <2>1, <2>2 DEF MakeDir
<1>12. ASSUME NEW l \in Launches, Alive(Of(l)), StartChrome(l)
      PROVE  Untouched'
  BY <1>12 DEF StartChrome
<1>13. ASSUME NEW l \in Launches, Alive(Of(l)), StartFails(l)
      PROVE  Untouched'
  BY <1>13 DEF StartFails
<1>14. ASSUME NEW l \in Launches, Alive(Of(l)), ReadURL(l)
      PROVE  Untouched'
  BY <1>14 DEF ReadURL
<1>15. ASSUME NEW l \in Launches, Alive(Of(l)), NoURL(l)
      PROVE  Untouched'
  BY <1>15 DEF NoURL
<1>16. ASSUME NEW l \in Launches, Alive(Of(l)), Cleanup(l)
      PROVE  Untouched'
  BY <1>16 DEF Cleanup
<1>17. ASSUME NEW l \in Launches, Alive(Of(l)), RemoveDir(l)
      PROVE  Untouched'
  BY <1>17 DEF RemoveDir
<1>18. ASSUME NEW l \in Launches, Alive(Of(l)), CtxKills(l)
      PROVE  Untouched'
  BY <1>18 DEF CtxKills
<1>19. ASSUME NEW l \in Launches, Chrome(l)
      PROVE  Untouched'
  BY <1>19 DEF Chrome
<1>20. ASSUME NEW d \in Encodings, Encode(d)
      PROVE  Untouched'
  <2>1. \A k \in Dirs : Ahead(k)' => Ahead(k) /\ k # d
    BY <1>20 DEF Encode
  <2>2. \A k \in Launches : pc'[k] = pc[k]
    BY <1>20 DEF Encode
  <2>. QED BY <1>20, <2>1, <2>2 DEF Encode
<1>21. ASSUME NEW d \in Dirs, Age(d)
      PROVE  Untouched'
  BY <1>21 DEF Age
<1>22. CASE UNCHANGED vars
  BY <1>22 DEF vars
<1>. QED BY <1>1, <1>2, <1>3, <1>4, <1>5, <1>6, <1>7, <1>8, <1>9, <1>10, <1>11, <1>12,
  <1>13, <1>14, <1>15, <1>16, <1>17, <1>18, <1>19, <1>20, <1>21, <1>22 DEF Next,
  SweepStep, Takes, LaunchStep

\* A directory in use is not removed.
LEMMA HasDirectoryNext ==
    ASSUME IInv, TypeOK', [Next]_vars
    PROVE  HasDirectory'
<1> USE OwnersOf, ProcessNames DEF IInv, AtRest, Untouched, HasDirectory, OrphansOnly,
  InUse, Alive, Removed, TypeOK, Goto, owner_vars, sweep_vars
<1>1. ASSUME NEW o \in Owners, Alive(o), Snapshot(o)
      PROVE  HasDirectory'
  BY <1>1 DEF Snapshot
<1>2. ASSUME NEW o \in Owners, Alive(o), SnapshotFails(o)
      PROVE  HasDirectory'
  BY <1>2 DEF SnapshotFails
<1>3. ASSUME NEW o \in Owners, Alive(o), KillOrphan(o)
      PROVE  HasDirectory'
  BY <1>3 DEF KillOrphan
<1>4. ASSUME NEW o \in Owners, Alive(o), ReadTmp(o)
      PROVE  HasDirectory'
  BY <1>4 DEF ReadTmp
<1>5. ASSUME NEW o \in Owners, Alive(o), RemoveStale(o)
      PROVE  HasDirectory'
  BY <1>5 DEF RemoveStale
<1>6. ASSUME NEW o \in Owners, StartOwner(o)
      PROVE  HasDirectory'
  BY <1>6 DEF StartOwner
<1>7. ASSUME NEW o \in Owners, Signal(o)
      PROVE  HasDirectory'
  BY <1>7 DEF Signal
<1>8. ASSUME NEW o \in Owners, Exit(o)
      PROVE  HasDirectory'
  BY <1>8 DEF Exit, Ends
<1>9. ASSUME NEW o \in Owners, Kill(o)
      PROVE  HasDirectory'
  BY <1>9 DEF Kill, Ends
<1>10. ASSUME NEW l \in Launches, Alive(Of(l)), Begin(l)
      PROVE  HasDirectory'
  BY <1>10 DEF Begin
<1>11. ASSUME NEW l \in Launches, Alive(Of(l)), MakeDir(l)
      PROVE  HasDirectory'
  BY <1>11 DEF MakeDir
<1>12. ASSUME NEW l \in Launches, Alive(Of(l)), StartChrome(l)
      PROVE  HasDirectory'
  BY <1>12 DEF StartChrome
<1>13. ASSUME NEW l \in Launches, Alive(Of(l)), StartFails(l)
      PROVE  HasDirectory'
  BY <1>13 DEF StartFails
<1>14. ASSUME NEW l \in Launches, Alive(Of(l)), ReadURL(l)
      PROVE  HasDirectory'
  BY <1>14 DEF ReadURL
<1>15. ASSUME NEW l \in Launches, Alive(Of(l)), NoURL(l)
      PROVE  HasDirectory'
  BY <1>15 DEF NoURL
<1>16. ASSUME NEW l \in Launches, Alive(Of(l)), Cleanup(l)
      PROVE  HasDirectory'
  BY <1>16 DEF Cleanup
<1>17. ASSUME NEW l \in Launches, Alive(Of(l)), RemoveDir(l)
      PROVE  HasDirectory'
  BY <1>17 DEF RemoveDir
<1>18. ASSUME NEW l \in Launches, Alive(Of(l)), CtxKills(l)
      PROVE  HasDirectory'
  BY <1>18 DEF CtxKills
<1>19. ASSUME NEW l \in Launches, Chrome(l)
      PROVE  HasDirectory'
  BY <1>19 DEF Chrome
<1>20. ASSUME NEW d \in Encodings, Encode(d)
      PROVE  HasDirectory'
  BY <1>20 DEF Encode
<1>21. ASSUME NEW d \in Dirs, Age(d)
      PROVE  HasDirectory'
  BY <1>21 DEF Age
<1>22. CASE UNCHANGED vars
  BY <1>22 DEF vars
<1>. QED BY <1>1, <1>2, <1>3, <1>4, <1>5, <1>6, <1>7, <1>8, <1>9, <1>10, <1>11, <1>12,
  <1>13, <1>14, <1>15, <1>16, <1>17, <1>18, <1>19, <1>20, <1>21, <1>22 DEF Next,
  SweepStep, Takes, LaunchStep

\* What a sweep has in hand has no owner, and gets none while the sweep is at it.
LEMMA OrphansOnlyNext ==
    ASSUME IInv, TypeOK', [Next]_vars
    PROVE  OrphansOnly'
<1> USE OwnersOf, ProcessNames DEF IInv, AtRest, Untouched, HasDirectory, OrphansOnly,
  InUse, Alive, Reparented, Orphans, Owned, Stale, Ahead, Group, Removed, TypeOK,
  Goto, owner_vars, sweep_vars
<1>1. ASSUME NEW o \in Owners, Alive(o), Snapshot(o)
      PROVE  OrphansOnly'
  BY <1>1 DEF Snapshot
<1>2. ASSUME NEW o \in Owners, Alive(o), SnapshotFails(o)
      PROVE  OrphansOnly'
  BY <1>2 DEF SnapshotFails
<1>3. ASSUME NEW o \in Owners, Alive(o), KillOrphan(o)
      PROVE  OrphansOnly'
  BY <1>3 DEF KillOrphan
<1>4. ASSUME NEW o \in Owners, Alive(o), ReadTmp(o)
      PROVE  OrphansOnly'
  BY <1>4 DEF ReadTmp
<1>5. ASSUME NEW o \in Owners, Alive(o), RemoveStale(o)
      PROVE  OrphansOnly'
  BY <1>5 DEF RemoveStale
<1>6. ASSUME NEW o \in Owners, StartOwner(o)
      PROVE  OrphansOnly'
<2>1. \A l \in Launches : Of(l) = o => pc[l] = "idle" /\ \A q \in Owners : Main(l)
    \notin found[q]
    BY <1>6 DEF StartOwner
  <2>2. ASSUME NEW q \in Owners, NEW p \in found[q]
        PROVE  Reparented(p)'
    <3>1. p \in Processes /\ Reparented(p)
      OBVIOUS
    <3>2. CASE p = Main(p[1])
      BY <1>6, <2>1, <2>2, <3>1, <3>2 DEF StartOwner
    <3>3. CASE p = Helper(p[1])
      BY <1>6, <3>1, <3>3 DEF StartOwner
    <3>. QED BY <3>1, <3>2, <3>3
  <2>. QED BY <1>6, <2>1, <2>2 DEF StartOwner
<1>7. ASSUME NEW o \in Owners, Signal(o)
      PROVE  OrphansOnly'
  BY <1>7 DEF Signal
<1>8. ASSUME NEW o \in Owners, Exit(o)
      PROVE  OrphansOnly'
  BY <1>8 DEF Exit, Ends
<1>9. ASSUME NEW o \in Owners, Kill(o)
      PROVE  OrphansOnly'
  BY <1>9 DEF Kill, Ends
<1>10. ASSUME NEW l \in Launches, Alive(Of(l)), Begin(l)
      PROVE  OrphansOnly'
  BY <1>10 DEF Begin
<1>11. ASSUME NEW l \in Launches, Alive(Of(l)), MakeDir(l)
      PROVE  OrphansOnly'
  BY <1>11 DEF MakeDir
<1>12. ASSUME NEW l \in Launches, Alive(Of(l)), StartChrome(l)
      PROVE  OrphansOnly'
  BY <1>12 DEF StartChrome
<1>13. ASSUME NEW l \in Launches, Alive(Of(l)), StartFails(l)
      PROVE  OrphansOnly'
  BY <1>13 DEF StartFails
<1>14. ASSUME NEW l \in Launches, Alive(Of(l)), ReadURL(l)
      PROVE  OrphansOnly'
  BY <1>14 DEF ReadURL
<1>15. ASSUME NEW l \in Launches, Alive(Of(l)), NoURL(l)
      PROVE  OrphansOnly'
  BY <1>15 DEF NoURL
<1>16. ASSUME NEW l \in Launches, Alive(Of(l)), Cleanup(l)
      PROVE  OrphansOnly'
  BY <1>16 DEF Cleanup
<1>17. ASSUME NEW l \in Launches, Alive(Of(l)), RemoveDir(l)
      PROVE  OrphansOnly'
  BY <1>17 DEF RemoveDir
<1>18. ASSUME NEW l \in Launches, Alive(Of(l)), CtxKills(l)
      PROVE  OrphansOnly'
  BY <1>18 DEF CtxKills
<1>19. ASSUME NEW l \in Launches, Chrome(l)
      PROVE  OrphansOnly'
  BY <1>19 DEF Chrome
<1>20. ASSUME NEW d \in Encodings, Encode(d)
      PROVE  OrphansOnly'
  BY <1>20 DEF Encode
<1>21. ASSUME NEW d \in Dirs, Age(d)
      PROVE  OrphansOnly'
  BY <1>21 DEF Age
<1>22. CASE UNCHANGED vars
  BY <1>22 DEF vars
<1>. QED BY <1>1, <1>2, <1>3, <1>4, <1>5, <1>6, <1>7, <1>8, <1>9, <1>10, <1>11, <1>12,
  <1>13, <1>14, <1>15, <1>16, <1>17, <1>18, <1>19, <1>20, <1>21, <1>22 DEF Next,
  SweepStep, Takes, LaunchStep

\* A sweep gets on with what was left, and nothing of it comes back.
LEMMA SweepingNext ==
    ASSUME IInv, TypeOK', [Next]_vars
    PROVE  Sweeping'
<1> USE OwnersOf, ProcessNames, Groups DEF IInv, AtRest, Untouched, Sweeping, Alive,
  Reparented, Orphans, Owned, Abandoned, Stale, Ahead, Swept, Group, Nothing, TypeOK,
  Goto, owner_vars, sweep_vars
<1>1. ASSUME NEW o \in Owners, Alive(o), Snapshot(o)
      PROVE  Sweeping'
  BY <1>1 DEF Snapshot
<1>2. ASSUME NEW o \in Owners, Alive(o), SnapshotFails(o)
      PROVE  Sweeping'
  BY <1>2 DEF SnapshotFails
<1>3. ASSUME NEW o \in Owners, Alive(o), KillOrphan(o)
      PROVE  Sweeping'
  BY <1>3 DEF KillOrphan
<1>4. ASSUME NEW o \in Owners, Alive(o), ReadTmp(o)
      PROVE  Sweeping'
  BY <1>4 DEF ReadTmp
<1>5. ASSUME NEW o \in Owners, Alive(o), RemoveStale(o)
      PROVE  Sweeping'
  <2>1. PICK d \in stale[o] :
          /\ dirs' = dirs \ {d} /\ young' = young \ {d}
          /\ stale' = [stale EXCEPT ![o] = @ \ {d}]
          /\ once' = [once EXCEPT ![o] = IF stale[o] = {d} THEN "done" ELSE @]
    BY <1>5 DEF RemoveStale
  <2>2. UNCHANGED <<owner, pc, procs, found, live, left>>
    BY <1>5 DEF RemoveStale
  <2>3. once[o] = "remove"
    BY <1>5, <2>1
  <2>. QED BY <1>5, <2>1, <2>2, <2>3
<1>6. ASSUME NEW o \in Owners, StartOwner(o)
      PROVE  Sweeping'
  <2>1. \A l \in Launches : Of(l) = o =>
          pc[l] = "idle" /\ \A q \in Owners : Main(l) \notin left[q].procs
    BY <1>6 DEF StartOwner
  <2>2. ASSUME NEW q \in Owners, NEW p \in left[q].procs
        PROVE  Reparented(p)'
    <3>1. p \in Processes /\ Reparented(p)
      OBVIOUS
    <3>2. CASE p = Main(p[1])
      BY <1>6, <2>1, <2>2, <3>1, <3>2 DEF StartOwner
    <3>3. CASE p = Helper(p[1])
      BY <1>6, <3>1, <3>3 DEF StartOwner
    <3>. QED BY <3>1, <3>2, <3>3
  <2>. QED BY <1>6, <2>1, <2>2 DEF StartOwner
<1>7. ASSUME NEW o \in Owners, Signal(o)
      PROVE  Sweeping'
  BY <1>7 DEF Signal
<1>8. ASSUME NEW o \in Owners, Exit(o)
      PROVE  Sweeping'
  BY <1>8 DEF Exit, Ends
<1>9. ASSUME NEW o \in Owners, Kill(o)
      PROVE  Sweeping'
  BY <1>9 DEF Kill, Ends
<1>10. ASSUME NEW l \in Launches, Alive(Of(l)), Begin(l)
      PROVE  Sweeping'
  BY <1>10 DEF Begin
<1>11. ASSUME NEW l \in Launches, Alive(Of(l)), MakeDir(l)
      PROVE  Sweeping'
  <2>1. \A q \in Owners : l \notin left[q].dirs
    BY <1>11 DEF MakeDir
<2>2. CASE pc' = [pc EXCEPT ![l] = "start"] /\ dirs' = dirs \cup {l} /\ young' = young
    \cup {l}
    BY <1>11, <2>1, <2>2 DEF MakeDir
  <2>3. CASE pc' = [pc EXCEPT ![l] = "over"] /\ UNCHANGED <<dirs, young>>
    BY <1>11, <2>3 DEF MakeDir
  <2>. QED BY <1>11, <2>2, <2>3 DEF MakeDir
<1>12. ASSUME NEW l \in Launches, Alive(Of(l)), StartChrome(l)
      PROVE  Sweeping'
  <2>1. \A q \in Owners : Main(l) \notin left[q].procs /\ Helper(l) \notin left[q].procs
    BY <1>12 DEF StartChrome
  <2>2. ASSUME NEW q \in Owners, NEW p \in left[q].procs
        PROVE  Reparented(p)'
    <3>1. p \in Processes /\ Reparented(p) /\ p # Main(l) /\ p # Helper(l)
      BY <2>1
    <3>2. p[1] # l
      BY <3>1, ProcessNames
    <3>. QED BY <1>12, <3>1, <3>2 DEF StartChrome
  <2>. QED BY <1>12, <2>1, <2>2 DEF StartChrome
<1>13. ASSUME NEW l \in Launches, Alive(Of(l)), StartFails(l)
      PROVE  Sweeping'
  BY <1>13 DEF StartFails
<1>14. ASSUME NEW l \in Launches, Alive(Of(l)), ReadURL(l)
      PROVE  Sweeping'
  BY <1>14 DEF ReadURL
<1>15. ASSUME NEW l \in Launches, Alive(Of(l)), NoURL(l)
      PROVE  Sweeping'
  BY <1>15 DEF NoURL
<1>16. ASSUME NEW l \in Launches, Alive(Of(l)), Cleanup(l)
      PROVE  Sweeping'
  BY <1>16 DEF Cleanup
<1>17. ASSUME NEW l \in Launches, Alive(Of(l)), RemoveDir(l)
      PROVE  Sweeping'
  BY <1>17 DEF RemoveDir
<1>18. ASSUME NEW l \in Launches, Alive(Of(l)), CtxKills(l)
      PROVE  Sweeping'
  BY <1>18 DEF CtxKills
<1>19. ASSUME NEW l \in Launches, Chrome(l)
      PROVE  Sweeping'
  BY <1>19 DEF Chrome
<1>20. ASSUME NEW d \in Encodings, Encode(d)
      PROVE  Sweeping'
  <2>1. \A k \in Launches : pc'[k] = pc[k]
    BY <1>20 DEF Encode
  <2>2. CASE pc[d] = "idle" /\ dirs' = dirs \cup {d} /\ young' = young \cup {d}
    <3>1. \A q \in Owners : d \notin left[q].dirs
      BY <1>20, <2>2 DEF Encode
    <3>. QED BY <1>20, <2>1, <2>2, <3>1 DEF Encode
  <2>3. CASE dirs' = dirs \ {d} /\ young' = young \ {d}
    BY <1>20, <2>1, <2>3 DEF Encode
  <2>. QED BY <1>20, <2>2, <2>3 DEF Encode
<1>21. ASSUME NEW d \in Dirs, Age(d)
      PROVE  Sweeping'
  BY <1>21 DEF Age
<1>22. CASE UNCHANGED vars
  BY <1>22 DEF vars
<1>. QED BY <1>1, <1>2, <1>3, <1>4, <1>5, <1>6, <1>7, <1>8, <1>9, <1>10, <1>11, <1>12,
  <1>13, <1>14, <1>15, <1>16, <1>17, <1>18, <1>19, <1>20, <1>21, <1>22 DEF Next,
  SweepStep, Takes, LaunchStep

\* Both ways to the removal of a directory kill the processes first.
LEMMA KilledFirstNext ==
    ASSUME IInv, TypeOK', [Next]_vars
    PROVE  KilledFirst'
<1> USE OwnersOf, ProcessNames, Groups DEF IInv, AtRest, Killed, KilledFirst,
  Untouched, Ahead, GroupOf, Group, TypeOK, Goto, owner_vars, sweep_vars
<1>1. ASSUME NEW o \in Owners, Alive(o), Snapshot(o)
      PROVE  KilledFirst'
  BY <1>1 DEF Snapshot
<1>2. ASSUME NEW o \in Owners, Alive(o), SnapshotFails(o)
      PROVE  KilledFirst'
  BY <1>2 DEF SnapshotFails
<1>3. ASSUME NEW o \in Owners, Alive(o), KillOrphan(o)
      PROVE  KilledFirst'
  BY <1>3 DEF KillOrphan
<1>4. ASSUME NEW o \in Owners, Alive(o), ReadTmp(o)
      PROVE  KilledFirst'
  BY <1>4 DEF ReadTmp
<1>5. ASSUME NEW o \in Owners, Alive(o), RemoveStale(o)
      PROVE  KilledFirst'
  BY <1>5 DEF RemoveStale
<1>6. ASSUME NEW o \in Owners, StartOwner(o)
      PROVE  KilledFirst'
  BY <1>6 DEF StartOwner
<1>7. ASSUME NEW o \in Owners, Signal(o)
      PROVE  KilledFirst'
  BY <1>7 DEF Signal
<1>8. ASSUME NEW o \in Owners, Exit(o)
      PROVE  KilledFirst'
  BY <1>8 DEF Exit, Ends
<1>9. ASSUME NEW o \in Owners, Kill(o)
      PROVE  KilledFirst'
  BY <1>9 DEF Kill, Ends
<1>10. ASSUME NEW l \in Launches, Alive(Of(l)), Begin(l)
      PROVE  KilledFirst'
  BY <1>10 DEF Begin
<1>11. ASSUME NEW l \in Launches, Alive(Of(l)), MakeDir(l)
      PROVE  KilledFirst'
  BY <1>11 DEF MakeDir
<1>12. ASSUME NEW l \in Launches, Alive(Of(l)), StartChrome(l)
      PROVE  KilledFirst'
  BY <1>12 DEF StartChrome
<1>13. ASSUME NEW l \in Launches, Alive(Of(l)), StartFails(l)
      PROVE  KilledFirst'
  BY <1>13 DEF StartFails
<1>14. ASSUME NEW l \in Launches, Alive(Of(l)), ReadURL(l)
      PROVE  KilledFirst'
  BY <1>14 DEF ReadURL
<1>15. ASSUME NEW l \in Launches, Alive(Of(l)), NoURL(l)
      PROVE  KilledFirst'
  BY <1>15 DEF NoURL
<1>16. ASSUME NEW l \in Launches, Alive(Of(l)), Cleanup(l)
      PROVE  KilledFirst'
  BY <1>16 DEF Cleanup
<1>17. ASSUME NEW l \in Launches, Alive(Of(l)), RemoveDir(l)
      PROVE  KilledFirst'
  BY <1>17 DEF RemoveDir
<1>18. ASSUME NEW l \in Launches, Alive(Of(l)), CtxKills(l)
      PROVE  KilledFirst'
  BY <1>18 DEF CtxKills
<1>19. ASSUME NEW l \in Launches, Chrome(l)
      PROVE  KilledFirst'
  BY <1>19 DEF Chrome
<1>20. ASSUME NEW d \in Encodings, Encode(d)
      PROVE  KilledFirst'
  BY <1>20 DEF Encode
<1>21. ASSUME NEW d \in Dirs, Age(d)
      PROVE  KilledFirst'
  BY <1>21 DEF Age
<1>22. CASE UNCHANGED vars
  BY <1>22 DEF vars
<1>. QED BY <1>1, <1>2, <1>3, <1>4, <1>5, <1>6, <1>7, <1>8, <1>9, <1>10, <1>11, <1>12,
  <1>13, <1>14, <1>15, <1>16, <1>17, <1>18, <1>19, <1>20, <1>21, <1>22 DEF Next,
  SweepStep, Takes, LaunchStep

\* What a launch or a process that ended has taken away stays away.
LEMMA NothingLeftNext ==
    ASSUME IInv, NothingLeft, TypeOK', [Next]_vars
    PROVE  NothingLeft'
<1> USE OwnersOf, ProcessNames, Groups DEF IInv, AtRest, Untouched, Killed,
  KilledFirst, NothingLeft, Ahead, Alive, Removed, GroupOf, Group, MayExit, TypeOK,
  Goto, owner_vars, sweep_vars
<1>1. ASSUME NEW o \in Owners, Alive(o), Snapshot(o)
      PROVE  NothingLeft'
  BY <1>1 DEF Snapshot
<1>2. ASSUME NEW o \in Owners, Alive(o), SnapshotFails(o)
      PROVE  NothingLeft'
  BY <1>2 DEF SnapshotFails
<1>3. ASSUME NEW o \in Owners, Alive(o), KillOrphan(o)
      PROVE  NothingLeft'
  BY <1>3 DEF KillOrphan
<1>4. ASSUME NEW o \in Owners, Alive(o), ReadTmp(o)
      PROVE  NothingLeft'
  BY <1>4 DEF ReadTmp
<1>5. ASSUME NEW o \in Owners, Alive(o), RemoveStale(o)
      PROVE  NothingLeft'
  BY <1>5 DEF RemoveStale
<1>6. ASSUME NEW o \in Owners, StartOwner(o)
      PROVE  NothingLeft'
  BY <1>6 DEF StartOwner
<1>7. ASSUME NEW o \in Owners, Signal(o)
      PROVE  NothingLeft'
  BY <1>7 DEF Signal
<1>8. ASSUME NEW o \in Owners, Exit(o)
      PROVE  NothingLeft'
  BY <1>8 DEF Exit, Ends
<1>9. ASSUME NEW o \in Owners, Kill(o)
      PROVE  NothingLeft'
  BY <1>9 DEF Kill, Ends
<1>10. ASSUME NEW l \in Launches, Alive(Of(l)), Begin(l)
      PROVE  NothingLeft'
  BY <1>10 DEF Begin
<1>11. ASSUME NEW l \in Launches, Alive(Of(l)), MakeDir(l)
      PROVE  NothingLeft'
  BY <1>11 DEF MakeDir
<1>12. ASSUME NEW l \in Launches, Alive(Of(l)), StartChrome(l)
      PROVE  NothingLeft'
  BY <1>12 DEF StartChrome
<1>13. ASSUME NEW l \in Launches, Alive(Of(l)), StartFails(l)
      PROVE  NothingLeft'
  BY <1>13 DEF StartFails
<1>14. ASSUME NEW l \in Launches, Alive(Of(l)), ReadURL(l)
      PROVE  NothingLeft'
  BY <1>14 DEF ReadURL
<1>15. ASSUME NEW l \in Launches, Alive(Of(l)), NoURL(l)
      PROVE  NothingLeft'
  BY <1>15 DEF NoURL
<1>16. ASSUME NEW l \in Launches, Alive(Of(l)), Cleanup(l)
      PROVE  NothingLeft'
  BY <1>16 DEF Cleanup
<1>17. ASSUME NEW l \in Launches, Alive(Of(l)), RemoveDir(l)
      PROVE  NothingLeft'
  BY <1>17 DEF RemoveDir
<1>18. ASSUME NEW l \in Launches, Alive(Of(l)), CtxKills(l)
      PROVE  NothingLeft'
  BY <1>18 DEF CtxKills
<1>19. ASSUME NEW l \in Launches, Chrome(l)
      PROVE  NothingLeft'
  BY <1>19 DEF Chrome
<1>20. ASSUME NEW d \in Encodings, Encode(d)
      PROVE  NothingLeft'
  BY <1>20 DEF Encode
<1>21. ASSUME NEW d \in Dirs, Age(d)
      PROVE  NothingLeft'
  BY <1>21 DEF Age
<1>22. CASE UNCHANGED vars
  BY <1>22 DEF vars
<1>. QED BY <1>1, <1>2, <1>3, <1>4, <1>5, <1>6, <1>7, <1>8, <1>9, <1>10, <1>11, <1>12,
  <1>13, <1>14, <1>15, <1>16, <1>17, <1>18, <1>19, <1>20, <1>21, <1>22 DEF Next,
  SweepStep, Takes, LaunchStep

-----------------------------------------------------------------------------
(* Theorems *)

\* The invariant holds at first.
LEMMA InitIInv == Init => IInv
<1> SUFFICES ASSUME Init PROVE IInv
  OBVIOUS
<1>1. TypeOK
  BY InitTyped
<1>2. HasDirectory /\ OrphansOnly
  BY OwnersOf DEF Init, HasDirectory, OrphansOnly, InUse, Alive
<1>3. AtRest /\ Untouched /\ Sweeping /\ KilledFirst
  BY OwnersOf DEF Init, AtRest, Untouched, Sweeping, KilledFirst, Alive, Ahead, Nothing
<1>. QED BY <1>1, <1>2, <1>3 DEF IInv

\* Every step keeps it.
LEMMA NextIInv == IInv /\ [Next]_vars => IInv'
<1> SUFFICES ASSUME IInv, [Next]_vars PROVE IInv'
  OBVIOUS
<1>1. TypeOK'
  BY NextTyped DEF IInv
<1>. QED
  BY <1>1, AtRestNext, UntouchedNext, HasDirectoryNext, OrphansOnlyNext, SweepingNext,
     KilledFirstNext DEF IInv

\* Whatever is killed, fails or restarts between two steps of a launch or a sweep:
\* what a sweep is about to take is nobody's, a Chrome in use has its directory, and
\* what was taken away does not come back.
THEOREM LauncherInvariant == Spec => []IInv
BY InitIInv, NextIInv, PTL DEF Spec

\* A sweep takes nothing that another chromerpc process, which lives, uses.
THEOREM SweepsSpareOthers == Spec => SweepSpares
<1>1. ASSUME IInv, NEW o \in Owners, Takes(o), NEW l \in Launches, InUse(l)
      PROVE  /\ InUse(l)' /\ l \in dirs'
             /\ Helper(l) \in procs => Helper(l) \in procs'
  <2>1. l \in dirs /\ l \notin stale[o] /\ ~Reparented(Main(l))
    BY <1>1, Parents DEF IInv, HasDirectory, OrphansOnly, InUse
  <2>2. CASE KillOrphan(o)
    <3>1. PICK p \in found[o] : procs' = procs \ GroupOf(p)
      BY <2>2 DEF KillOrphan
    <3>2. p \in Processes /\ Reparented(p)
      BY <1>1, <3>1 DEF IInv, TypeOK, OrphansOnly
    <3>3. p # Main(l)
      BY <2>1, <3>2
    <3>4. ASSUME Helper(l) \in procs PROVE p # Helper(l)
      <4>1. Main(l) \in procs
        BY <1>1, <3>4 DEF InUse, IInv, Untouched, Group
      <4>. QED BY <4>1, <3>2, Parents
    <3>5. Main(l) \in procs => Main(l) \in procs'
      BY <3>1, <3>2, <3>3, Groups
    <3>6. Helper(l) \in procs => Helper(l) \in procs'
      BY <3>1, <3>2, <3>3, <3>4, Groups
    <3>. QED BY <1>1, <2>1, <2>2, <3>5, <3>6 DEF KillOrphan, InUse, Alive, owner_vars
  <2>3. CASE RemoveStale(o)
    BY <1>1, <2>1, <2>3 DEF RemoveStale, InUse, Alive, owner_vars
  <2>. QED BY <1>1, <2>2, <2>3 DEF Takes
<1>2. IInv => (\A o \in Owners : Takes(o) => \A l \in Launches : InUse(l) =>
                 /\ InUse(l)' /\ l \in dirs'
                 /\ Helper(l) \in procs => Helper(l) \in procs')
  BY <1>1
<1>. QED BY <1>2, LauncherInvariant, PTL DEF SweepSpares

\* No Chrome is added before what earlier processes had left is gone.
THEOREM LaunchesFollowTheSweep == Spec => []SweepsFirst
<1>1. IInv => SweepsFirst
  BY OwnersOf DEF IInv, Sweeping, SweepsFirst
<1>. QED BY <1>1, LauncherInvariant, PTL

\* Nothing is there at first.
LEMMA InitNothingLeft == Init => NothingLeft
BY OwnersOf DEF Init, NothingLeft

\* A launch that is over, and a process that ended in order, leaves nothing running.
THEOREM LaunchesLeaveNothing == Spec => []NothingLeft
<1>1. IInv /\ NothingLeft /\ [Next]_vars => NothingLeft'
  BY NextTyped, NothingLeftNext DEF IInv
<1>. QED BY <1>1, InitNothingLeft, LauncherInvariant, PTL DEF Spec
=============================================================================
