--------------------------- MODULE InteractiveProofs ---------------------------
(***************************************************************************)
(* Proofs about the interactive service, for every number of streams and   *)
(* managers, whether it is started with one Chrome or with a pool.         *)
(***************************************************************************)
EXTENDS InteractiveProps, FiniteSetTheorems, TLAPS

-----------------------------------------------------------------------------
(* Counting *)

\* The streams that are pending or active.
Active == {c \in Clients : pc[c] \notin {"idle", "done"}}

\* They are finitely many, and no more than there are streams.
LEMMA ActiveFinite ==
    /\ IsFiniteSet(Active) /\ Cardinality(Active) \in Nat
    /\ Cardinality(Clients) \in Nat \ {0} /\ Cardinality(Active) <= Cardinality(Clients)
<1>1. IsFiniteSet(Clients) /\ Clients # {} /\ Active \subseteq Clients
  BY InteractiveAssumption DEF Active
<1>. QED BY <1>1, FS_Subset, FS_CardinalityType, FS_EmptySet

\* One more stream is admitted.
LEMMA ActiveGrows ==
    ASSUME NEW c \in Clients, c \notin Active, Active' = Active \cup {c}
    PROVE  /\ Cardinality(Active') = Cardinality(Active) + 1
           /\ Cardinality(Active') <= Cardinality(Clients)
<1>1. Active' \subseteq Clients
  BY DEF Active
<1>. QED BY <1>1, ActiveFinite, FS_AddElement, FS_Subset, InteractiveAssumption

\* One stream is over.
LEMMA ActiveShrinks ==
    ASSUME NEW c \in Active, Active' = Active \ {c}
    PROVE  /\ Cardinality(Active') = Cardinality(Active) - 1
           /\ Cardinality(Active') \in Nat
<1>1. IsFiniteSet(Active') /\ Cardinality(Active') = Cardinality(Active) - 1
  BY ActiveFinite, FS_RemoveElement
<1>. QED BY <1>1, FS_CardinalityType

\* A server that is no pool has one manager.
LEMMA Deployed ==
    ASSUME mgrs \in Deployments
    PROVE  /\ mgrs \subseteq Managers /\ Cardinality(mgrs) \in Nat \ {0}
           /\ ~Pooled => \E m \in Managers : mgrs = {m}
<1>1. mgrs \subseteq Managers /\ mgrs # {} /\ IsFiniteSet(mgrs)
  <2>1. mgrs \in SUBSET Managers /\ mgrs # {} /\ IsFiniteSet(Managers)
    BY InteractiveAssumption
  <2>. QED BY <2>1, FS_Subset
<1>2. PICK m \in mgrs : TRUE
  BY <1>1
<1>3. Cardinality(mgrs \ {m}) = Cardinality(mgrs) - 1 /\ IsFiniteSet(mgrs \ {m})
  BY <1>1, FS_RemoveElement
<1>4. Cardinality(mgrs) \in Nat /\ Cardinality(mgrs \ {m}) \in Nat
  BY <1>1, <1>3, FS_CardinalityType
<1>5. ASSUME ~Pooled PROVE mgrs = {m}
  <2>1. Cardinality(mgrs \ {m}) = 0
    BY <1>3, <1>4, <1>5 DEF Pooled
  <2>2. mgrs \ {m} = {}
    BY <1>3, <2>1, FS_EmptySet
  <2>. QED BY <2>2
<1>. QED BY <1>1, <1>3, <1>4, <1>5

-----------------------------------------------------------------------------
(* The channel of ready managers *)

\* What p.ready <- m leaves in the channel.
LEMMA Appended ==
    ASSUME NEW m \in Managers, ready \in Seq(Managers)
    PROVE  /\ DOMAIN Append(ready, m) = DOMAIN ready \cup {Len(ready) + 1}
           /\ Append(ready, m)[Len(ready) + 1] = m /\ Len(ready) + 1 \notin DOMAIN ready
           /\ \A i \in DOMAIN ready : Append(ready, m)[i] = ready[i]
OBVIOUS

\* What <-p.ready takes from it, and leaves.
LEMMA Taken ==
    ASSUME ready \in Seq(Managers), ready # <<>>
    PROVE  /\ 1 \in DOMAIN ready /\ Head(ready) = ready[1]
           /\ \A i \in DOMAIN Tail(ready) :
                i + 1 \in DOMAIN ready /\ Tail(ready)[i] = ready[i + 1] /\ i + 1 # 1
           /\ \A i \in DOMAIN ready : i # 1 => i - 1 \in DOMAIN Tail(ready) /\ Tail(ready)[i - 1] = ready[i]
OBVIOUS

-----------------------------------------------------------------------------
(* The inductive invariant, part by part: one step for each action. *)


\* A stream keeps its manager to itself until it is over.
LEMMA LeasingNext ==
    ASSUME Inv, [Next]_vars
    PROVE  Leasing'
<1> USE InteractiveAssumption DEF Inv, TypeOK, Leasing, HoldsAlone, Leased, Queued,
     Wiped, Placed, Pooled, Holders, SemFree, Kills, InReady, Goto, pool_vars, mgr_vars,
     client_vars
<1>1. ASSUME NEW m \in Managers, Teardown(m)
      PROVE  Leasing'
  BY <1>1 DEF Teardown
<1>2. ASSUME NEW m \in Managers, LaunchSucceeds(m)
      PROVE  Leasing'
  BY <1>2 DEF LaunchSucceeds, HolderResumes
<1>3. ASSUME NEW m \in Managers, LaunchFails(m)
      PROVE  Leasing'
  BY <1>3 DEF LaunchFails, HolderResumes
<1>4. ASSUME NEW m \in Managers, Retry(m) \/ WarmFails(m) \/ WarmHangs(m)
      PROVE  Leasing'
  BY <1>4 DEF Retry, WarmFails, WarmHangs, AfterWarmFailure
<1>5. ASSUME NEW m \in Managers, ReturnReady(m)
      PROVE  Leasing'
  BY <1>5 DEF ReturnReady
<1>6. ASSUME NEW m \in Managers, Crash(m)
      PROVE  Leasing'
  BY <1>6 DEF Crash
<1>7. ASSUME NEW c \in Clients, Admit(c)
      PROVE  Leasing'
  BY <1>7 DEF Admit
<1>8. ASSUME NEW c \in Clients, Reject(c)
      PROVE  Leasing'
  BY <1>8 DEF Reject
<1>9. ASSUME NEW c \in Clients, TakeReady(c)
      PROVE  Leasing'
  BY <1>9 DEF TakeReady
<1>10. ASSUME NEW c \in Clients, TakeSem(c)
      PROVE  Leasing'
  BY <1>10 DEF TakeSem
<1>11. ASSUME NEW c \in Clients, GiveUp(c)
      PROVE  Leasing'
  BY <1>11 DEF GiveUp
<1>12. ASSUME NEW c \in Clients, Announce(c)
      PROVE  Leasing'
  BY <1>12 DEF Announce
<1>13. ASSUME NEW c \in Clients, StartStep(c)
      PROVE  Leasing'
  BY <1>13 DEF StartStep
<1>14. ASSUME NEW c \in Clients, EndStep(c)
      PROVE  Leasing'
  BY <1>14 DEF EndStep
<1>15. ASSUME NEW c \in Clients, Reset(c)
      PROVE  Leasing'
  BY <1>15 DEF Reset
<1>16. ASSUME NEW c \in Clients, ReleaseToPool(c)
      PROVE  Leasing'
  BY <1>16 DEF ReleaseToPool, Ends
<1>17. ASSUME NEW c \in Clients, ReleaseSingle(c)
      PROVE  Leasing'
  BY <1>17 DEF ReleaseSingle, Ends
<1>18. ASSUME NEW c \in Clients, PeerLeaves(c)
      PROVE  Leasing'
  BY <1>18 DEF PeerLeaves
<1>19. CASE Signal
  BY <1>19 DEF Signal
<1>20. CASE Drain
  BY <1>20 DEF Drain
<1>21. CASE Stop
  BY <1>21 DEF Stop
<1>22. CASE UNCHANGED vars
  BY <1>22 DEF vars
<1>. QED BY <1>1, <1>2, <1>3, <1>4, <1>5, <1>6, <1>7, <1>8, <1>9, <1>10, <1>11, <1>12,
     <1>13, <1>14, <1>15, <1>16, <1>17, <1>18, <1>19, <1>20, <1>21, <1>22 DEF Next,
     ManagerStep, HandlerStep, Release

\* What is returned was with nobody else, and what is taken was with nobody.
LEMMA QueuedNext ==
    ASSUME Inv, [Next]_vars
    PROVE  Queued'
<1> USE InteractiveAssumption DEF Inv, TypeOK, Leasing, HoldsAlone, Leased, Queued,
     Wiped, Placed, Pooled, Holders, SemFree, Kills, AfterFailure, Goto, pool_vars,
     mgr_vars, client_vars
<1>1. ASSUME NEW m \in Managers, Teardown(m)
      PROVE  Queued'
  BY <1>1 DEF Teardown
<1>2. ASSUME NEW m \in Managers, LaunchSucceeds(m)
      PROVE  Queued'
  BY <1>2 DEF LaunchSucceeds, HolderResumes
<1>3. ASSUME NEW m \in Managers, LaunchFails(m)
      PROVE  Queued'
  BY <1>3 DEF LaunchFails, HolderResumes
<1>4. ASSUME NEW m \in Managers, Retry(m) \/ WarmFails(m) \/ WarmHangs(m)
      PROVE  Queued'
  BY <1>4 DEF Retry, WarmFails, WarmHangs, AfterWarmFailure
<1>5. ASSUME NEW m \in Managers, ReturnReady(m)
      PROVE  Queued'
  <2>1. Holders(m) = {}
    <3>1. ASSUME NEW c \in Clients, held[c] = m PROVE FALSE
      BY <1>5, <3>1 DEF ReturnReady
    <3>. QED BY <3>1
  <2>2. m \in mgrs /\ dirty[m] = {} /\ Pooled
    BY <1>5, <2>1 DEF ReturnReady
  <2>3. \A i \in DOMAIN ready : ready[i] # m
    BY <1>5 DEF ReturnReady
  <2>. QED BY <1>5, <2>1, <2>2, <2>3, Appended DEF ReturnReady
<1>6. ASSUME NEW m \in Managers, Crash(m)
      PROVE  Queued'
  BY <1>6 DEF Crash
<1>7. ASSUME NEW c \in Clients, Admit(c)
      PROVE  Queued'
  BY <1>7 DEF Admit
<1>8. ASSUME NEW c \in Clients, Reject(c)
      PROVE  Queued'
  BY <1>8 DEF Reject
<1>9. ASSUME NEW c \in Clients, TakeReady(c)
      PROVE  Queued'
  BY <1>9 DEF TakeReady
<1>10. ASSUME NEW c \in Clients, TakeSem(c)
      PROVE  Queued'
  BY <1>10 DEF TakeSem
<1>11. ASSUME NEW c \in Clients, GiveUp(c)
      PROVE  Queued'
  BY <1>11 DEF GiveUp
<1>12. ASSUME NEW c \in Clients, Announce(c)
      PROVE  Queued'
  BY <1>12 DEF Announce
<1>13. ASSUME NEW c \in Clients, StartStep(c)
      PROVE  Queued'
  BY <1>13 DEF StartStep
<1>14. ASSUME NEW c \in Clients, EndStep(c)
      PROVE  Queued'
  BY <1>14 DEF EndStep
<1>15. ASSUME NEW c \in Clients, Reset(c)
      PROVE  Queued'
  BY <1>15 DEF Reset
<1>16. ASSUME NEW c \in Clients, ReleaseToPool(c)
      PROVE  Queued'
  BY <1>16 DEF ReleaseToPool, Ends
<1>17. ASSUME NEW c \in Clients, ReleaseSingle(c)
      PROVE  Queued'
  BY <1>17 DEF ReleaseSingle, Ends
<1>18. ASSUME NEW c \in Clients, PeerLeaves(c)
      PROVE  Queued'
  BY <1>18 DEF PeerLeaves
<1>19. CASE Signal
  BY <1>19 DEF Signal
<1>20. CASE Drain
  BY <1>20 DEF Drain
<1>21. CASE Stop
  BY <1>21 DEF Stop
<1>22. CASE UNCHANGED vars
  BY <1>22 DEF vars
<1>. QED BY <1>1, <1>2, <1>3, <1>4, <1>5, <1>6, <1>7, <1>8, <1>9, <1>10, <1>11, <1>12,
     <1>13, <1>14, <1>15, <1>16, <1>17, <1>18, <1>19, <1>20, <1>21, <1>22 DEF Next,
     ManagerStep, HandlerStep, Release

\* A launch follows a teardown, and a return a launch.
LEMMA WipedNext ==
    ASSUME Inv, [Next]_vars
    PROVE  Wiped'
<1> USE InteractiveAssumption DEF Inv, TypeOK, Leasing, HoldsAlone, Leased, Queued,
     Wiped, Placed, Holders, Kills, AfterFailure, Goto, pool_vars, mgr_vars, client_vars
<1>1. ASSUME NEW m \in Managers, Teardown(m)
      PROVE  Wiped'
  BY <1>1 DEF Teardown
<1>2. ASSUME NEW m \in Managers, LaunchSucceeds(m)
      PROVE  Wiped'
  BY <1>2 DEF LaunchSucceeds, HolderResumes
<1>3. ASSUME NEW m \in Managers, LaunchFails(m)
      PROVE  Wiped'
  BY <1>3 DEF LaunchFails, HolderResumes
<1>4. ASSUME NEW m \in Managers, Retry(m) \/ WarmFails(m) \/ WarmHangs(m)
      PROVE  Wiped'
  BY <1>4 DEF Retry, WarmFails, WarmHangs, AfterWarmFailure
<1>5. ASSUME NEW m \in Managers, ReturnReady(m)
      PROVE  Wiped'
  BY <1>5 DEF ReturnReady
<1>6. ASSUME NEW m \in Managers, Crash(m)
      PROVE  Wiped'
  BY <1>6 DEF Crash
<1>7. ASSUME NEW c \in Clients, Admit(c)
      PROVE  Wiped'
  BY <1>7 DEF Admit
<1>8. ASSUME NEW c \in Clients, Reject(c)
      PROVE  Wiped'
  BY <1>8 DEF Reject
<1>9. ASSUME NEW c \in Clients, TakeReady(c)
      PROVE  Wiped'
  BY <1>9 DEF TakeReady
<1>10. ASSUME NEW c \in Clients, TakeSem(c)
      PROVE  Wiped'
  BY <1>10 DEF TakeSem
<1>11. ASSUME NEW c \in Clients, GiveUp(c)
      PROVE  Wiped'
  BY <1>11 DEF GiveUp
<1>12. ASSUME NEW c \in Clients, Announce(c)
      PROVE  Wiped'
  BY <1>12 DEF Announce
<1>13. ASSUME NEW c \in Clients, StartStep(c)
      PROVE  Wiped'
  BY <1>13 DEF StartStep
<1>14. ASSUME NEW c \in Clients, EndStep(c)
      PROVE  Wiped'
  BY <1>14 DEF EndStep
<1>15. ASSUME NEW c \in Clients, Reset(c)
      PROVE  Wiped'
  BY <1>15 DEF Reset
<1>16. ASSUME NEW c \in Clients, ReleaseToPool(c)
      PROVE  Wiped'
  BY <1>16 DEF ReleaseToPool, Ends
<1>17. ASSUME NEW c \in Clients, ReleaseSingle(c)
      PROVE  Wiped'
  BY <1>17 DEF ReleaseSingle, Ends
<1>18. ASSUME NEW c \in Clients, PeerLeaves(c)
      PROVE  Wiped'
  BY <1>18 DEF PeerLeaves
<1>19. CASE Signal
  BY <1>19 DEF Signal
<1>20. CASE Drain
  BY <1>20 DEF Drain
<1>21. CASE Stop
  BY <1>21 DEF Stop
<1>22. CASE UNCHANGED vars
  BY <1>22 DEF vars
<1>. QED BY <1>1, <1>2, <1>3, <1>4, <1>5, <1>6, <1>7, <1>8, <1>9, <1>10, <1>11, <1>12,
     <1>13, <1>14, <1>15, <1>16, <1>17, <1>18, <1>19, <1>20, <1>21, <1>22 DEF Next,
     ManagerStep, HandlerStep, Release

\* A manager goes from one place to the next, and none is dropped.
LEMMA PlacedNext ==
    ASSUME Inv, [Next]_vars
    PROVE  Placed'
<1> USE InteractiveAssumption, Deployed DEF Inv, TypeOK, Leasing, HoldsAlone, Leased,
     Queued, Wiped, Placed, Holders, SemFree, Kills, InReady, AfterFailure, Pooled,
     Goto, pool_vars, mgr_vars, client_vars
<1>1. ASSUME NEW m \in Managers, Teardown(m)
      PROVE  Placed'
  BY <1>1 DEF Teardown
<1>2. ASSUME NEW m \in Managers, LaunchSucceeds(m)
      PROVE  Placed'
  BY <1>2 DEF LaunchSucceeds, HolderResumes
<1>3. ASSUME NEW m \in Managers, LaunchFails(m)
      PROVE  Placed'
  BY <1>3 DEF LaunchFails, HolderResumes
<1>4. ASSUME NEW m \in Managers, Retry(m) \/ WarmFails(m) \/ WarmHangs(m)
      PROVE  Placed'
  BY <1>4 DEF Retry, WarmFails, WarmHangs, AfterWarmFailure
<1>5. ASSUME NEW m \in Managers, ReturnReady(m)
      PROVE  Placed'
  <2>1. /\ \A i \in DOMAIN ready : i \in DOMAIN ready' /\ ready'[i] = ready[i]
        /\ Len(ready) + 1 \in DOMAIN ready' /\ ready'[Len(ready) + 1] = m
    BY <1>5, Appended DEF ReturnReady
  <2>2. ASSUME NEW k \in mgrs, InReady(k) # {} \/ k = m
        PROVE  InReady(k)' # {}
    BY <2>1, <2>2
  <2>3. Pooled
    BY <1>5 DEF ReturnReady
  <2>. QED BY <1>5, <2>2, <2>3 DEF ReturnReady
<1>6. ASSUME NEW m \in Managers, Crash(m)
      PROVE  Placed'
  BY <1>6 DEF Crash
<1>7. ASSUME NEW c \in Clients, Admit(c)
      PROVE  Placed'
  BY <1>7 DEF Admit
<1>8. ASSUME NEW c \in Clients, Reject(c)
      PROVE  Placed'
  BY <1>8 DEF Reject
<1>9. ASSUME NEW c \in Clients, TakeReady(c)
      PROVE  Placed'
  <2>1. ASSUME NEW k \in mgrs, InReady(k) # {}, k # Head(ready)
        PROVE  InReady(k)' # {}
    <3>1. PICK i \in DOMAIN ready : ready[i] = k
      BY <2>1
    <3>2. i - 1 \in DOMAIN ready' /\ ready'[i - 1] = k
      BY <1>9, <2>1, <3>1, Taken DEF TakeReady
    <3>. QED BY <3>2
  <2>2. held'[c] = Head(ready) /\ held[c] = NoManager /\ \A d \in Clients \ {c} : held'[d] = held[d]
    BY <1>9 DEF TakeReady
  <2>3. ASSUME NEW k \in mgrs, Holders(k) # {} \/ k = Head(ready)
        PROVE  Holders(k)' # {}
    BY <2>2, <2>3
  <2>4. Pooled /\ UNCHANGED <<mgrs, job>>
    BY <1>9 DEF TakeReady
  <2>5. \A k \in mgrs : InReady(k) # {} \/ Holders(k) # {} \/ job[k] # "none"
    BY <2>4
  <2>. QED BY <2>1, <2>3, <2>4, <2>5
<1>10. ASSUME NEW c \in Clients, TakeSem(c)
      PROVE  Placed'
  BY <1>10 DEF TakeSem
<1>11. ASSUME NEW c \in Clients, GiveUp(c)
      PROVE  Placed'
  BY <1>11 DEF GiveUp
<1>12. ASSUME NEW c \in Clients, Announce(c)
      PROVE  Placed'
  BY <1>12 DEF Announce
<1>13. ASSUME NEW c \in Clients, StartStep(c)
      PROVE  Placed'
  BY <1>13 DEF StartStep
<1>14. ASSUME NEW c \in Clients, EndStep(c)
      PROVE  Placed'
  BY <1>14 DEF EndStep
<1>15. ASSUME NEW c \in Clients, Reset(c)
      PROVE  Placed'
  BY <1>15 DEF Reset
<1>16. ASSUME NEW c \in Clients, ReleaseToPool(c)
      PROVE  Placed'
  BY <1>16 DEF ReleaseToPool, Ends
<1>17. ASSUME NEW c \in Clients, ReleaseSingle(c)
      PROVE  Placed'
  BY <1>17 DEF ReleaseSingle, Ends
<1>18. ASSUME NEW c \in Clients, PeerLeaves(c)
      PROVE  Placed'
  BY <1>18 DEF PeerLeaves
<1>19. CASE Signal
  BY <1>19 DEF Signal
<1>20. CASE Drain
  BY <1>20 DEF Drain
<1>21. CASE Stop
  BY <1>21 DEF Stop
<1>22. CASE UNCHANGED vars
  BY <1>22 DEF vars
<1>. QED BY <1>1, <1>2, <1>3, <1>4, <1>5, <1>6, <1>7, <1>8, <1>9, <1>10, <1>11, <1>12,
     <1>13, <1>14, <1>15, <1>16, <1>17, <1>18, <1>19, <1>20, <1>21, <1>22 DEF Next,
     ManagerStep, HandlerStep, Release

\* A manager gets back only with a browser, which it keeps in the channel.
LEMMA BrowserNext ==
    ASSUME Inv, [Next]_vars
    PROVE  ReadyHasBrowser'
<1> USE InteractiveAssumption DEF Inv, TypeOK, Queued, Wiped, ReadyHasBrowser, Pooled,
     Holders, Goto, pool_vars, mgr_vars, client_vars
<1>1. ASSUME NEW m \in Managers, Teardown(m)
      PROVE  ReadyHasBrowser'
  BY <1>1 DEF Teardown
<1>2. ASSUME NEW m \in Managers, LaunchSucceeds(m)
      PROVE  ReadyHasBrowser'
  BY <1>2 DEF LaunchSucceeds, HolderResumes
<1>3. ASSUME NEW m \in Managers, LaunchFails(m)
      PROVE  ReadyHasBrowser'
  BY <1>3 DEF LaunchFails, HolderResumes
<1>4. ASSUME NEW m \in Managers, Retry(m) \/ WarmFails(m) \/ WarmHangs(m)
      PROVE  ReadyHasBrowser'
  BY <1>4 DEF Retry, WarmFails, WarmHangs, AfterWarmFailure
<1>5. ASSUME NEW m \in Managers, ReturnReady(m)
      PROVE  ReadyHasBrowser'
  BY <1>5 DEF ReturnReady
<1>6. ASSUME NEW m \in Managers, Crash(m)
      PROVE  ReadyHasBrowser'
  BY <1>6 DEF Crash
<1>7. ASSUME NEW c \in Clients, Admit(c)
      PROVE  ReadyHasBrowser'
  BY <1>7 DEF Admit
<1>8. ASSUME NEW c \in Clients, Reject(c)
      PROVE  ReadyHasBrowser'
  BY <1>8 DEF Reject
<1>9. ASSUME NEW c \in Clients, TakeReady(c)
      PROVE  ReadyHasBrowser'
  BY <1>9 DEF TakeReady
<1>10. ASSUME NEW c \in Clients, TakeSem(c)
      PROVE  ReadyHasBrowser'
  BY <1>10 DEF TakeSem
<1>11. ASSUME NEW c \in Clients, GiveUp(c)
      PROVE  ReadyHasBrowser'
  BY <1>11 DEF GiveUp
<1>12. ASSUME NEW c \in Clients, Announce(c)
      PROVE  ReadyHasBrowser'
  BY <1>12 DEF Announce
<1>13. ASSUME NEW c \in Clients, StartStep(c)
      PROVE  ReadyHasBrowser'
  BY <1>13 DEF StartStep
<1>14. ASSUME NEW c \in Clients, EndStep(c)
      PROVE  ReadyHasBrowser'
  BY <1>14 DEF EndStep
<1>15. ASSUME NEW c \in Clients, Reset(c)
      PROVE  ReadyHasBrowser'
  BY <1>15 DEF Reset
<1>16. ASSUME NEW c \in Clients, ReleaseToPool(c)
      PROVE  ReadyHasBrowser'
  BY <1>16 DEF ReleaseToPool, Ends
<1>17. ASSUME NEW c \in Clients, ReleaseSingle(c)
      PROVE  ReadyHasBrowser'
  BY <1>17 DEF ReleaseSingle, Ends
<1>18. ASSUME NEW c \in Clients, PeerLeaves(c)
      PROVE  ReadyHasBrowser'
  BY <1>18 DEF PeerLeaves
<1>19. CASE Signal
  BY <1>19 DEF Signal
<1>20. CASE Drain
  BY <1>20 DEF Drain
<1>21. CASE Stop
  BY <1>21 DEF Stop
<1>22. CASE UNCHANGED vars
  BY <1>22 DEF vars
<1>. QED BY <1>1, <1>2, <1>3, <1>4, <1>5, <1>6, <1>7, <1>8, <1>9, <1>10, <1>11, <1>12,
     <1>13, <1>14, <1>15, <1>16, <1>17, <1>18, <1>19, <1>20, <1>21, <1>22 DEF Next,
     ManagerStep, HandlerStep, Release

-----------------------------------------------------------------------------
(* The counter *)

\* A pool counts exactly the streams that are pending or active.
LEMMA CountsNext ==
    ASSUME Inv, [Next]_vars
    PROVE  CountsAdmitted' /\ clients' \in 0..Cardinality(Clients)
<1> USE Deployed, ActiveFinite DEF Inv, TypeOK, CountsAdmitted, Active, Pooled, Goto,
        pool_vars, mgr_vars, client_vars
<1>1. mgrs' = mgrs
  BY DEF Next, vars, ManagerStep, HandlerStep, Release, Teardown, LaunchSucceeds,
     LaunchFails, WarmFails, WarmHangs,
     Retry, ReturnReady, Crash, Admit, Reject, TakeReady, TakeSem, GiveUp, Announce, StartStep,
     EndStep, Reset, ReleaseToPool, ReleaseSingle, PeerLeaves, Signal, Drain, Stop
<1>2. CASE Active' = Active /\ clients' = clients
  BY <1>1, <1>2
<1>3. ASSUME NEW c \in Clients, Admit(c)
      PROVE  CountsAdmitted' /\ clients' \in 0..Cardinality(Clients)
  <2>1. c \notin Active /\ Active' = Active \cup {c}
    BY <1>3 DEF Admit
  <2>2. Cardinality(Active') = Cardinality(Active) + 1 /\ Cardinality(Active') <= Cardinality(Clients)
    BY <2>1, ActiveGrows
  <2>. QED BY <1>1, <1>3, <2>2 DEF Admit, HasRoom
<1>4. ASSUME NEW c \in Clients, GiveUp(c) \/ ReleaseToPool(c)
      PROVE  CountsAdmitted' /\ clients' \in 0..Cardinality(Clients)
  <2>1. c \in Active /\ Active' = Active \ {c}
    BY <1>4 DEF GiveUp, ReleaseToPool, Ends
  <2>2. Cardinality(Active') = Cardinality(Active) - 1 /\ Cardinality(Active') \in Nat
    BY <2>1, ActiveShrinks
  <2>. QED BY <1>1, <1>4, <2>2 DEF GiveUp, ReleaseToPool, FreedSlot
<1>5. CASE ~Pooled /\ clients' = clients
  BY <1>1, <1>5
<1>6. ASSUME NEW m \in Managers, LaunchSucceeds(m) \/ LaunchFails(m)
      PROVE  CountsAdmitted' /\ clients' \in 0..Cardinality(Clients)
  <2>1. clients' = clients
    BY <1>6 DEF LaunchSucceeds, LaunchFails
  <2>2. CASE ~Pooled
    BY <1>5, <2>1, <2>2
  <2>3. CASE Pooled
    <3>1. \A c \in Clients : pc[c] # "release"
      BY <2>3 DEF Leasing
    <3>2. Active' = Active
      BY <1>6, <3>1 DEF LaunchSucceeds, LaunchFails, HolderResumes
    <3>. QED BY <1>2, <2>1, <3>2
  <2>. QED BY <2>2, <2>3
<1>7. CASE UNCHANGED <<clients, pc>>
  BY <1>2, <1>7
<1>8. ASSUME NEW c \in Clients,
             \/ Reject(c) \/ TakeReady(c) \/ TakeSem(c) \/ Announce(c) \/ StartStep(c)
             \/ EndStep(c) \/ Reset(c) \/ ReleaseSingle(c)
      PROVE  clients' = clients /\ Active' = Active
  BY <1>8 DEF Reject, TakeReady, TakeSem, Announce, StartStep, EndStep, Reset,
     ReleaseSingle, Ends
<1>9. ASSUME \/ \E m \in Managers : Teardown(m) \/ Retry(m) \/ ReturnReady(m) \/ Crash(m)
             \/ \E m \in Managers : WarmFails(m) \/ WarmHangs(m)
             \/ \E c \in Clients : PeerLeaves(c)
             \/ Signal \/ Drain \/ Stop \/ UNCHANGED vars
      PROVE  UNCHANGED <<clients, pc>>
  BY <1>9 DEF Teardown, Retry, WarmFails, WarmHangs, ReturnReady, Crash, PeerLeaves, Signal,
     Drain, Stop, vars
<1>. QED BY <1>2, <1>3, <1>4, <1>6, <1>7, <1>8, <1>9 DEF Next, ManagerStep, HandlerStep,
     Release

\* The histories of the browsers stay sets of streams.
LEMMA DirtyTyped ==
    ASSUME NEW c \in Clients, NEW m, dirty \in [Managers -> SUBSET Clients]
    PROVE  [dirty EXCEPT ![m] = @ \cup {c}] \in [Managers -> SUBSET Clients]
OBVIOUS

\* Every step keeps the types, as the counter is right.
LEMMA TypeNext ==
    ASSUME Inv, [Next]_vars, clients' \in 0..Cardinality(Clients)
    PROVE  TypeOK'
<1> USE InteractiveAssumption, Deployed DEF Inv, TypeOK, Leasing, HoldsAlone, Jobs,
     SessionPc, AfterFailure, Goto, pool_vars, mgr_vars, client_vars
<1>1. ASSUME NEW m \in Managers, Teardown(m)
      PROVE  TypeOK'
  <2>1. /\ job' \in [Managers -> Jobs] /\ chrome' \in [Managers -> {"none", "up", "down"}]
        /\ dirty' \in [Managers -> SUBSET Clients]
    BY <1>1 DEF Teardown, Kills
  <2>. QED BY <1>1, <2>1 DEF Teardown
<1>2. ASSUME NEW m \in Managers, LaunchSucceeds(m)
      PROVE  TypeOK'
  <2>1. chrome' \in [Managers -> {"none", "up", "down"}] /\ job' \in [Managers -> Jobs]
    BY <1>2 DEF LaunchSucceeds
  <2>2. CASE UNCHANGED <<pc, held, sem>>
    BY <1>2, <2>1, <2>2 DEF LaunchSucceeds
  <2>3. CASE HolderResumes(m)
    <3>1. pc' \in [Clients -> SessionPc] /\ held' \in [Clients -> Managers \cup {NoManager}]
      BY <2>3 DEF HolderResumes, Holders
    <3>2. sem' \in BOOLEAN
      BY <2>3 DEF HolderResumes
    <3>. QED BY <1>2, <2>1, <3>1, <3>2 DEF LaunchSucceeds
  <2>. QED BY <1>2, <2>2, <2>3 DEF LaunchSucceeds
<1>3. ASSUME NEW m \in Managers, LaunchFails(m)
      PROVE  TypeOK'
  <2>1. chrome' \in [Managers -> {"none", "up", "down"}] /\ job' \in [Managers -> Jobs]
    BY <1>3 DEF LaunchFails
  <2>2. CASE UNCHANGED <<pc, held, sem>>
    BY <1>3, <2>1, <2>2 DEF LaunchFails
  <2>3. CASE HolderResumes(m)
    <3>1. pc' \in [Clients -> SessionPc] /\ held' \in [Clients -> Managers \cup {NoManager}]
      BY <2>3 DEF HolderResumes, Holders
    <3>2. sem' \in BOOLEAN
      BY <2>3 DEF HolderResumes
    <3>. QED BY <1>3, <2>1, <3>1, <3>2 DEF LaunchFails
  <2>. QED BY <1>3, <2>2, <2>3 DEF LaunchFails
<1>4. ASSUME NEW m \in Managers, Retry(m) \/ WarmFails(m) \/ WarmHangs(m)
      PROVE  TypeOK'
  BY <1>4 DEF Retry, WarmFails, WarmHangs, AfterWarmFailure
<1>5. ASSUME NEW m \in Managers, ReturnReady(m)
      PROVE  TypeOK'
  BY <1>5 DEF ReturnReady
<1>6. ASSUME NEW m \in Managers, Crash(m)
      PROVE  TypeOK'
  BY <1>6 DEF Crash
<1>7. ASSUME NEW c \in Clients, Admit(c)
      PROVE  TypeOK'
  BY <1>7 DEF Admit
<1>8. ASSUME NEW c \in Clients, Reject(c)
      PROVE  TypeOK'
  BY <1>8 DEF Reject
<1>9. ASSUME NEW c \in Clients, TakeReady(c)
      PROVE  TypeOK'
  BY <1>9 DEF TakeReady
<1>10. ASSUME NEW c \in Clients, TakeSem(c)
      PROVE  TypeOK'
  BY <1>10 DEF TakeSem
<1>11. ASSUME NEW c \in Clients, GiveUp(c)
      PROVE  TypeOK'
  BY <1>11 DEF GiveUp
<1>12. ASSUME NEW c \in Clients, Announce(c)
      PROVE  TypeOK'
  BY <1>12 DEF Announce
<1>13. ASSUME NEW c \in Clients, StartStep(c)
      PROVE  TypeOK'
  <2>1. dirty' \in [Managers -> SUBSET Clients]
    BY <1>13, DirtyTyped DEF StartStep
  <2>2. pc' \in [Clients -> SessionPc]
    BY <1>13 DEF StartStep
  <2>. QED BY <1>13, <2>1, <2>2 DEF StartStep
<1>14. ASSUME NEW c \in Clients, EndStep(c)
      PROVE  TypeOK'
  BY <1>14 DEF EndStep
<1>15. ASSUME NEW c \in Clients, Reset(c)
      PROVE  TypeOK'
  BY <1>15 DEF Reset
<1>16. ASSUME NEW c \in Clients, ReleaseToPool(c)
      PROVE  TypeOK'
  BY <1>16 DEF ReleaseToPool, Ends
<1>17. ASSUME NEW c \in Clients, ReleaseSingle(c)
      PROVE  TypeOK'
  BY <1>17 DEF ReleaseSingle, Ends
<1>18. ASSUME NEW c \in Clients, PeerLeaves(c)
      PROVE  TypeOK'
  BY <1>18 DEF PeerLeaves
<1>19. CASE Signal
  BY <1>19 DEF Signal
<1>20. CASE Drain
  BY <1>20 DEF Drain
<1>21. CASE Stop
  BY <1>21 DEF Stop
<1>22. CASE UNCHANGED vars
  BY <1>22 DEF vars
<1>. QED BY <1>1, <1>2, <1>3, <1>4, <1>5, <1>6, <1>7, <1>8, <1>9, <1>10, <1>11, <1>12,
     <1>13, <1>14, <1>15, <1>16, <1>17, <1>18, <1>19, <1>20, <1>21, <1>22 DEF Next,
     ManagerStep, HandlerStep, Release

-----------------------------------------------------------------------------
(* Theorems *)

\* The invariant holds at first.
LEMMA InitInv == Init => Inv
<1> SUFFICES ASSUME Init PROVE Inv
  OBVIOUS
<1>1. TypeOK
  <2>1. ready \in Seq(Managers) /\ Len(ready) = 0 /\ DOMAIN ready = {}
    BY DEF Init
  <2>2. Cardinality(mgrs) \in Nat /\ 0 \in 0..Cardinality(Clients)
    BY Deployed, ActiveFinite DEF Init
  <2>3. job \in [Managers -> Jobs] /\ chrome \in [Managers -> {"none", "up", "down"}]
    BY DEF Init, Jobs
  <2>4. dirty \in [Managers -> SUBSET Clients] /\ pc \in [Clients -> SessionPc]
        /\ held \in [Clients -> Managers \cup {NoManager}] /\ cancelled \in [Clients -> BOOLEAN]
    BY DEF Init, SessionPc
  <2>5. /\ mgrs \in Deployments /\ server = "serving" /\ clients = 0 /\ sem = FALSE
    BY DEF Init
  <2>6. Len(ready) <= Cardinality(mgrs)
    BY <2>1, <2>2
  <2>. QED BY <2>1, <2>2, <2>3, <2>4, <2>5, <2>6 DEF TypeOK
<1>2. ReadyHasBrowser /\ CountsAdmitted
  <2>1. {c \in Clients : pc[c] \notin {"idle", "done"}} = {}
    BY DEF Init
  <2>2. clients = 0 /\ Cardinality(mgrs) \in Nat /\ DOMAIN ready = {}
    BY Deployed DEF Init
  <2>3. Cardinality({c \in Clients : pc[c] \notin {"idle", "done"}}) = 0
    BY <2>1, FS_EmptySet
  <2>. QED BY <2>2, <2>3 DEF ReadyHasBrowser, CountsAdmitted
<1>3. Leasing /\ Queued /\ Wiped
  BY InteractiveAssumption, Deployed DEF Init, Leasing, Leased, Queued, Wiped
<1>4. Placed
  BY InteractiveAssumption, Deployed DEF Init, Placed, Holders, Pooled
<1>. QED BY <1>1, <1>2, <1>3, <1>4 DEF Inv

\* Every step keeps it.
LEMMA NextInv == Inv /\ [Next]_vars => Inv'
BY CountsNext, TypeNext, LeasingNext, QueuedNext, WipedNext, PlacedNext, BrowserNext DEF
   Inv

\* Whatever fails, is cancelled or crashes, every manager is in one place, what is
\* given out is wiped and has a browser, and the counter is right.
THEOREM InteractiveInvariant == Spec => []Inv
BY InitInv, NextInv, PTL DEF Spec

\* A manager is in one place, by count.
THEOREM ManagersHaveOneOwner == Spec => []OneOwner
<1>1. Inv => OneOwner
  <2> SUFFICES ASSUME Inv, NEW m \in mgrs
               PROVE  LET background == IF job[m] # "none" /\ Holders(m) = {} THEN 1 ELSE 0
                          idle == IF ~Pooled /\ ~sem THEN 1 ELSE 0
                      IN Cardinality(InReady(m)) + Cardinality(Holders(m)) + background + idle = 1
    BY DEF OneOwner
  <2>1. CASE InReady(m) # {}
    <3>1. PICK i \in InReady(m) : TRUE
      BY <2>1
    <3>2. InReady(m) = {i} /\ Holders(m) = {} /\ job[m] = "none" /\ Pooled
      BY <3>1 DEF Inv, Queued, InReady
    <3>3. Cardinality(InReady(m)) = 1 /\ Cardinality(Holders(m)) = 0
      BY <3>2, FS_Singleton, FS_EmptySet
    <3>. QED BY <3>2, <3>3
  <2>2. CASE Holders(m) # {}
    <3>1. PICK c \in Holders(m) : TRUE
      BY <2>2
    <3>2. Holders(m) = {c} /\ InReady(m) = {} /\ (~Pooled => sem)
      BY <3>1, InteractiveAssumption, Deployed
      DEF Inv, TypeOK, Leasing, HoldsAlone, Queued, Placed, Holders, InReady
    <3>3. Cardinality(InReady(m)) = 0 /\ Cardinality(Holders(m)) = 1
      BY <3>2, FS_Singleton, FS_EmptySet
    <3>. QED BY <2>2, <3>2, <3>3
  <2>3. CASE InReady(m) = {} /\ Holders(m) = {}
    BY <2>3, FS_EmptySet DEF Inv, Placed
  <2>. QED BY <2>1, <2>2, <2>3
<1>. QED BY <1>1, InteractiveInvariant, PTL

\* The send to the channel of ready managers, which no context ends, never blocks.
THEOREM ReturnsFindRoom == Spec => []RoomToReturn
<1>1. Inv => RoomToReturn
  <2> SUFFICES ASSUME Inv, NEW m \in mgrs, job[m] = "return", ~(Len(ready) < Cardinality(mgrs))
               PROVE  FALSE
    BY DEF RoomToReturn
  <2> DEFINE others == mgrs \ {m}
             slots == 1..Len(ready)
  <2>1. ready \in [slots -> Managers] /\ Len(ready) \in Nat /\ slots = DOMAIN ready
    BY DEF Inv, TypeOK
  <2>2. mgrs \in SUBSET Managers /\ IsFiniteSet(Managers)
    BY Deployed, InteractiveAssumption DEF Inv, TypeOK
  <2>3. IsFiniteSet(mgrs)
    BY <2>2, FS_Subset
  <2>4. IsFiniteSet(others) /\ Cardinality(others) = Cardinality(mgrs) - 1 /\ Cardinality(mgrs) \in Nat
    BY <2>3, FS_RemoveElement, FS_CardinalityType
  <2>5. IsFiniteSet(slots) /\ Cardinality(slots) = Len(ready)
    <3>1. 1 \in Int /\ Len(ready) \in Int /\ Len(ready) \in Nat
      BY <2>1
    <3>2. /\ IsFiniteSet(1..Len(ready))
          /\ Cardinality(1..Len(ready)) = IF 1 > Len(ready) THEN 0 ELSE Len(ready) - 1 + 1
      BY <3>1, FS_Interval
    <3>. QED BY <3>1, <3>2
  <2>6. ready \in [slots -> others]
    BY <2>1 DEF Inv, Queued
  <2>7. Cardinality(others) < Cardinality(slots)
    BY <2>1, <2>4, <2>5
  <2>8. PICK i, j \in slots : i # j /\ ready[i] = ready[j]
    BY <2>3, <2>4, <2>5, <2>6, <2>7, FS_PigeonHole
  <2>. QED BY <2>1, <2>8 DEF Inv, Queued
<1>. QED BY <1>1, InteractiveInvariant, PTL

\* Nobody meets another stream's state in a browser.
THEOREM BrowsersAreClean == Spec => []CleanBrowser
<1>1. Inv => CleanBrowser
  BY DEF Inv, Leasing, HoldsAlone, Queued, CleanBrowser
<1>. QED BY <1>1, InteractiveInvariant, PTL

-----------------------------------------------------------------------------
(* The service implements Leases *)

\* The phases of a stream.
LEMMA Stages ==
    /\ Stage("idle") = "new" /\ Stage("waiting") = "pending" /\ Stage("done") = "over"
    /\ \A p \in Leased : Stage(p) = "open"
    /\ \A p \in SessionPc : Stage(p) \in {"pending", "open"} <=> p \notin {"idle", "done"}
BY DEF Stage, Leased, SessionPc

\* A stream that moves, moves its own phase.
LEMMA PhaseMoves ==
    ASSUME TypeOK, NEW c \in Clients, NEW p, pc' = [pc EXCEPT ![c] = p]
    PROVE  Phase' = [Phase EXCEPT ![c] = Stage(p)] /\ Phase[c] = Stage(pc[c])
BY DEF TypeOK, Phase

\* The moves of streams that Leases knows.
LEMMA PhaseSteps ==
    ASSUME TypeOK, NEW c \in Clients
    PROVE  /\ pc[c] = "idle" => Phase[c] = "new"
           /\ pc[c] = "waiting" => Phase[c] = "pending"
           /\ pc[c] \in Leased => Phase[c] = "open"
           /\ pc' = [pc EXCEPT ![c] = "waiting"] => Phase' = [Phase EXCEPT ![c] = "pending"]
           /\ pc' = [pc EXCEPT ![c] = "done"] => Phase' = [Phase EXCEPT ![c] = "over"]
           /\ \A p \in Leased : pc' = [pc EXCEPT ![c] = p] => Phase' = [Phase EXCEPT ![c] = "open"]
<1>1. \A p : pc' = [pc EXCEPT ![c] = p] => Phase' = [Phase EXCEPT ![c] = Stage(p)]
  BY PhaseMoves
<1>2. Phase[c] = Stage(pc[c])
  BY DEF Phase
<1>. QED BY <1>1, <1>2, Stages

\* A stream is admitted there when it is admitted here.
LEMMA SameAdmitted == TypeOK => Promise!Admitted = Active
BY Stages DEF Promise!Admitted, Phase, Active, TypeOK

\* A browser is written to, or wiped, under the stream that has it.
LEMMA SeenMoves ==
    ASSUME Inv, NEW c \in Clients, held[c] # NoManager, NEW s,
           held' = held, dirty' = [dirty EXCEPT ![held[c]] = s]
    PROVE  Seen' = [Seen EXCEPT ![c] = s]
<1>1. \A d \in Clients : held[d] = held[c] => d = c
  BY DEF Inv, Leasing, HoldsAlone
<1>2. held[c] \in Managers
  BY DEF Inv, TypeOK
<1>3. ASSUME NEW d \in Clients
      PROVE  Seen'[d] = [Seen EXCEPT ![c] = s][d]
  BY <1>1, <1>2, <1>3 DEF Seen, Inv, TypeOK
<1>4. Seen' = [d \in Clients |-> Seen'[d]] /\ DOMAIN Seen = Clients
  BY DEF Seen
<1>. QED BY <1>3, <1>4

\* A stream that returns its manager has none.
LEMMA SeenLeaves ==
    ASSUME Inv, NEW c \in Clients, held' = [held EXCEPT ![c] = NoManager], dirty' = dirty
    PROVE  Seen' = [Seen EXCEPT ![c] = {}]
BY DEF Seen, Inv, TypeOK

\* Nothing a client sees changes.
LEMMA Stutters ==
    ASSUME UNCHANGED <<mgrs, pc, held>>, Seen' = Seen
    PROVE  UNCHANGED Promise!vars
BY DEF Promise!vars, Slots, Pooled, Phase

\* Initially nobody is admitted, and there is room.
LEMMA InitLeases == Init => Promise!Init
<1> SUFFICES ASSUME Init PROVE Promise!Init
  OBVIOUS
<1>1. Slots \in Nat \ {0}
  BY Deployed, ActiveFinite DEF Init, Slots
<1>2. Phase = [c \in Clients |-> "new"]
  BY Stages DEF Init, Phase
<1>3. Seen = [c \in Clients |-> {}]
  BY DEF Init, Seen
<1>. QED BY <1>1, <1>2, <1>3 DEF Promise!Init

\* A recycling wipes the browser of the stream that waits for it, or of nobody.
LEMMA TeardownRefines ==
    ASSUME Inv, NEW m \in Managers, Teardown(m)
    PROVE  [Promise!Next]_Promise!vars
<1>1. UNCHANGED <<mgrs, pc, held>> /\ dirty' = [dirty EXCEPT ![m] = {}]
  BY DEF Teardown, Kills, pool_vars, client_vars
<1>2. CASE \E c \in Clients : held[c] = m
  <2>1. PICK c \in Clients : held[c] = m
    BY <1>2
  <2>2. held[c] # NoManager /\ pc[c] \in Leased
    BY <2>1, InteractiveAssumption DEF Inv, Leasing
  <2>3. Seen' = [Seen EXCEPT ![c] = {}]
    BY <1>1, <2>1, <2>2, SeenMoves
  <2>4. Phase' = Phase /\ Slots' = Slots /\ Phase[c] = "open"
    BY <1>1, <2>2, Stages DEF Phase, Slots, Pooled
  <2>5. Promise!Wipe(c)
    BY <2>3, <2>4 DEF Promise!Wipe
  <2>. QED BY <2>5 DEF Promise!Next
<1>3. CASE \A c \in Clients : held[c] # m
  <2>1. Seen' = Seen
    BY <1>1, <1>3 DEF Seen, Inv, TypeOK
  <2>. QED BY <1>1, <2>1, Stutters
<1>. QED BY <1>2, <1>3

\* The end of a launch is the end of the lease of a stream that released.
LEMMA LaunchRefines ==
    ASSUME Inv, NEW m \in Managers, LaunchSucceeds(m) \/ LaunchFails(m)
    PROVE  [Promise!Next]_Promise!vars
<1>1. UNCHANGED <<mgrs, dirty>>
  BY DEF LaunchSucceeds, LaunchFails
<1>2. CASE UNCHANGED <<pc, held>>
  BY <1>1, <1>2, Stutters DEF Seen
<1>3. ASSUME NEW c \in Clients, Goto(c, "reset", "recv"), UNCHANGED held
      PROVE  [Promise!Next]_Promise!vars
  <2>1. Phase' = [Phase EXCEPT ![c] = "open"] /\ Phase[c] = "open"
    BY <1>3, PhaseSteps DEF Goto, Inv, Leased
  <2>2. Phase' = Phase /\ Seen' = Seen /\ Slots' = Slots
    BY <1>1, <1>3, <2>1 DEF Seen, Slots, Pooled, Phase
  <2>. QED BY <2>2 DEF Promise!vars
<1>4. ASSUME NEW c \in Clients, Goto(c, "release", "done"), held' = [held EXCEPT ![c] = NoManager]
      PROVE  [Promise!Next]_Promise!vars
  <2>1. Phase' = [Phase EXCEPT ![c] = "over"] /\ Phase[c] = "open"
    BY <1>4, PhaseSteps DEF Goto, Inv, Leased
  <2>2. Seen' = [Seen EXCEPT ![c] = {}] /\ Slots' = Slots
    BY <1>1, <1>4, SeenLeaves DEF Slots, Pooled
  <2>3. Promise!Leave(c)
    BY <2>1, <2>2 DEF Promise!Leave, Promise!Become
  <2>. QED BY <2>3 DEF Promise!Next
<1>. QED BY <1>2, <1>3, <1>4 DEF LaunchSucceeds, LaunchFails, HolderResumes, Holders

\* Leases counts as FiniteSets does.
LEMMA SameCount == \A S : Promise!Cardinality(S) = Cardinality(S)
BY DEF Promise!Cardinality, Cardinality

\* A client is admitted while there is a slot, and turned away when there is none.
LEMMA AdmitRefines ==
    ASSUME Inv, NEW c \in Clients, Admit(c) \/ Reject(c)
    PROVE  Promise!Next
<1> USE DEF Admit, Reject, Goto
<1>1. Phase[c] = "new" /\ Seen' = Seen /\ Slots' = Slots
  BY PhaseSteps DEF Inv, Seen, Slots, Pooled, mgr_vars
<1>2. Promise!Cardinality(Promise!Admitted) = Cardinality(Active) /\ c \notin Active
  BY SameAdmitted, SameCount DEF Inv, Active
<1>3. Pooled => clients = Cardinality(Active) /\ Slots = Cardinality(mgrs)
  BY DEF Inv, CountsAdmitted, Active, Slots
<1>4. ~Pooled => Cardinality(Active) < Slots
  <2>1. IsFiniteSet(Clients) /\ Active \in SUBSET Clients /\ Active # Clients
    BY <1>2, InteractiveAssumption DEF Active
  <2>2. Cardinality(Active) # Cardinality(Clients)
    BY <2>1, FS_Subset
  <2>. QED BY <2>2, ActiveFinite DEF Slots
<1>5. Cardinality(Active) \in Nat /\ Cardinality(mgrs) \in Nat
  BY ActiveFinite, Deployed DEF Inv, TypeOK
<1>6. CASE Admit(c)
  <2>1. Phase' = [Phase EXCEPT ![c] = "pending"]
    BY <1>6, PhaseSteps DEF Inv
  <2>2. Cardinality(Active) < Slots
    BY <1>3, <1>4, <1>6 DEF HasRoom
  <2>3. Promise!Admit(c)
    BY <1>1, <1>2, <2>1, <2>2 DEF Promise!Admit, Promise!Become
  <2>. QED BY <2>3 DEF Promise!Next
<1>7. CASE Reject(c)
  <2>1. Phase' = [Phase EXCEPT ![c] = "over"]
    BY <1>7, PhaseSteps DEF Inv
  <2>2. Cardinality(Active) >= Slots
    BY <1>3, <1>5, <1>7 DEF HasRoom
  <2>3. Promise!TurnAway(c)
    BY <1>1, <1>2, <2>1, <2>2 DEF Promise!TurnAway, Promise!Become
  <2>. QED BY <2>3 DEF Promise!Next
<1>. QED BY <1>6, <1>7

\* What is handed out is wiped.
LEMMA GrantRefines ==
    ASSUME Inv, NEW c \in Clients, TakeReady(c) \/ TakeSem(c)
    PROVE  Promise!Next
<1>1. PICK m \in mgrs : held' = [held EXCEPT ![c] = m] /\ dirty[m] = {}
  <2>1. CASE TakeReady(c)
    <3>1. 1 \in DOMAIN ready /\ Head(ready) = ready[1]
      BY <2>1, Taken DEF TakeReady, Inv, TypeOK
    <3>. QED BY <2>1, <3>1 DEF TakeReady, Inv, Queued
  <2>2. CASE TakeSem(c)
    BY <2>2 DEF TakeSem, SemFree, Inv, Placed
  <2>. QED BY <2>1, <2>2
<1>2. pc[c] = "waiting" /\ pc' = [pc EXCEPT ![c] = "announce"] /\ UNCHANGED <<mgrs, dirty>>
  BY DEF TakeReady, TakeSem, Goto, mgr_vars
<1>3. Phase[c] = "pending" /\ Phase' = [Phase EXCEPT ![c] = "open"]
  BY <1>2, PhaseSteps DEF Inv, Leased
<1>4. Seen' = Seen /\ Slots' = Slots
  <2>1. held[c] = NoManager
    BY <1>2 DEF Inv, Leasing, Leased
  <2>2. ASSUME NEW d \in Clients
        PROVE  Seen'[d] = Seen[d]
    BY <1>1, <1>2, <2>1, InteractiveAssumption, Deployed DEF Seen, Inv, TypeOK
  <2>. QED BY <1>2, <2>2 DEF Seen, Slots, Pooled
<1>5. Promise!Grant(c)
  BY <1>3, <1>4 DEF Promise!Grant, Promise!Become
<1>. QED BY <1>5 DEF Promise!Next

\* The other steps of a stream.
LEMMA StreamRefines ==
    ASSUME Inv, NEW c \in Clients,
           \/ GiveUp(c) \/ Announce(c) \/ StartStep(c) \/ EndStep(c)
           \/ Reset(c) \/ Release(c) \/ PeerLeaves(c)
    PROVE  [Promise!Next]_Promise!vars
<1>1. mgrs' = mgrs /\ Slots' = Slots
  BY DEF GiveUp, Announce, StartStep, EndStep, Reset, Release, ReleaseToPool,
     ReleaseSingle,
     PeerLeaves, Slots, Pooled
<1>2. CASE GiveUp(c)
  <2>1. Phase[c] = "pending" /\ Phase' = [Phase EXCEPT ![c] = "over"]
    BY <1>2, PhaseSteps DEF GiveUp, Goto, Inv
  <2>2. Promise!Withdraw(c)
    BY <1>1, <1>2, <2>1 DEF Promise!Withdraw, Promise!Become, GiveUp, mgr_vars, Seen
  <2>. QED BY <2>2 DEF Promise!Next
<1>3. CASE StartStep(c)
  <2>1. Phase[c] = "open" /\ Phase' = [Phase EXCEPT ![c] = "open"]
    BY <1>3, PhaseSteps DEF StartStep, Goto, Inv, Leased
  <2>2. held[c] # NoManager /\ dirty[held[c]] \subseteq {c} /\ held[c] \in Managers
    BY <1>3, InteractiveAssumption DEF StartStep, Goto, Inv, TypeOK, Leasing, Leased,
       HoldsAlone
  <2>3. dirty' = [dirty EXCEPT ![held[c]] = {c}] /\ held' = held
    BY <1>3, <2>2 DEF StartStep, Inv, TypeOK
  <2>4. Seen' = [Seen EXCEPT ![c] = {c}]
    BY <2>2, <2>3, SeenMoves
  <2>5. Phase' = Phase
    BY <2>1 DEF Phase
  <2>6. Promise!Use(c)
    BY <1>1, <2>1, <2>4, <2>5 DEF Promise!Use
  <2>. QED BY <2>6 DEF Promise!Next
<1>4. CASE ReleaseToPool(c)
  <2>1. pc[c] \in Leased /\ pc' = [pc EXCEPT ![c] = "done"]
    BY <1>4 DEF ReleaseToPool, Ends, Leased
  <2>2. Phase[c] = "open" /\ Phase' = [Phase EXCEPT ![c] = "over"]
    BY <2>1, PhaseSteps DEF Inv
  <2>3. Seen' = [Seen EXCEPT ![c] = {}]
    BY <1>4, SeenLeaves DEF ReleaseToPool
  <2>4. Promise!Leave(c)
    BY <1>1, <2>2, <2>3 DEF Promise!Leave, Promise!Become
  <2>. QED BY <2>4 DEF Promise!Next
<1>5. CASE Announce(c) \/ EndStep(c) \/ Reset(c) \/ ReleaseSingle(c)
  <2>1. pc[c] \in Leased /\ UNCHANGED <<held, dirty>>
    BY <1>5 DEF Announce, EndStep, Reset, ReleaseSingle, Ends, Goto, Leased, mgr_vars
  <2>2. PICK p \in Leased : pc' = [pc EXCEPT ![c] = p]
    BY <1>5 DEF Announce, EndStep, Reset, ReleaseSingle, Goto, Leased
  <2>3. Phase' = [Phase EXCEPT ![c] = "open"] /\ Phase[c] = "open"
    BY <2>1, <2>2, PhaseSteps DEF Inv
  <2>4. Phase' = Phase /\ Seen' = Seen
    BY <2>1, <2>3 DEF Phase, Seen
  <2>. QED BY <1>1, <2>4 DEF Promise!vars
<1>6. CASE PeerLeaves(c)
  BY <1>1, <1>6, Stutters DEF PeerLeaves, mgr_vars, Seen
<1>. QED BY <1>2, <1>3, <1>4, <1>5, <1>6 DEF Release

\* Every step of the service is one of Leases, or changes nothing a client sees.
LEMMA StepRefines == Inv /\ [Next]_vars => [Promise!Next]_Promise!vars
<1> SUFFICES ASSUME Inv, [Next]_vars PROVE [Promise!Next]_Promise!vars
  OBVIOUS
<1>1. ASSUME NEW m \in Managers,
             \/ Retry(m) \/ ReturnReady(m) \/ Crash(m)
             \/ WarmFails(m) \/ WarmHangs(m)
      PROVE  [Promise!Next]_Promise!vars
  BY <1>1, Stutters DEF Retry, WarmFails, WarmHangs, ReturnReady, Crash, client_vars, Seen
<1>2. CASE Signal \/ Drain \/ Stop
  BY <1>2, Stutters DEF Signal, Drain, Stop, mgr_vars, client_vars, Seen
<1>3. CASE UNCHANGED vars
  BY <1>3, Stutters DEF vars, mgr_vars, client_vars, Seen
<1>. QED
  BY <1>1, <1>2, <1>3, TeardownRefines, LaunchRefines, AdmitRefines, GrantRefines,
     StreamRefines
  DEF Next, ManagerStep, HandlerStep

\* What clients see is exclusive and clean browsers, and nobody is turned away while
\* there is a slot.
THEOREM ServiceImplementsLeases == Spec => ImplementsLeases
BY InitLeases, StepRefines, InteractiveInvariant, PTL DEF Spec, ImplementsLeases,
   Promise!Spec

====
