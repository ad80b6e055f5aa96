-------------------------- MODULE KusuLock_proofs --------------------------
(***************************************************************************)
(* The locks of the tools, for any number of processes: the registry alone *)
(* keeps upgrades apart, and the global lock is in place during each.      *)
(***************************************************************************)
EXTENDS KusuLock, TLAPS

(* When no program runs there are no lock, no registered process and no    *)
(* file of force_single_instance.                                          *)
LEMMA LockInitInv == Init => LockInv
  BY KusuLockAssumption
  DEF Init, LockInv, LockTypeOK, Place, Upgrading, Exiting, Locking

(* The steps up to the registry, which leave the lock file alone.          *)
LEMMA StartInv ==
  ASSUME NEW p \in Proc, LockInv,
         \/ CheckForGlobalLock(p) \/ Register(p) \/ RegisterExit(p)
         \/ CheckInstance(p)
         \/ TouchInstance(p) \/ Upgrade(p)
  PROVE  LockInv'
<1> USE KusuLockAssumption
    DEF LockInv, LockTypeOK, Goto, Place, Upgrading, Exiting, Locking, ProgramName
<1>1. CASE CheckForGlobalLock(p)
  BY <1>1 DEF CheckForGlobalLock
<1>2. CASE Register(p)
  BY <1>2 DEF Register
<1>3. CASE CheckInstance(p)
  BY <1>3 DEF CheckInstance
<1>4. CASE TouchInstance(p)
  BY <1>4 DEF TouchInstance
<1>5. CASE Upgrade(p)
  BY <1>5 DEF Upgrade
<1>6. CASE RegisterExit(p)
  BY <1>6 DEF RegisterExit
<1> QED BY <1>1, <1>2, <1>3, <1>4, <1>5, <1>6

(* From the test of the registry to the lock: who passes the test is the   *)
(* only one registered, so nobody else can be there.                       *)
LEMMA AcquireInv ==
  ASSUME NEW p \in Proc, LockInv,
         CheckRegistry(p) \/ Acquire(p) \/ OpenLock(p) \/ WriteLock(p)
           \/ RegisterRelease(p)
  PROVE  LockInv'
<1> USE KusuLockAssumption
    DEF LockInv, LockTypeOK, Goto, Place, Upgrading, Exiting, Locking, ProgramName
<1>1. CASE CheckRegistry(p)
  <2>1. CASE NoOtherKusuApps(p)
    <3>1. \A q \in Proc : pc[q] \in Locking => q = p
      BY <2>1 DEF NoOtherKusuApps
    <3> QED BY <1>1, <2>1, <3>1 DEF CheckRegistry
  <2>2. CASE ~NoOtherKusuApps(p)
    BY <1>1, <2>2 DEF CheckRegistry
  <2> QED BY <2>1, <2>2
<1>2. CASE Acquire(p)
  BY <1>2 DEF Acquire
<1>3. CASE OpenLock(p)
  BY <1>3 DEF OpenLock
<1>4. CASE WriteLock(p)
  BY <1>4 DEF WriteLock
<1>5. CASE RegisterRelease(p)
  BY <1>5 DEF RegisterRelease
<1> QED BY <1>1, <1>2, <1>3, <1>4, <1>5

(* The end of a process: the handlers undo in the opposite order.          *)
LEMMA ExitInv ==
  ASSUME NEW p \in Proc, LockInv,
         \/ Finish(p) \/ Release(p) \/ RemoveLock(p) \/ Unlock(p)
         \/ Deregister(p) \/ Interrupt(p) \/ Kill(p)
  PROVE  LockInv'
<1> USE KusuLockAssumption
    DEF LockInv, LockTypeOK, Goto, Place, Upgrading, Exiting, Locking, ProgramName
<1>1. CASE Finish(p)
  <2>1. FirstHandler(p) \in {"release", "unlock", "deregister", "gone"}
    BY DEF FirstHandler, ProgramHandler
  <2>2. /\ pc[p] = "upgrade" <=> FirstHandler(p) = "release"
        /\ pc[p] # "upgrade" => Program[p] = "kitops" <=> FirstHandler(p) = "unlock"
        /\ FirstHandler(p) = "deregister" => Program[p] = "tool"
    BY DEF FirstHandler, ProgramHandler
  <2> QED BY <1>1, <2>1, <2>2 DEF Finish
<1>2. CASE Release(p)
  BY <1>2 DEF Release, HoldsToken
<1>3. CASE RemoveLock(p)
  BY <1>3 DEF RemoveLock
<1>4. CASE Unlock(p)
  BY <1>4 DEF Unlock
<1>5. CASE Deregister(p)
  BY <1>5 DEF Deregister
<1>6. CASE Interrupt(p)
  BY <1>6 DEF Interrupt
<1>7. CASE Kill(p)
  BY <1>7 DEF Kill
<1> QED BY <1>1, <1>2, <1>3, <1>4, <1>5, <1>6, <1>7

(* Registration and exclusion hold in every reachable state.               *)
THEOREM LockCorrect == Spec => []LockInv
<1>1. LockInv /\ [Next]_vars => LockInv'
  <2> SUFFICES ASSUME LockInv, [Next]_vars PROVE LockInv'
    OBVIOUS
  <2>1. CASE UNCHANGED vars
    BY <2>1 DEF vars, LockInv, LockTypeOK
  <2>2. CASE Next
    BY <2>2, StartInv, AcquireInv, ExitInv DEF Next, Step
  <2> QED BY <2>1, <2>2
<1> QED BY LockInitInv, <1>1, PTL DEF Spec

(* No two upgrades of the base kit run at the same time, although the      *)
(* result of acquire() is ignored.                                         *)
THEOREM OneUpgradeHolds == Spec => []OneUpgrade
<1>1. LockInv => OneUpgrade
  BY DEF LockInv, OneUpgrade, Locking
<1> QED BY <1>1, LockCorrect, PTL

(* The lock is in place during every upgrade.                              *)
THEOREM UpgradeUnderLockHolds == Spec => []UpgradeUnderLock
<1>1. LockInv => UpgradeUnderLock
  BY DEF LockInv, UpgradeUnderLock
<1> QED BY <1>1, LockCorrect, PTL

(* Nobody removes a lock that holds the token of another process.          *)
THEOREM OwnerReleasesHolds == Spec => OwnerReleases
<1>1. LockInv => \A p \in Proc : RemoveLock(p) => lockFile = p
  BY DEF LockInv, RemoveLock
<1> QED BY <1>1, LockCorrect, PTL DEF OwnerReleases

(* Every KusuApp registers, so that no other one runs when an upgrade      *)
(* begins (no_other_kusu_apps_running).                                    *)
THEOREM UpgradeStartsAloneHolds == Spec => UpgradeStartsAlone
<1> DEFINE Alone == \A p \in Proc : CheckRegistry(p) /\ pc'[p] = "acquire" =>
                      \A q \in Proc \ {p} : Program[q] # "power" =>
                        pc[q] \notin {"run"} \cup Upgrading
<1>1. LockInv => Alone
  <2> SUFFICES ASSUME LockInv, NEW p \in Proc, CheckRegistry(p), pc'[p] = "acquire",
                      NEW q \in Proc \ {p}, Program[q] # "power"
               PROVE  pc[q] \notin {"run"} \cup Upgrading
    OBVIOUS
  <2>1. pidFiles = {p}
    BY DEF CheckRegistry, Goto, NoOtherKusuApps, LockInv, LockTypeOK
  <2> QED BY <2>1 DEF LockInv, Upgrading
<1> QED BY <1>1, LockCorrect, PTL DEF UpgradeStartsAlone
=============================================================================
