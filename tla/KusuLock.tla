----------------------------- MODULE KusuLock -----------------------------
(***************************************************************************)
(* The locks of the command line tools: kusu-util/src/lib/lock.py (the     *)
(* global lock and the registry of running processes), their use by        *)
(* KusuApp in kusu-core/src/lib/app.py and by the upgrade action of        *)
(* kusu-kitops.  All of them are files, and every look at a file and every *)
(* change of it is a step of its own.                                      *)
(***************************************************************************)
CONSTANTS
  Proc,          \* the processes started, each once
  Program,       \* process -> the program it runs
  MayKill,       \* may a process be killed, so that no exit handler runs
  MayInterrupt   \* may an exception end a process between two steps

ProgramName == {"tool", "power", "kitops"}

ASSUME KusuLockAssumption ==
  /\ Program \in [Proc -> ProgramName]
  /\ {"absent", "empty"} \cap Proc = {}
  /\ MayKill \in BOOLEAN
  /\ MayInterrupt \in BOOLEAN

VARIABLES
  pc,         \* where each process is
  lockFile,   \* KUSU_GLOBAL_LOCK_FILE: absent, empty, or whose token it holds
  pidFiles,   \* the processes that have a file in REGISTRY_PATH
  instance    \* does /var/lock/subsys/kusu-kitops exist

vars == <<pc, lockFile, pidFiles, instance>>

(* Where the upgrade action is past the test of the registry.              *)
Upgrading == {"acquire", "openLock", "writeLock", "registerRelease", "upgrade"}

(* The exit handlers, last registered first.                               *)
Exiting == {"release", "removeLock", "unlock", "deregister"}

Place == {"start", "register", "registerExit", "checkInstance",
          "touchInstance", "run", "checkRegistry", "gone"}
           \cup Upgrading \cup Exiting

LockTypeOK ==
  /\ pc \in [Proc -> Place]
  /\ lockFile \in {"absent", "empty"} \cup Proc
  /\ pidFiles \in SUBSET Proc
  /\ instance \in BOOLEAN

Init ==
  /\ pc = [p \in Proc |-> "start"]
  /\ lockFile = "absent"
  /\ pidFiles = {}
  /\ instance = FALSE

Goto(p, place) == pc' = [pc EXCEPT ![p] = place]

---------------------------------------------------------------------------
(* KusuApp.__init__ and force_single_instance                              *)

(* check_for_global_lock exits when the lock is there.  kusu-power calls   *)
(* it without being a KusuApp and registers nowhere.                       *)
CheckForGlobalLock(p) ==
  /\ pc[p] = "start"
  /\ Goto(p, IF lockFile # "absent" THEN "gone"
             ELSE IF Program[p] = "power" THEN "run" ELSE "register")
  /\ UNCHANGED <<lockFile, pidFiles, instance>>

(* The file of the process is made, then its removal is registered.        *)
Register(p) ==
  /\ pc[p] = "register"
  /\ pidFiles' = pidFiles \cup {p}
  /\ Goto(p, "registerExit")
  /\ UNCHANGED <<lockFile, instance>>

RegisterExit(p) ==
  /\ pc[p] = "registerExit"
  /\ Goto(p, IF Program[p] = "kitops" THEN "checkInstance" ELSE "run")
  /\ UNCHANGED <<lockFile, pidFiles, instance>>

(* force_single_instance: test for the file, later touch it; in between    *)
(* its removal is registered.                                              *)
CheckInstance(p) ==
  /\ pc[p] = "checkInstance"
  /\ Goto(p, IF instance THEN "deregister" ELSE "touchInstance")
  /\ UNCHANGED <<lockFile, pidFiles, instance>>

TouchInstance(p) ==
  /\ pc[p] = "touchInstance"
  /\ instance' = TRUE
  /\ Goto(p, "run")
  /\ UNCHANGED <<lockFile, pidFiles>>

---------------------------------------------------------------------------
(* UpgradeAction._acquire_global_lock                                      *)

(* kusu-kitops is asked to upgrade the native base kit.                    *)
Upgrade(p) ==
  /\ pc[p] = "run" /\ Program[p] = "kitops"
  /\ Goto(p, "checkRegistry")
  /\ UNCHANGED <<lockFile, pidFiles, instance>>

(* no_other_kusu_apps_running: the registry is to hold this process only.  *)
NoOtherKusuApps_Any(p) == p \in pidFiles
NoOtherKusuApps(p) == pidFiles = {p}

CheckRegistry(p) ==
  /\ pc[p] = "checkRegistry"
  /\ Goto(p, IF NoOtherKusuApps(p) THEN "acquire" ELSE "unlock")
  /\ UNCHANGED <<lockFile, pidFiles, instance>>

(* KusuGlobalLock.acquire returns False when the lock is there; the caller *)
(* does not look at what it returns.                                       *)
Acquire(p) ==
  /\ pc[p] = "acquire"
  /\ Goto(p, IF lockFile # "absent" THEN "registerRelease" ELSE "openLock")
  /\ UNCHANGED <<lockFile, pidFiles, instance>>

(* _create_lock_file: write_text opens the file and then writes the token. *)
OpenLock(p) ==
  /\ pc[p] = "openLock"
  /\ lockFile' = "empty"
  /\ Goto(p, "writeLock")
  /\ UNCHANGED <<pidFiles, instance>>

WriteLock(p) ==
  /\ pc[p] = "writeLock"
  /\ lockFile' = p
  /\ Goto(p, "registerRelease")
  /\ UNCHANGED <<pidFiles, instance>>

(* The exit handler that releases the lock, whether it was taken or not.   *)
RegisterRelease(p) ==
  /\ pc[p] = "registerRelease"
  /\ Goto(p, "upgrade")
  /\ UNCHANGED <<lockFile, pidFiles, instance>>

---------------------------------------------------------------------------
(* The end of a process                                                    *)

(* Which handler runs first depends on how many were registered.           *)
ProgramHandler(p) ==
  CASE Program[p] = "kitops" -> "unlock"
    [] Program[p] = "tool" -> "deregister"
    [] Program[p] = "power" -> "gone"
FirstHandler_NoRelease(p) == ProgramHandler(p)
FirstHandler(p) == IF pc[p] = "upgrade" THEN "release" ELSE ProgramHandler(p)

(* The work is done, or has raised an exception.                           *)
Finish(p) ==
  /\ pc[p] \in {"run", "upgrade"}
  /\ Goto(p, FirstHandler(p))
  /\ UNCHANGED <<lockFile, pidFiles, instance>>

(* An exception (KeyboardInterrupt) before that.  A handler that was not   *)
(* registered yet does not run: the file of the process, or its lock, may  *)
(* stay behind.                                                            *)
Interrupt(p) ==
  /\ MayInterrupt
  /\ \/ pc[p] \in {"touchInstance", "checkRegistry"} \cup (Upgrading \ {"upgrade"})
          /\ Goto(p, "unlock")
     \/ pc[p] \in {"checkInstance", "touchInstance"} /\ Goto(p, "deregister")
     \/ pc[p] \in {"start", "register", "registerExit"} /\ Goto(p, "gone")
  /\ UNCHANGED <<lockFile, pidFiles, instance>>

(* KusuGlobalLock.release removes the file if it holds its own token.      *)
HoldsToken_Any(p) == lockFile # "absent"
HoldsToken(p) == lockFile = p

Release(p) ==
  /\ pc[p] = "release"
  /\ Goto(p, IF HoldsToken(p) THEN "removeLock" ELSE "unlock")
  /\ UNCHANGED <<lockFile, pidFiles, instance>>

RemoveLock(p) ==
  /\ pc[p] = "removeLock"
  /\ lockFile' = "absent"
  /\ Goto(p, "unlock")
  /\ UNCHANGED <<pidFiles, instance>>

(* KusuApp.unlock removes the file whoever has touched it.                 *)
Unlock(p) ==
  /\ pc[p] = "unlock"
  /\ instance' = FALSE
  /\ Goto(p, "deregister")
  /\ UNCHANGED <<lockFile, pidFiles>>

Deregister(p) ==
  /\ pc[p] = "deregister"
  /\ pidFiles' = pidFiles \ {p}
  /\ Goto(p, "gone")
  /\ UNCHANGED <<lockFile, instance>>

Kill(p) ==
  /\ MayKill
  /\ pc[p] # "gone"
  /\ Goto(p, "gone")
  /\ UNCHANGED <<lockFile, pidFiles, instance>>

(* What a process does of its own accord, once it was started.             *)
Step(p) ==
  \/ CheckForGlobalLock(p) \/ Register(p) \/ RegisterExit(p)
  \/ CheckInstance(p) \/ TouchInstance(p)
  \/ CheckRegistry(p) \/ Acquire(p) \/ OpenLock(p) \/ WriteLock(p)
  \/ RegisterRelease(p) \/ Finish(p)
  \/ Release(p) \/ RemoveLock(p) \/ Unlock(p) \/ Deregister(p)

Next == \E p \in Proc : Step(p) \/ Upgrade(p) \/ Interrupt(p) \/ Kill(p)

(* A process that was started goes on, and what it was started for ends.   *)
Spec == Init /\ [][Next]_vars /\ \A p \in Proc : WF_vars(Step(p))

---------------------------------------------------------------------------
(* Properties                                                              *)

(* What the tests and files of a process guarantee at each of its places:  *)
(* it is registered from its first step as a KusuApp until its last exit   *)
(* handler, and from the test of the registry until its release of the     *)
(* lock it is the only one there.  Implies the next two.                   *)
Locking == Upgrading \cup {"release", "removeLock"}

LockInv ==
  /\ LockTypeOK
  /\ \A p \in Proc :
       /\ pc[p] \notin {"start", "register", "registerExit", "run", "gone",
                       "deregister"} =>
            Program[p] = "kitops"
       /\ pc[p] = "deregister" => Program[p] # "power"
       /\ pc[p] \notin {"start", "register", "gone"} /\ Program[p] # "power" =>
            p \in pidFiles
       /\ pc[p] \in {"writeLock", "registerRelease", "upgrade"} => lockFile # "absent"
       /\ pc[p] = "removeLock" => lockFile = p
  /\ \A p, q \in Proc : pc[p] \in Locking /\ pc[q] \in Locking => p = q

(* At most one process is past the test of the registry: although the      *)
(* result of acquire() is ignored, no two upgrades run at the same time    *)
(* (_acquire_global_lock, KusuProcessRegistry).                            *)
OneUpgrade ==
  \A p, q \in Proc :
    pc[p] \in Upgrading /\ pc[q] \in Upgrading => p = q

(* For as long as a native base kit is upgraded the global lock is in      *)
(* place, whoever else starts, exits or is killed (_acquire_global_lock,   *)
(* and the order in which the exit handlers run).                          *)
UpgradeUnderLock == \A p \in Proc : pc[p] = "upgrade" => lockFile # "absent"

(* The lock is removed by no process but the one whose token it holds      *)
(* (lock.py:111, "Should not be able to release a lock I do not own").     *)
OwnerReleases ==
  [][\A p \in Proc : RemoveLock(p) => lockFile = p]_vars

(* When an upgrade begins no other KusuApp is running (lock.py:68, "will   *)
(* only proceed with native base kit upgrade if there no other kusu apps   *)
(* running"); kusu-power is none and may be.                               *)
UpgradeStartsAlone ==
  [][\A p \in Proc : CheckRegistry(p) /\ pc'[p] = "acquire" =>
        \A q \in Proc \ {p} : Program[q] # "power" =>
          pc[q] \notin {"run"} \cup Upgrading]_vars

(* What a kill leaves behind.                                              *)
Killed(p) == pc[p] = "gone" /\ p \in pidFiles

(* The lock does not stay behind (lock.py:22, "Once kitops has completed   *)
(* its upgrade task, it will release the lock.  If kitops encountered an   *)
(* exception, it must make sure that the lock is released"): that of an    *)
(* upgrade that has begun goes away, however it ends, unless it is killed, *)
(* which leaves the process in the registry as well.                       *)
OwnLockReleased ==
  \A p \in Proc : pc[p] = "upgrade" /\ lockFile = p ~> lockFile # p \/ Killed(p)
=============================================================================
