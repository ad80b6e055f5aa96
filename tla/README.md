# CLUMP (Kusu): a verification project

CLUMP is a cluster manager. A *primary installer* keeps a database of nodes and
node groups, offers repositories, configuration files and PXE files, and runs the
`kusu-*` tools; *nodes* boot over the network, install themselves, and are
kept current by a daemon. This directory holds TLA+ models of the parts that run
concurrently, their TLC configurations, and theorems about them that TLAPS checks.

Paths below are relative to `src/src/kits/base/packages/`.

## 1. Inventory

| Component | Source | State | Operations | Status |
|---|---|---|---|---|
| CFM daemon | `kusu-base-node/cfm/cfmd.c`, init script | sequence number in memory and in `CFM_SEQUENCE`, socket, child | start, receive a packet, record it, run the client with a time limit, stop | modelled: `Cfmd` |
| CFM sender | `cfmnet.py`, `kusu-cfmsync.py`, `cfms.py` (`consolidatedSync`, `signalUpdate`) | `/etc/.cfm.sequence`, the depot | prepare the depot, take a number, broadcast it several times | modelled: `CfmNet` |
| Notification end to end | both | both | both, over UDP broadcast | modelled: `CfmNotify`, `CfmPromise` |
| CFM client | `kusu-base-node/sbin/cfmclient.py` | `package.lst`, `.ORIG`, configuration files | update packages, files, repositories; report to the CGI | packages: `CfmClient`; files: `CfmFiles`; account files: `CfmMerge` |
| CFM depot | `cfms.py` | merge files, file lists, package lists | generate, remove old | `CfmFiles`, `CfmMerge`, package lists `CfmClient`; for the senders one step of `CfmNet` |
| Global lock and registry | `kusu-util/src/lib/lock.py`, `kusu-core/src/lib/app.py` | lock file, registered processes, instance file | test, register, acquire, release, exit handlers | modelled: `KusuLock` |
| Kit operations | `kusu-kitops` | kits' rows, directories, plugin link, version | add, delete, upgrade kits | base kits: `KitOps`, over `Repos` |
| Repositories | `kusu-repoman` | rows, directories, `.stale` marks | make, copy, refresh, delete a repository; add, remove a kit | `Repos`, in `KitOps` |
| Boot files and node states | `kusu-boothost.py`, `nodeboot.cgi.py` | rows of nodes and groups, PXE files | -m, -n, -s with -k -i -p -r; CGI requests | modelled: `NodeBoot`, less what section 7 lists |
| Node installer | `kusu-nodeinstaller`, `updatestate`, `updatenic` | the node's disk | boot, ask, install, report, restart | partly: `NodeBoot` |
| Hosts and names | `kusu-addhost.py`, `nodefun.py` | rows of nodes and NICs, DHCP hosts, PXE files, a lock file | import, listen, add by hand, remove, replace | partly: `AddHost` |
| Node group editor, networks, images, drivers, kit building, power, setup | `ngedit`, `netedit`, ... | | | not modelled, see `PROJECT.json` |

How they interact:

* `kusu-cfmsync` (and the upgrade of a kit) prepares the depot, then broadcasts a packet
  with a new sequence number, a node group and a set of kinds. `cfmd` on each node
  compares the number with its own, records it and runs `cfmclient`, which fetches what
  the installer offers *at that time*, and at its end tells `nodeboot.cgi` `state=Installed`.
* `nodeboot.cgi` changes the row of the node that calls and runs `kusu-boothost -m node`,
  which reads the row and writes the PXE file. Administrators run `kusu-boothost` too.
  The database is in autocommit mode; nothing locks rows or files.
* Every `kusu-*` tool is a `KusuApp`, which refuses to start under the global lock and
  registers itself; an upgrade of the base kit looks into the registry and takes the lock.
* `kusu-kitops` copies kits to `/depot/kits` and `kusu-repoman` puts their packages into repositories; both change the
  rows that say which repository has which kit, and mark repositories stale or clean by a file.
* `kusu-addhost` writes rows of nodes and nics and tells the DHCP server, `kusu-boothost` and the plugins of each.
  Two runs meet at a lock file of its own.

The behaviours that are hard: processes that share files without a lock (the sequence
file, the lock file, PXE files); a datagram that is repeated, reordered or lost; a crash
while a file is rewritten; a decision taken from a row that has changed since; exit
handlers that do not run. `PROJECT.json` lists each under "hazards", at its line.

What makes each component correct: *daemon and senders*: no update is lost on a node
that listens, none runs twice or after a newer one, numbers are new. *Lock*: upgrades are
alone and their lock neither vanishes nor stays. *Boot files*: the PXE file says what the
database says; a node that boots from its disk has there what the database wants; it comes
up. *Client*: a file or package list is never half applied and taken for applied; what is local stays. *Kits*:
an operation that fails leaves rows, files and packages consistent, and a clean repository has what its rows say. *Hosts*: no name or
address is given twice, and database, DHCP server and PXE files tell of the same hosts.

## 2. Modules and their code

| Module | Models | Written as |
|---|---|---|
| `Cfmd` | `main`, `setSequence`, `setInstallers`, `listen4packet`, `runUpdate` of cfmd.c | a node's `pc` is the place in `main` where it can be interrupted; `sequence` and `dpack` are main's locals, `seqfile` the file. Both set functions read, truncate and rewrite the file, so each is two actions; a crash between them leaves it empty. A stop of the daemon may leave its client at work (`orphans`). `Deliver` is an arbitrary network |
| `CfmNet` | `CFMNet.__updateSequence`, `sendPacket`, `PackBuilder.consolidatedSync` | a sender reads the number, opens the file (which empties it) and stores the next: three actions; then `Resends` broadcasts. `rest` is a longer number of which the end stayed in the file when two senders had it open; a sender that reads that exits, or takes the end for the number (`ReadMixed`) |
| `CfmNotify` | the two, composed | `Broadcast` is a sender's `Send` together with the daemons' `Deliver`; `Install` is the client's work with the depot of that moment. `have` and `wanted` record what nodes have and were told of |
| `CfmPromise` | what notification promises | published updates, and per node those handled: addressed, increasing, until a restart |
| `KusuLock` | lock.py, the start and end of a KusuApp, `_acquire_global_lock` | each test, each change of a file and each registration of a handler is an action; a process walks through them and ends by its exit handlers, an exception, or a kill |
| `NodeBoot` | kusu-boothost.py, nodeboot.cgi.py, the node's life | one action per SQL statement and per PXE file of kusu-boothost; one per request or change of a node. An administrator's run is a process, and so is each CGI of a node, which outlives the node's power and the client that asked |
| `CfmClient` | `PackBuilder.getPackageList` of cfms.py, `updatePackages` of cfmclient.py | a list is a file that may be absent, with a set of packages or a line of an error page; each rename, download, command and unlink is an action; a kill may come between any two, and the list of the installer is emptied and written in two steps while clients download it |
| `CfmMerge` | `genMergeFiles` and friends of cfms.py, `Merger.mergeFile` of cfmclient.py | a file is a set of lines, each of a user; the installer's file, its .merge copy, and on the node the file, the OS copy and the T0 copy; each copy is an action, and a local change or a kill comes between any two; a command may also replace the file while `cat` writes it (`ReplaceFile`) |
| `CfmFiles` | `updateCFMdir`, `removeOldFiles`, `genFileList` of cfms.py, `updateFiles` with `__findOlderFiles`, `__getFile`, `__installNewFiles` of cfmclient.py | a file is a version and a date; originals, depot and the list of checksums on the installer, the file on the node. A file is encrypted and a list written in two actions each, so that a kill leaves half a file, or some lines and one cut off; a file that is appended to the node's is downloaded, the node's own part copied, and the two put together in three |
| `Repos` | `refresh`, `delete` and their helpers of repo.py; `new`, `snapshot`, `delete`, `addKit`, `delKit`, `update` and the lock file of kusu-repoman | the test of the lock file, its touch, a row, a directory, a mark, the selection of the kits, what is copied and the end of a refresh are actions; the OS kit is kit 0 |
| `KitOps` | kitops.py, addkit_strategies.py, deletekit_strategies.py, `UpgradeAction` | one action per flush, script, copied part, removed part, and for the synchronisation of the nodes; extends `Repos`, so that kusu-repoman's runs interleave, and the upgrade's own refresh is that of `Repos` |
| `AddHost` | kusu-addhost.py, nodefun.py, the plugin 00-boothost, the foreign key of nics | one action per statement, per change of the DHCP server and of the PXE files, and for the test and the touch of the lock file; what a NodeFun has read is part of its process |
| `*_proofs` | theorems | |
| `MC*` | instances for TLC | |

History variables (`performed`, `everRun`, `spoiled`, `published`, `disturbed` of `CfmNet`, `always`, `partial`, `torn`, `lost`, `crossed`, `stale`, `mishap`, `unsure`, `doubtful`, `cut`, `overlap`, `behind`, and those the modules mark "history") are no
part of the code; no guard reads them. Definitions named `X_Y` beside `X` are variants
of `X` with one fault, with which the properties are tested: each property fails under at
least one of them (`PROJECT.json`, "mutants").

## 3. Runs

Passing:

* **Cfmd**: one daemon, packets 1..3 for its group, all groups and another one in any order
  and multiplicity, a receive buffer of one packet, crashes, failing clients.
  In one life updates run in order, each once (`InOrderOnce`); the file never holds a number
  that was not accepted (`NeverAhead`); across restarts too no update is repeated unless its
  number could not be kept (`NoRepeatUnlessSpoiled`, `RunIsRecorded`); every update ends
  (`UpdateEnds`). Three numbers make "older", "same" and "newer" all occur after an accepted
  one; a buffer of one loses nothing in generality, as `Deliver` may choose any packet at
  any time.
* **CfmNotify**: two senders for different groups and kinds, a daemon, losses, kills,
  crashes, failing clients, clients that outlive their daemon. The first number is 9, so that the second has one digit more, and the file may begin with the rest of a number of three. The composition implements `CfmPromise` (`PromiseSpec`), has
  the invariant of section 5 (`NotifyInv`), and gives new numbers while updates of the
  sequence file do not overlap and none is cut (`NewNumber`).
* **CfmNotifyLive**: one sender run twice, two daemons that listen, nothing lost or killed:
  whatever a node was told of it has infinitely often, hence in the end
  (`EventuallyCurrent`). The queue holds all four packets; a queue that overflows loses
  notifications and the code has no answer to that.
* **KusuLock**: two kusu-kitops, a tool and a kusu-power, each killed or interrupted anywhere.
  One upgrade at a time (`OneUpgrade`), under the lock (`UpgradeUnderLock`), with no other KusuApp
  running when it begins (`UpgradeStartsAlone`); the lock is removed by its owner only
  (`OwnerReleases`), and is removed unless the owner is killed (`OwnLockReleased`). Two
  upgrades and a third party are what races of pairs need; each process starts once.
* **NodeBoot**: one node that may lose power at any time, two CGIs at work for it, an administrator who runs kusu-boothost with `-m`, `-n` or `-s` and any of
  `-k`, `-i`, `-p`, `-r` whenever they like, two kernels, two disturbances (administrators' runs, kills and errors, power losses, in any mixture).
  Nobody waits for anybody. When no process is at work for the node its PXE file follows the database (`PxeFollowsDb`); when its row sends it to its disk,
  the kernel of the row is there (`DiskIsCurrent`); it never boots from a wiped disk (`NeverStuck`); it comes up again and again (`NodeComesUp`). The code has races that break the first
  three. They are not cut away but named, each by the step at which it happens: `crossed` has the processes whose row was changed after they read it, `stale` the nodes
  whose file such a process wrote, or which `-s` or a stopped process left out, `mishap` what went wrong since a node's installer was booted: booted by a file its row did not ask for,
  its kernel changed meanwhile, or an old row written over its file. Each property says that nothing else breaks it. `NodeComesUp` has no exception but that a node
  that boots from a wiped disk is at rest too.
  One node suffices: nodes share the kernel of the group and the process that works for all of them, and section 5 proves the safety properties for any number of nodes, CGIs and administrators.
* **CfmClient**: one node, three packages, two changes of what the group has; downloads, commands and clients may
  fail, client and writer may be killed. A package that the group has all the time stays installed (`KeptPackagesStay`)
  unless a client downloads the list while it is rewritten; what is installed is on the list or its .ORIG
  (`NothingForgotten`) unless its record was given up. `torn` and `lost` are set by the steps that do this, and nowhere else:
  a kill after which the next client overwrites the .ORIG, a command that fails, a `Revert` after packages were installed.
  Three packages are one that stays, one that goes and one that comes; two changes let a package go and come back.

* **CfmMerge**: an account file of an installer and of a node, with root and another user, changed on both sides at any
  time, the client killed once. The node's own lines stay (`LocalLinesStay`), but for a user whose line was changed behind the client's back
  or after a kill, or a command that took the file away from `cat`, that left copies that disagree; no line is left that is neither the node's own nor offered (`NothingLeftBehind`).
* **CfmFiles**: two files, one of which is appended to the node's, edited and removed while synchronisations and clients run, fail and are killed. When
  nothing is under way a node has the original of each file (`NodeHasOriginals`), the list says what the depot has (`DepotAgreesWithList`), what was
  removed is not offered (`RemovedAreGone`); the exceptions, named in the definitions, are those of the observations below.
* **KitOps**: kusu-kitops adds, deletes and upgrades base kits, native and compatible, beside a run of kusu-repoman; any step may fail or be killed.
  A kit's row has its files and files have a row (`RowsHaveFiles`), the plugin link leads to a copy while a kit has one (`PluginServed`), a repository
  that nobody works on has a row and a directory or neither and, unless it is marked, the packages of its kits (`RepoServesItsKits`), through an upgrade a repository has
  the old base kit or the new one, and a node group too, with all its other kits (`UpgradeKeepsKits`), and records its version last (`VersionRecordedLast`). Three repositories
  of two operating systems: the installer's, one like it, one of the compatibility kit; a fourth may be made, empty or as a snapshot.
* **AddHost**: two runs of kusu-addhost at once, three in all, that import two MACs, listen with an address given by `-x`, add a host by hand whose name is also a generated one, remove and
  replace (a batch of the log may hold both MACs, and both replace); a kill anywhere; three addresses, so that an import given the last one runs out. No address is given twice, but by a process
  that read the addresses before another wrote (`AddressesUnique`); unless two processes work at once, the DHCP server and the PXE directory never know a host that the database
  does not, and between runs the database has no host they do not know, but those a process was interrupted on or refused (`StoresAgree`).

Violation, disagreements of the code with a comment and manual pages quoted under "findings":

* **CfmNotifyRace**: two overlapping senders take one number; nodes drop the second update
  as a duplicate and never install it.
* **NodeBootReinstall**: "a reinstall has to occur if the kernel, initrd, or kparams changes", says a comment in kusu-boothost, and for the kernel of a node that is being installed it does not
  (`ReinstallOccurs`): the report at the end, `state=Installed&boot=disk`, undoes the expiry, and the node boots from its disk with the old kernel.

Further observations, from the same models with a constant or an exception in a property changed, or met while they were written:

* `KusuLock`: a tool looks for the lock, the upgrade looks into the registry, the tool registers, the upgrade locks: both run, although
  the tool would refuse to start a moment later.
* `NodeBoot`: `kusu-boothost -s` with a kernel or `-r` lists the expired nodes first (kusu-boothost.py:554) and expires all of them afterwards (579-603): the PXE files of
  the others are not written, though the manual page has the command "regenerate the booting PXE file". The nodes are reinstalled when something else writes their files.
* `NodeBoot`: kusu-boothost of an administrator and of a CGI may read rows in one order and write the PXE file in the other; the file then has the older row.
* `NodeBoot`: a node is left booting from a wiped disk by two ways. Its PXE file is not what its row asks for, as a CGI has changed the row and not yet written the file, and
  the power fails: it boots the installer although its row says disk, the installer's request writes the file anew, disk again, while the disk is wiped, and the power fails. Or a CGI
  of before the expiry writes its old row, disk, over the file of a node that is being reinstalled, and the power fails.
* `CfmClient`: cfmd kills a client that has downloaded the list; the next client renames that list over the .ORIG, finds nothing to
  remove, and what is no longer listed stays installed for good.
* `KitOps` with two tools: both may pass the test of the lock file before either touches it, and work on one repository. Then `markClean` at the end of a refresh removes the mark that a change of the kits has set meanwhile,
  and the repository passes for "refreshed and up to date" (`kusu-repoman/src/lib/tools.py:264`). `unsure` marks what a kill leaves
  likewise: a row without a directory or the reverse, a row of a kit written and the mark not yet set. A repository without a directory is not stale either
  (`isStale`): one whose `-n` was killed accepts kits and can never be marked until it is refreshed. `-e` of a killed deletion can be run again.

* `CfmNotify` from `Init` instead of `RunningInit`: a node that is still in its update of the
  start has no socket, and misses what is broadcast meanwhile (`EventuallyCurrent` fails).
* `Cfmd` stores a number before it runs the client: after a crash in between, the packets still to come are dropped
  although no client was run for them (the update of the next start makes up for it). Likewise `RunIsRecorded` holds, its converse
  does not.
* `KusuLock`: an exception between the creation of the lock file and the registration of its exit handler leaves the lock for good;
  `OwnLockReleased` is about upgrades that have got past that.
* `CfmClient`: without `torn`, `KeptPackagesStay` fails: an emptied list is a list, and every package of the group is removed
  from the node, until the next update. `getPackageList` compares lines with their ends to names, so lists of more than
  one package are rewritten even when nothing changed, and this window is open in every synchronisation.
* `CfmNet`: the file of the sequence number may be left with two lines by two senders, the second being the end of a longer number: empty or cut off, it makes every later run exit
  with "does not have a valid format"; as a number, it is taken for the sequence number.
* `KusuLock`: `force_single_instance` tests and touches in two steps, so that two kusu-kitops may both
  pass; upgrades are kept apart by the registry alone.
* `CfmMerge`: a client killed after it wrote the merged file and before the last copy leaves an OS copy and a T0 copy that disagree; the next merge
  deletes the node's own lines. A command that renames a new file over the one `cat` is writing, made from what
  it found, an empty file, leaves the node without its other lines until the next merge. Lines are removed by user: with a line of the installer goes a local line of that user. What is changed between
  the two copies is never seen. The branch for gshadow uses a name that is not defined. `genMergeFiles` compares a set with a list, so that
  .merge files are rewritten in every synchronisation.
* `CfmFiles`: a file edited within the second it was taken, while it is encrypted, or replaced by one with an older date, is listed with its new checksum and
  not offered: clients reject what they download, until the file is edited again. A synchronisation killed while it encrypts leaves half a file
  that looks current. One of packages only writes the list anew, with checksums of edits that it does not offer. The last file that
  is removed stays in the depot. A line of the list cut off by the writer ends the client before its packages.
* `KitOps`: the upgrade reads which repositories have the old kit before it takes the lock. A native upgrade refreshes repositories with `genupdatesimg`, itself a
  KusuApp, which refuses to run under the upgrade's lock: where `updates.img` has to be made the upgrade ends with the old kit gone and the version not
  recorded. Node groups of packages with driver packs end in a NameError at the same point. A compatibility kit cannot be upgraded to
  the version of the native one, though the messages say so. A post-uninstall script that fails leaves a row without files, which counts as a kit
  of the oldest API and stands in the way of every kit of its name. The row of a kit is there before its packages: kusu-repoman can add half a kit.
  A node group that has components of the new kit only, associated when it was added, loses them in the upgrade, which sets the groups of a new component to those of the old one
  (`kusu-kitops/src/lib/action.py:334`).
* `AddHost`: addresses are read before the lock is looked at, so an import started just as another ends may give an address twice. A row without a nic (a process
  killed, or a listener out of addresses) is not seen by the test of names, cannot be removed with `-e`, and takes its rank. An exception leaves the lock file;
  `-n` with an installer group removes that of another run. `-e installer host` removes the host's PXE file and leaves the host, since the refusal
  of the installer is remembered. An import given an address near the end runs out on its next line, which leaves the lines before without PXE files.

## 4. Fairness

`DaemonSpec` assumes weak fairness of the steps `main` takes by itself: a process that can run is
scheduled. A client owes nothing (`UpdateEnds` holds for one that hangs, through `MAXRUNTIME`).
`CfmNotify` adds that a client that works finishes, that the init script starts the daemon,
and that a sender once started finishes; nothing makes anybody start a sender or deliver a lost packet.
`KusuLock`: a process that was started goes on and ends. `NodeBoot` (`FairSpec`): a running
kusu-boothost goes on, a node on its way up goes on; administrators owe nothing, and kills and power losses are bounded, not fair.
The other modules state no fairness: their properties are about every step and every state.

## 5. Proofs

All theorems hold for every value of the constants under the named assumptions of the modules
(types of constants; no assumption on sizes or finiteness).

* `CfmNotify_proofs`, the daemons: `DaemonCorrect` (`DaemonInv`) and, from it, `NeverAheadHolds`, `RunIsRecordedHolds`,
  `RunInOrderOnce`, `NoRepeat`. The safety properties are not inductive: that a run does not repeat
  needs to know what was on file *while* the file is being rewritten. `DaemonInv` says, for each place of
  `main`, how the local variable, the packet, the file or the copy in hand, and the history compare
  (`NumbersAgree`, `FileAgrees`). One lemma per kind of step: types, the node itself, other nodes, the network.
* `CfmNotify_proofs`, the senders: `NetCorrect`, `NewNumberHolds`. `NetInv`: while nothing overlapped, one process at most is in
  `__updateSequence`, and published numbers are below the one on file, or in hand while the file is empty.
* `CfmNotify_proofs`, both: `NotifyCorrect` combines both invariants with "every packet anywhere was published";
  `NotifyKeepsPromise` is the refinement: initial states map to initial states, storing the number is
  `Publish`, forking the client `Handle`, starting the daemon `Forget`, all else stutters.
* `KusuLock_proofs`: `LockCorrect`, and the theorems for the four safety properties. `LockInv` says what each place of a
  process guarantees; the argument for exclusion is that a process is registered from its first step to
  its last handler, so whoever finds only itself in the registry is alone, and the next one to look finds two.
* `CfmClient_proofs`: `ClientCorrect` (`ClientInv`) and, from it, `KeptPackagesStayHolds`, `NothingForgottenHolds`. `ListsKeep` follows what the
  group always had from the database through the list that is offered to the one on the node, `RecordsAgree` what the files say at
  each place of `updatePackages`. One lemma for types, one for the installer's steps, two for the client's.

* `CfmMerge_proofs`: `MergeCorrect` (`MergeInv`), `LocalLinesStayHolds`, `NothingLeftBehindHolds`. `MergeInv` says at each place of `mergeFile` how the
  three copies and what is in hand relate to the lines the node owns: without it the step that writes the file could not be known to keep them. Any users,
  any number of changes.

* `CfmFiles_proofs`: `FilesCorrect` (`FilesInv`) and from it `FilesTypeOKHolds`, `NodeHasOriginalsHolds`, `RemovedAreGoneHolds`,
  `DepotAgreesWithListHolds`. The properties speak of synchronisations that are over; the invariant follows one through its places: what it has looked
  at and need not copy (`ScanOK`), what stays true after it until a file is edited (`SettledOK`), why the second one removes what is gone (`RemovedOK`:
  by then it is listed), and what a client that nothing disturbed has got so far (`UpdateOK`). Any files, versions and dates.
* `NodeBoot_proofs`: `NodeBootTypeOKHolds`, `NodeBootCorrect` (`BootInv`) and, from it, `PxeFollowsDbHolds`, `DiskIsCurrentHolds`, `NeverStuckHolds`, under no assumption but the types of the
  constants: any nodes, CGIs, administrators, operations, kills and power losses. `BootInv` has three parts. `JobsOK`: what the arguments of a process say of the step it is at and of the
  nodes it has still to do. `FilesOK`: a PXE file is what the row calls for, or is known to be stale, or some process has yet to write it (`PxeOK`); and what a process is about to write is right, or its row was
  changed after it read it (`RowOK`). `NodesOK`: how disk, installer and row compare at each moment of a node's life (`BlankOK`, `CurrentOK`), the moment between the group's new kernel and the expiry of its nodes
  included (`NewGroupKernel`). A node is safe only because of its row, and the row only tells where the node boots because of the file: the parts are inductive together.
* `KitOps_proofs`, in three layers. `KitsCorrect` (`KitsInv`): for each place of kusu-kitops, which parts of the kit in hand are on the disk, whether it has a row,
  where the plugin link leads, and what an upgrade knows of its two kits; from it `KitOpsTypeOKHolds`, `RowsHaveFilesHolds`, `PluginServedHolds`.
  `ReposCorrect` (`ReposInv`): what each process may rely on about the repository it works on: its row and directory, the mark or packages that agree with its kits (`WorkOK`, for each place),
  that no kit in motion is in a repository one is sure of (`MotionOK`), and no tool moves under the global lock (`NativeAlone`); from it `RepoServesItsKitsHolds`. `UpgradesCorrect` (`UpgradeInv`): at each
  place of an upgrade which repositories and node groups are still to move; from it the action properties `UpgradeKeepsKitsHolds` and `VersionRecordedLastHolds`.
  Any kits, repositories, tools and node groups, any failures and kills.
* `AddHost_proofs`, in three layers. `TypeInv`: types, foreign and unique keys, and what a place says of what a process has in hand (`PlaceOK`, and `NewRowsOK`: the row
  that waits for its first nic has none, and waits for one process only); from it `AddHostTypeOKHolds`. `AddressInv`: a process that nobody was faster than has
  seen every address in the database (`SeenOK`), so what it picks is new; from it `AddressesUniqueHolds`. `StoresInv`, as long as no two processes worked at once:
  whoever works is alone, a DHCP host is the row and nic of that name, a PXE file has a nic (`LeasesOK`), what the process knows at each place (`HostOK`, `DoneOK`),
  and every row is complete but for names that were cut or are in hand (`Rows`); from it `StoresAgreeHolds`. As nobody else works, `StoresInv` is that
  invariant of one process (`Mine`), and there is one lemma for each kind of step of it.

Only model-checked: liveness (`UpdateEnds`, `EventuallyCurrent`, `OwnLockReleased`, `NodeComesUp`); TLAPS proves nothing about fairness and ENABLED. Every invariant
and action property of a passing run is a theorem.

## 6. Bounds

`MaxRuntime` (seconds a client runs, 2 for 3600), `QueueLimit` (packets in the socket's buffer), `Resends` (1 or 2 for the code's
several), `MaxRounds` (runs of each sender), `MaxDisturb` (administrators' runs, kills, restarts), `Slot` (CGIs at work for a node at a time), `MaxChanges` (changes of a group's packages),
`MaxLocal` and `MaxEdits` (changes of files on a node and on the installer), `MaxTime` (seconds, as far as dates of files tell them apart), `MaxKid`, `MaxNid` (rows ever inserted), `MaxRuns`
(of a tool), `MaxKills`, `MaxIp`, `MaxRank`. Two of a thing and one kill are what the properties' exceptions and
the races of pairs need; each bound lets every action happen, its failure too. Numbers of
packets are natural numbers: `int` does not overflow in a cluster's life at one number per synchronisation.

## 7. Abstractions, and what is left out

* A member of `Kernel` stands for kernel, initrd and kernel parameters, which every statement treats
  alike. A lost report `state=Installed` is a loss of power in "installed". At most two CGIs work for a node at a time in the run (`Slot`); a client of one node asks only
  when it has its last answer, or when it was killed, or after the node has lost power.
* Not in `NodeBoot`: multiboot groups, unmanaged hosts, nodes without a MAC address, `boot=network` (nothing sends
  it), imaged and diskless nodes, a node group whose provisioning is not Kusu's, a kusu-boothost that reboots nodes one by one (pdsh is one step).
* Not in `Cfmd`: the layout of packets, logging, which of several installers a client contacts. In `CfmNet` a mixed sequence file holds one number and one rest.
* In `CfmClient` packages do not depend on each other (yum also removes what needs a removed package), none is yum or rpm (the client never
  removes those), a list is downloaded whole, and the packages that are installed when a node is set up are those of its group. `Kill` is also
  a node that loses power, and the client's exit when its installer is not ready.
* In `CfmMerge` a line is a user and a value; in `CfmFiles` two files stand for all, checksum and encryption for the version they are made of. Synchronisations
  are one after the other there, although kusu-cfmsync has no guard; overlapping ones are in `CfmNet`, for their numbers. A node that loses power within a `cp` may keep half of its
  own part of a file for good; `CopyOS` is one step.
* Not in `KitOps`: operating system kits, kits of older APIs (but for the strategy that erases a kit without `kitinfo`), documentation, driver packs' contents. Packages of
  a kit are one item. The error `ComponentAlreadyInstalledError` is raised only for components that name an `ostype` (`kusu-kitops/src/lib/kitops.py:230`), which kits of the
  current API do not (`kusu-buildkit/src/lib/strategies/kitsource04.py:36`). The synchronisation at the end of an upgrade is one step there, which may fail; what it does is `CfmNet` and its neighbours. Not in `Repos`: operating systems' packages as items of their own, `--flush-cache`, node images and the images of updates,
  and kusu-repopatch, which downloads updates from a vendor, makes a kit of them, puts it in the place of the last one and refreshes.
* Not in `AddHost`: racks, host names in a file, preserved addresses and names, several networks and BMCs, unmanaged hosts with DHCP or from a file, other
  plugins. The branch that gives an unmanaged host an address in use (`nodefun.py:707`) is not there, as no host of the model is unmanaged and managed by DHCP. The INSERT of a row and the statement that asks for its number are one step. Deadlock is not looked for in modules whose runs are bounded: they stop.
* Logging, formatting, option parsing and user interfaces throughout.

## 8. Plan, and what is not modelled

Done: the modules of section 2; theorems on all of them, for every safety property of the passing runs.

To prove next: what remains of `StoresAgree` when two processes
of kusu-addhost overlap on different hosts; that `KitOps` without failures implements an abstract set of kits and their repositories.

Not modelled, and why:

* ngedit, netedit, nghosts: most of their lines lay out screens. What they change is one sequence of statements at the end, without
  a reader in between; nghosts removes and adds hosts through kusu-addhost, which `AddHost` has.
* The primary installer's setup, partitioning, images, driver patching, imaged and diskless nodes, power plugins: sequences of
  commands, run once or by hand, whose state is on disks and in hardware.
* kusu-boot's distribution detection, buildkit, the vendored createrepo: functions of files, of no shared state.
* The object layer of the database: taken as given, a statement or a flush at a time.
* Racks, older APIs of kits, multiboot groups and the rest of section 7: variants of what is modelled that add data, not control.
