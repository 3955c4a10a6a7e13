# A TLA+ model of proxmox-api-go

This directory holds TLA+ specifications of the library in `proxmox/`, the TLC
configurations that check them on small instances, and proofs that TLAPS
checks. `PROJECT.json` lists the components, the runs, which lines of the
source every definition stands for, what was found, and the hazards the
properties are for.

## The system

The library is a client of the HTTP API of a Proxmox VE server. It keeps almost
no state: a `Client` holds the session, a cached version and cached
permissions; a `VmRef` holds what is known of a guest. Everything else is on
the server, and an operation of the library is a sequence of requests to it. So
what is hard is not the data structures but what happens **between** the
requests:

- a request may be refused; it may be lost, or be carried out and its reply
  lost; the two look the same to the caller;
- many requests only start a *task*, which the library polls until it ends or
  its patience does. A task whose caller gave up goes on;
- most operations read, compute a difference, and write. Other clients (other
  goroutines, other processes, the web interface) write in between;
- the caller of a failed operation calls it again, from whatever state the
  failure left.

| component | state | operations | what makes it correct |
|---|---|---|---|
| Task layer (`client.go`, `session.go`) | none; tasks on the server | `PostWithTask`, `PutWithTask`, `DeleteWithTask`, `StatusChangeVm` (three tries), `WaitForCompletion` | an operation is repeated, or reported, only as its outcome allows |
| Guest update (`config_qemu.go`) | local: the configuration as read, `stopped`, `rebootRequired` | `Update` | what is reported is in force; the guest is running if it was; retries converge |
| Guest creation (`client.go`, `config_qemu.go`) | local: the volumes made | `GetNextID`, `CreateQemuVm`, `Create` | a success is complete; nobody touches another's guest; a failure leaves nothing |
| Group membership (`config_group.go`, `config_user.go`) | on the server: the groups of each user | `Create`, `Set`, `Update`, `AddUsersToGroup`, `RemoveUsersFromGroup`, `RemoveAllUsersFromGroup`, `SetMembers` | exactly the users asked for, and their other groups untouched |
| Pool membership (`config_pool.go`, `config_guest.go`) | on the server: the pool of each guest | `Create`, `Set`, `Update`, `Delete`, `AddGuests`, `RemoveGuests`, `SetGuests`, `guestSetPool_Unsafe` | a guest ends in the pool asked for, and is not lost on the way |
| Client cache (`client.go`, `permission.go`) | `version`, `permissions`, a mutex for each | `GetVersion`, `Version`, `CheckPermissions`, `RefreshPermissions`, `insertCachedPermission` | an answer is a version the server has run; a check says what the server would |
| HA resources (`client.go`, `config_lxc.go`) | `haState`, `haGroup` of the `VmRef` | `GetVmInfo`, `ReadVMHA`, `UpdateVMHA`, `DeleteVm`; creation, cloning and update of containers | what is skipped as unchanged is unchanged; a failure leaves nothing nobody asked for |
| Disk slots, TPM (`config_qemu_disk*.go`, `config_qemu_tpm.go`) | none | `markDiskChanges`, `cloudInitRemove`, `markChanges`, `mapToApiValues`, `selectInitialResize` | the slots come out as wanted and disks that stay keep their data |
| Settings of a guest: memory, CPU, cloud-init, agent, serial ports, tags, devices, options (`config_qemu.go`, `config_qemu_*.go`, `type_*.go`) | none | `mapToStruct`, `Validate`, `mapToAPI` | what is asked for comes into force, nothing else changes; what is read can be sent back |
| Storage (`config_storage.go`) | the object of the caller | `CreateWithValidate`, `UpdateWithValidate`, `Delete`, `NewConfigStorageFromApi` | a storage reads as it was asked for, whatever was done with the object before |
| Metric servers, ACME plugins (`config_metrics.go`, `config_acme_plugin.go`) | the object of the caller | `SetMetrics`, `SetAcmePlugin`, reading back | as above |
| SDN (`config_sdn_*.go`) | the object of the caller, with a digest | `Create`, `Update`, `Delete` of zones, vnets, subnets, DNS servers | a field that is not given is left alone; a digest guards an update |
| Snapshots (`snapshot.go`) | none | list, tree, create, delete, roll back | the tree holds every snapshot once |
| ACME accounts, networks, HA groups, files on storages | none | one request per operation | the fields are mapped right |
| Session, command line | the ticket | login, encoding | - |

The components meet in a few places: every one of them issues its requests
through the task layer or the session; the guest operations set pools through
the pool component and HA through the HA component; the cached version decides
how pools are written; the creation of a guest inserts into the cached
permissions; an update takes from the disk slots what it moves, resizes,
deletes and sends, and from the settings the other parameters of its PUT.

## The modules

| module | what it is | state ↔ code |
|---|---|---|
| `AsyncOperation` | what a synchronous call promises about an operation of the server, with HTTP, identifiers and polling left out | - |
| `TaskCall` | the task layer; implements `AsyncOperation` | `pc` is the place in `StatusChangeVm`/`WaitForCompletion`, `attempt` the loop variable at `client.go:491`, `waited` that at 447; `task` is what became of each request at the server, which the code does not see |
| `Reconfiguration` | what an update of a guest promises, with its requests and their order left out | - |
| `QemuUpdate` | `ConfigQemu.Update`, one step per request; implements `Reconfiguration` | `current` is `currentConfig`, `stopped` and `rebootRequired` the locals of that name, `todo` the rest of the loop that runs; `saved`, `active` are the server's configuration with and without its pending changes |
| `QemuUpdateProofs` | theorems about `QemuUpdate` | - |
| `GuestRegistry` | what creating a guest promises, with the search for an id and the volumes left out | - |
| `QemuCreate` | `GetNextID`, `CreateQemuVm`, `Create`; implements `GuestRegistry` | `created` is `createdDisks`, `current` the argument of `GetNextID`; `owner`, `has`, `volumes`, `exit` are the server |
| `QemuCreateProofs` | theorems about `QemuCreate` | - |
| `GroupMembership` | groups and users | `seen` is the answer of `listUsersFull`, `plan`/`todo` the `configUserShort` list and what is left of it; `member`, `users`, `groups` are the server |
| `GroupMembershipProofs` | theorems about `GroupMembership` | - |
| `PoolMembership` | pools and their guests | `seen` is the configuration last read; `pool`, `pools`, `major` are the server |
| `PoolMembershipProofs` | theorems about `PoolMembership` | - |
| `ClientCache` | the version and the permissions a `Client` has cached | `version`, `permissions` are `c.version`, `c.permissions`; `fetched`, `extracted` what a goroutine has in its hands |
| `HaResource` | a guest in HA and the references to it | `vmr` is `haState` and `haGroup` of a `VmRef`, `located` whether it has a node and a type; `ha`, `guest` are the server |
| `ClientProofs` | theorems about `TaskCall`, `ClientCache` and `HaResource`, the three modules of `client.go`; because it extends all of them, `ClientCache` has `CacheInit`, `CacheNext`, `CacheSpec` and `at`, and `HaResource` has `HaInit`, `HaNext`, `HaSpec`, `place` and `op`, where others have `Init`, `Next`, `Spec`, `pc` and `kind` | - |
| `AttachedDisks` | what an update may do to the devices in the slots, as if disks had no names | - |
| `QemuDisks` | the values of the disk slots and the TPM during an update; implements `Reconfiguration` and `AttachedDisks` | `want`, `wantTpm` are `newConfig.Disks`, `newConfig.TPM`, `current` is `currentConfig`, `todo` the list a loop works through; `slots`, `volumes`, `tpm` are the server, `late` its tasks nobody waits for |
| `QemuDisksProofs` | theorems about `QemuDisks` | - |
| `Optional` | pointer fields that may be nil, and requests with a `delete` list | - |
| `QemuMemory`, `QemuCpu`, `CloudInit`, `QemuDevices` | for each part of a guest's settings the functions of the source: `...ToApi` (`mapToAPI`), `...ToSdk` (`mapToSDK`, `mapToStruct`), `...Valid` (`Validate`) | no state |
| `QemuSettings` | one part of the settings, and a call that creates or updates the guest | `seen` is `currentConfig`, `held` what the program read earlier, `want` the configuration it asks for; `params` are the server's parameters |
| `QemuSettingsProofs` | theorems about `QemuSettings` and the conversions it uses | - |
| `StorageItem`, `ServiceItems`, `SdnItems` | the same three functions for storages, metric servers and ACME plugins, and SDN, with the panics and with what a call leaves of its object (`...After`) | no state |
| `ConfigItems` | one item of the cluster, and a program that makes calls on one object | `obj` is the object, `basis` the item it was read from, `current` what `Validate` reads of a storage; `item` and `parent` are the server |
| `ConfigItemsProofs` | theorems about `ConfigItems` | - |
| `MC...` | constants for TLC | - |

Each module has one action per request (or per step between two requests at
which another actor may intervene), named for the function or the step. A
failing request is one action with several outcomes: refused, lost, carried out
with its reply lost and, where there is a task, left running. The server is
modelled from how the library uses it; those definitions are marked external in
`PROJECT.json`.

`HaResource` follows an update of a virtual machine from its first request to
`UpdateVMHA`; all that `setAdvanced` does in between, which `QemuUpdate` has in
full, is the action `Update` there, with its three ways out: on to `UpdateVMHA`, an
error, and a return that a reboot is required. A request on a resource may be
answered with an error in the reply or the task: when that ends `UpdateVMHA`
(`client.go:1602`, 1608) and when its error is dropped are different outcomes.

`TaskCall` is where losing a reply and giving up on a task are modelled in full.
The other modules use its result: in `QemuUpdate` and `QemuDisks` a call that
outlives the patience of `WaitForCompletion` leaves a *late task* (`late`), which
ends or fails while later calls run; in `QemuCreate` `exit` is
the status of a task that goes on when the client has returned.

`QemuUpdate` and `QemuDisks` look at the same function from two sides. The
first has the order of the calls on a guest that may run, with changes that are
pending until it is restarted, and takes the lists of changes as given. The
second computes those lists from what is in the slots and what is wanted, and
has the names of the volumes, for a guest that is stopped; a move that ends late
gives a volume a name that no configuration read before has. Both implement
`Reconfiguration`, which says what the function promises. `QemuSettings` looks
at the values of all other parameters, for one PUT.

`QemuSettings` and `ConfigItems` model the conversions by what they do to
values that may be absent (`Nil`), empty, zero, false, invalid or ordinary; of
the ordinary ones there are one or two. Where the source converts a number to
fewer bits (`QemuCpu`) the numbers asked for, and those a guest has, go beyond
what fits, and limits are counted in tenths of a core; where it lowers the case
of a text (`QemuDevices`) the constant `LowerCase` says of which text to which. `kind` and `part` are chosen in the
initial state and never change, so that one specification stands for
thirteen parts of a guest, the other for eighteen kinds of items.

## What the runs check

All runs use the constants of the `MC` module of the component.

| run | bounds | shows |
|---|---|---|
| `TaskCall` | 1 caller, 3 tries, a timeout of two polls | a try is repeated only when the earlier ones are known to have failed or the call lost sight of one (`NoRepeatUnlessBlind`); a call that did not lose sight of any has settled its operation when it returns, and success is never reported without one (`SettledOnReturn`); the layer implements `AsyncOperation`; every call returns (`EveryCallReturns`) |
| `QemuUpdate` | one change of every class, a failing call, retries | success means in force; a reported reboot means saved; a first update leaves the guest running if it was; a device is deleted before it is created; retried with leave to reboot, an update converges; it implements `Reconfiguration` |
| `QemuDisks` | 2 slots, 2 storages, sizes of 1 to 3 with a gibibyte of 2, 2 requests that are lost or given up on, the update repeated | the slots and the TPM come out as wanted (`SlotsAsWanted`); a repetition has nothing to do (`RepeatIsNothing`); what is to stay keeps its data (`DataKept`, `TpmKept`); nothing that is valid is refused (`RefusedOnlyInvalid`); it implements `Reconfiguration` and `AttachedDisks`. A TPM of version `1.2` is lost at one step only (`TpmKept`), the update that wants it never succeeds (`SlotsAsWanted`), and it is an exception in `RefusedOnlyInvalid` and `Reconfiguration` |
| `QemuCreate` | 2 clients, 2 ids of which any may be taken, a lost call | success is complete; nobody changes another's guest; without a lost call no unfinished guest is left, but by a configuration with an HA group and no HA state; a creation returns as long as an id is free; it implements `GuestRegistry` |
| `QemuCreate_leftover` | 1 client | *violated*: volumes of a guest that was not created stay |
| `GroupMembership` | 2 clients, 2 users, 2 groups, a failing request, a change by others | users written by one client only come out exact (`UnsharedIsExact`); a client alone gets exactly what it asked for (`AloneIsExact`); whatever fails, a user is as before or as asked (`NothingHalfWritten`) |
| `PoolMembership` | 2 clients, 2 guests, 2 pools, both kinds of server, a failing request, pools deleted | guests one client reaches come out exact; no guest that was to be added is dropped; from version 8 on a client alone is never refused (`AloneIsAccepted`) |
| `PoolMembership_v7` | 1 client, version 7 | *violated*: a guest in another pool is refused |
| `ClientCache` | 2 goroutines, an upgrade, a change of permissions, a failing fetch | nil is never dereferenced, and without a failed fetch every version is real (`RealUnlessFailed`); a check that found something in the cache and passed was right about the server at some time (`PassIsTrue`), and so was one that was refused, unless the category's entry overruled the item's (`RefusalIsTrue`) |
| `HaResource` | 2 references, 2 states, a group, a lost request, a change by others | an update that succeeds and requires no reboot has set what was asked for unless it was misled by something the guest has lost, one that requires a reboot has set nothing (`OkIsExact`); one that fails leaves no mixture (`FailureIsHalfway`) |
| `QemuSettings` | 13 parts, both kinds of server where it matters, one call on a new or an existing guest, a lost reply, a change by others | a call that succeeds brings into force what was asked for and leaves every other setting as it was, or, if it shares its parameter with one that was asked for, as it was read (`OkIsExact`); what `Validate` takes the server takes (`ValidIsAccepted`); sending back what was read changes nothing (`ResendIsHarmless`); each with the exceptions it names |
| `ConfigItems` | 18 kinds, two calls on one object, a lost request, a change by others | an item that was written reads as it was asked for (`OkReadsBack`); an update with a digest overwrites nobody (`NoLostUpdate`); a program alone is refused by `Validate` only (`AloneIsAccepted`); sending back what was read changes nothing (`ResendIsHarmless`); each with the exceptions it names |

The runs marked *violated* check what a comment or a test of the source says,
or what its code is there for, against what it does; `PROJECT.json` quotes the
text under `findings`.

Some of what the code does is not a failure of a property but an exception that
a property names, and worth knowing:

- an update that fails between shutting a guest down (`config_qemu.go:642`) and
  starting it (697) leaves it stopped, and the next one, which succeeds, takes
  it for one that was stopped all along: `PowerPreserved` is about a first
  update that returns without an error;
- two clients that add one user to two groups at once lose one membership and
  both succeed: `UnsharedIsExact` excludes users that two operations write;
- once a fetch has failed, `Version` answers 0.0.0 without an error:
  `RealUnlessFailed`;
- a `VmRef` that remembers an HA resource which is gone lets `UpdateVMHA`
  conclude that nothing is to be done: the exception in `OkIsExact`;
- an update that requires a reboot it may not do returns without an error at
  `config_qemu.go:703` or 712, before it comes to `UpdateVMHA`: the HA settings
  stay as they were, the second half of `OkIsExact`;
- `UpdateVMHA` takes a group without a state for the wish to leave HA. The server
  refuses that of a guest that is not in HA, so `Create` makes the guest and
  returns an error: the exception in `NoHalfGuestWithoutFault`;
- the error by which a guest fails to join its first pool is dropped:
  the exception in `OkMeansInForce` and, in `PoolMembership`, the outcome
  `dropped`;
- `CreateLxcContainer` dereferences a nil response when the server cannot be
  reached: the outcome `panic` of `HaResource`;
- a path that is not in the cache of permissions passes every check, and the
  cache is empty until `RefreshPermissions` is called: the exception in
  `PassIsTrue`;
- `privileges.mapToSDK` drops the value of Sys.PowerMgmt, so that its holder is
  refused: the exception in `RefusalIsTrue`;
- the entry of the category overrules that of the item: a privilege that is
  granted on a guest, and that the category has without propagating it, is
  refused. The server lets the item's own entry win: the exception in
  `RefusalIsTrue`;
- a TPM for which the version 1.2 is wanted, which `Validate` takes, is deleted
  by every update and asked for with a version the server does not know.
  `TpmKept` says that it is lost there and nowhere else, `SlotsAsWanted` that no
  such update returns without an error; `RefusedOnlyInvalid` and the refinement
  of `Reconfiguration` have the exception `Misspelled`;
- a creation that is refused or lost before its guest exists leaves its volumes
  behind; `DeleteVm` lets the server refuse it when the `VmRef` does not
  remember that the guest is an HA resource.

Of the settings of a guest (`QemuSettings`):

- `Update` never sends the digest back. Somebody else's change to a parameter
  that several settings share (`cpu`, `cicustom`, `ipconfigN`, `agent`) is lost
  when one of them is asked for: the second case in `OkIsExact`;
- a snippet of cloud-init that lacks its storage or its path is sent, not removed
  as its comment says: a case of `Unsendable` in `ValidIsAccepted`;
- `Validate` takes, and the server refuses or `mapToAPI` panics on: a minimum
  above the capacity in force, half a cloud-init snippet, some of the snippets
  of a guest that has others, network, USB and PCI devices and an EFI disk as
  they are read (`Unsendable`);
- cores and sockets are read into eight bits, virtual cores into sixteen, and a
  limit loses its fraction. A guest of 300 cores reads as one of 44, which
  `Validate` takes and which is sent back; one of 256 reads as none and is refused.
  A limit below one core reads as none and is deleted: `SentBack` in
  `ResendIsHarmless`;
- `Validate` refuses what was read: a type of processor the table does not
  have, shares without a balloon, more virtual cores than there are, or numbers
  of cores and sockets that are too large or none once they were read
  (`Unrepeatable`). IvyBridge-IBRS and Nahalem-IRBS are offered by the error
  message and refused, as their keys in the table are misspelled;
- the type of a processor that the table does not have is lost when flags are
  asked for (`Lost`), and one that is spelled otherwise than in the table is sent
  back as the table has it; reading fills in defaults (`onboot` true, for one) which
  sending back then sets; a display written as a bare word loses it; text
  options cannot be cleared; an EFI disk that is asked for is made anew by every
  update.

Of the items of the cluster (`ConfigItems`):

- `ConfigStorage.Create` changes its object: it writes the server's spelling of
  the type into it, and `Enable` false before it enables the storage with a
  second request. When the first is lost and the call is made again with the
  same object, it reports success and the storage stays disabled;
- the list that every existence check reads is used although it could not be
  read: the call panics where it should return the error;
- `ValidateMetrics` looks into the structs of both types, one of which each call
  and each reading sets to nil: a second call panics;
- zones and subnets cannot be created: what would name them is taken out of the
  request; an update of a subnet sends an empty type although the comment says
  it should not;
- any content passes `ConfigStorageContent.Validate`, which looks for a text that
  `MapStorageContent` never returns. An empty
  preallocation of a directory passes too, and an empty password of a backup server;
- an update of a storage that says nothing of its content leaves it none; the
  namespace of a backup server cannot be cleared; the write cache of comstar is
  read under the wrong key; a partial retention, and NFS options other than the
  version, are read and then refused; the nodes of an ACME plugin are not read
  and are lost when it is sent back.

**Why the bounds are enough.** `TaskCall`: callers share nothing but the
tasks of the server, where each has its own, so that one is enough (the theorems
are about any number); three tries is the number in the code; a wait of two polls has
a first, a last and an expired one. `QemuUpdate`: items of one class are treated
alike and never depend on each other, so one of each class lets every step have
something to do or nothing (`want` is any subset); a fault lets a failed update
be followed by a retry from every state a failure can leave. `QemuDisks`: two
disks are what it takes to have one named like the other, and all that two
slots may hold is combined with all that may be wanted; sizes 1 and 3 are no
multiple of a gibibyte, 2 is one, and each may grow or shrink into the others;
four numbers suffice, as a storage never holds more than four volumes, and a
server without a free one would show as a deadlock.
`GroupMembership` and `PoolMembership`: a lost update takes two clients and one
user with two groups, or two pools. `QemuCreate`: a race for an id takes two
clients. `ClientCache`: a race for the cache takes two goroutines, and a stale
entry one change of the server between a fetch and the store. `HaResource`: a
reference that is older than the server takes one change, by the other
reference or by somebody else. `QemuSettings` and `ConfigItems`: settings and
fields are treated one by one or share a parameter, so that a plain object, and
those that differ from it in one setting or in those that are looked at
together, reach every branch; every numeric bound is a small number, and asked
for are values up to one above it; two calls on an object are what it takes for
the first to leave something behind. Counters of failing calls (`MaxFaults`) and of
other people's changes (`MaxOthers`, `MaxChanges`) are bounds of the runs, not
of the code; the theorems hold for every value of them.

**Fairness.** Weak fairness of the client's next step says that a goroutine
that has begun a call keeps running and that a request is answered or its
connection fails. The second is an assumption on the `http.Client`: `NewSession`
makes one without a `Timeout` and takes any other from its caller, so that a
server which accepts a connection and never answers makes a call wait for ever.
What the library itself sees to, and the liveness properties are about, is that
its own loops end. In `QemuUpdate` the fairness
includes the caller's retry: it does not give up. `QemuUpdate` and `QemuCreate`
assume besides that a task that has begun ends; `TaskCall` does not, which is
the point of `EveryCallReturns`. Nothing is assumed of other clients or of a
server's choice between outcomes. The other modules have no liveness property:
their operations are finite sequences of requests.

**Deadlock.** Checking is off where the calls are over when they have returned
(`CHECK_DEADLOCK FALSE` in the cfg says so) and on in the rest.

## What is proved

For every value of the constants, by TLAPS:

- `ClientProofs`, of `TaskCall`: `TypeCorrect`, `NoRepeat`, `Settled`, and
  `Refinement` (`Spec => Op!Spec`). The inductive invariant adds to
  `NoRepeatUnlessBlind` what the properties need and do not say: while a call
  waits or polls, the try it looks at is the last one made; the tries after it
  were never sent; a call that has not lost sight of a try has only dead tries
  behind it. `SettledOnReturn` follows at the two places where a call returns,
  and the refinement maps each step by what it does to `task`.
- `GroupMembershipProofs`: `TypeCorrect`, `ExactOnUnshared`, `NeverHalfWritten`,
  `ExactWhenAlone`. The inductive invariant relates, for every client and every
  user of its plan nobody else writes, the groups on the server to those it has
  read: unchanged while the user is still to be written, as computed afterwards,
  either of the two when the call failed. One lemma says what a step that
  writes no user leaves alone, one what `WriteUser` does; the theorems are
  corollaries.
- `ClientProofs`, of `HaResource`: `HaTypeCorrect`, `ExactUnlessOutlived`
  (`OkIsExact`), `NoMixture` (`FailureIsHalfway`). The inductive invariant
  `Stage` says, for every place a call can be at, which operations come there
  and what the server has of the resource as long as nobody else has changed it:
  its start up to the first request that changes it, then its start, the
  resource just added, or what was asked for. What is read before the comparison
  agrees with the start (`Agrees`), and that is what leaves a false "same" only
  one way; an update that returns for a reboot has sent nothing, so its start is
  still what the server has. A step of another call either leaves the resource alone or makes the
  start of this one `Unknown` (`ElsewhereKeeps`).
- `ClientProofs`, of `ClientCache`: `CacheTypeCorrect`,
  `VersionReal` (`RealUnlessFailed`), `PassedRightly` (`PassIsTrue`),
  `RefusedRightly` (`RefusalIsTrue`). For the version the invariant says that no
  goroutine brings nil, and none but a version the server has run unless a fetch
  failed. For the permissions it is `Sourced`: every entry of the cache, and of
  an answer a goroutine is about to store, is what the server said of its path
  at some time, and the entry of the category is from a time of which the cache
  still has every item. Without the second half a check that falls back to the
  category could pass because the item is missing. A refusal is traced to the
  entry that caused it: the item's, or the category's where there is no entry of
  the item or one that does not grant the privilege either.
- `QemuCreateProofs`: `TypeCorrect`, `Complete` (`SuccessIsComplete`),
  `OwnGuestOnly` (`NeverAnothersGuest`), `NoHalfGuest`
  (`NoHalfGuestWithoutFault`). Two clients may hold the same id, so the invariant
  is about the guest: it belongs to the client whose POST the server took, and
  as long as the task that makes it has not failed nobody else gets past a POST
  with that id (`Owns`). What it lacks is known from the place its creator is at
  (`Furnished`, `Stored`), and no step of another client changes any of this
  (`StepApart`). A creation that is refused after its guest exists is at one place
  only, where an HA group was asked for without a state, and has everything else by
  then. `Refinement` is `Spec => ImplementsGuestRegistry`: in the
  registry a guest is only ever furnished by the client that has it, although two
  clients of `QemuCreate` may believe that they do; `Owns` is what excludes it.
- `PoolMembershipProofs`: `TypeCorrect`, `ExactWhenUnshared`
  (`UnsharedIsExact`), `AcceptedWhenAlone` (`AloneIsAccepted`), and the action
  property `AddedOrLeftAlone` (`NeverDropped`). `Progress` says where a guest is
  at each step of the only operation that reaches it, also if that operation
  leaves it alone; `Welcome` what an operation that is alone knows of the server
  before each request, so that the server has no reason to refuse it but that
  its pool is gone.
- `QemuUpdateProofs`: `TypeCorrect`, `OkIsInForce` (`OkMeansInForce`),
  `RebootIsNeeded` (`RebootMeansSaved`), `PowerKept` (`PowerPreserved`),
  `DeletionFirst` (`DeletedBeforeCreated`). Five parts: what a server's
  configuration and its pending changes can be (`ServerRight`), what the tasks
  that outlived their callers may still do (`LateRight`), what is left of the
  loop that runs (`TodoRight`), which changes are saved at each place
  (`Progress`) and which are in force (`InForce`); `FirstCall` is about an
  update that nothing preceded. The hard part is that a late task, a growing
  disk or a reboot, ends in the middle of a later call: it can only bring about
  what that call wants as well. It holds for every number of failed calls
  (`MaxFaults`) and every set of changes. `Refinement` (`Spec =>
  ImplementsReconfiguration`) needs one more invariant, that what is in force is
  also recorded (`Upheld`), which a late task must not break either.
- `QemuDisksProofs`: `TypeCorrect`, `AsWanted` (`SlotsAsWanted`), `NothingLeft`
  (`RepeatIsNothing`), `DataPreserved` (`DataKept`), `NeverRefused`
  (`RefusedOnlyInvalid`), `TpmPreserved` (`TpmKept`). The configuration an update
  has read grows old with every request it makes. The invariant says in what:
  while disks are moved and grown each slot is as read but for the disks the loop
  is through with (`Matches`); after the deletion, which makes the update read
  again, a disk that may stay is at its storage and has its size (`Prepared`);
  before the PUT the two differ in nothing the parameters depend on (`Known`);
  after it a slot lacks at most the growth of a new disk (`Reached`). Moving a
  disk may give it the name another one had, so what is true of each slot needs
  that no two disks share a volume, which is part of `TypeOK` (`InOrder`). It
  holds for any slots, storages and options, any set of numbers (all of them
  too), any number of requests that are lost or given up on and of repetitions. Of
  a task that still runs (`late`) the invariant says that what it does is still
  wanted (`Alive`) and that the update has not come past the request it makes
  (`Due`): it ends before the call that started it is repeated, or the repetition's
  own request for it is refused. The one thing that can have happened to what was
  read is then that a move or a growth in the list is already done (`Overtaken`),
  and its request fails. No theorem has a hypothesis: that a TPM of version 1.2 is
  an exception is in the properties (`Misspelled`), as the code makes it one.
  `NamesDoNotMatter` (`Spec => ImplementsAttachedDisks`) knows no exception and no
  hypothesis either: although a move renames a disk and the PUT sets disks by names that
  were read before, each slot behaves as if it simply held its disk.
- `ConfigItemsProofs`: `Types`, `ReadsBack` (`OkReadsBack`), `NoneLost`
  (`NoLostUpdate`), `Accepted` (`AloneIsAccepted`), `Harmlessness`
  (`ResendIsHarmless`), for all eighteen kinds of items, any texts and numbers,
  and any number of calls. First come lemmas about the conversions alone, by
  classes of fields that the source treats alike: what the server has of a field
  after a write and how it reads. The inductive invariant then says where a call
  can be (`Placed`), what an update has read (`Compared`), that what is about to
  be written was accepted (`Checked`), what was written (`Written`) and, when
  nobody interferes, that the item is as it was when the call looked (`Alone`).
  The hard part is that a call changes the object it is called on, so that the
  next one may start from an object no program would make.
- `QemuSettingsProofs`: `Invariant`, `Exact` (`OkIsExact`), `Accepted`
  (`ValidIsAccepted`), `Harmless` (`ResendIsHarmless`), for all thirteen parts,
  any texts and numbers, any flags, devices and interfaces, and any number of
  changes by others. There is one request, so the inductive invariant is short:
  a guest has parameters a guest can have (`Has`), what was read is what
  `mapToStruct` makes of what the guest had then, `Validate` took what is sent
  (`Known`), the server has what the PUT made of what it had (`Answered`), and as
  long as nobody else interferes these are one and the same (`Alone`). The length
  is in the conversions, part by part: what reading yields is an object
  (`...Reads`), each setting is settled after a success (`...Exact`), a rejection
  is one the property names (`...Accepted`), and reading and sending back loses
  nothing it does not name (`...Resend`). A number that fits its type comes back as
  it was (`Narrowed`, `LimitRead`); of one that does not the remainder comes back,
  and whether `Validate` takes it is a fact about the remainder. The hardest are those where several
  settings share a parameter: the addresses of cloud-init (`CloudIpsExact`), the
  snippets, the type of the processor with its flags (`CpuTypeExact`,
  `CpuTypeBack`). That a set of processors is the same set after it was written
  as ranges and read again (`AffinityBack`) needs that a bounded set of numbers
  has a smallest and a largest element, which follows from the library's
  well-founded order on the numbers.

Every `IInv` was checked by TLC on the constants of its run before it was
proved. In `QemuUpdate` the theorems are about `Spec`; the run checks them, and
`Converges`, under `FairSpec`, whose behaviours are among those of `Spec`.

The proofs use only the assumptions the modules state, which TLC evaluates on
every run: `TaskCallAssumption`, `GroupMembershipAssumption`,
`HaResourceAssumption`, `ClientCacheAssumption`, `QemuCreateAssumption`,
`PoolMembershipAssumption`, `QemuUpdateAssumption`, `QemuDisksAssumption`, and
those of `ConfigItems` and `QemuSettings`. The first eight say which sets the
constants are from, that "none" is no element, that the versions of a server are
numbers, and that an item of an update is of one class: a disk that is moved and
grown in one update is two items, one for each request, as in the code.
`QemuDisksAssumption` says besides that a server is in order when an update
begins: each disk on a volume of its own, and no more than one cloud-init drive,
which `Validate` and the server see to. `ConfigItems` has six assumptions, in the
modules it extends too: an object and an item have the fields of their structs
with values from the texts `Strings` and the numbers, the server keeps no empty
parameter, the texts the source compares with are among them, and Nil is no
value. Those of `QemuSettings` are alike (`QemuSettingsAssumption`,
`NilAssumption`, `OptionalAssumption`, `QemuMemoryAssumption`,
`QemuCpuAssumption`, `CloudInitAssumption`, `QemuDevicesAssumption`): what is
asked for is an object of the struct's type, whether `Validate` takes it or not,
and what a guest has is what the server accepts. Of a guest they say that it has
memory and no minimum above it, that ranges of processors run upwards, that an
interface with DHCP or SLAAC has no gateway, that tags do not repeat, and that
`ciupgrade` came with version 8; of the table of processors that it has the
type to which a spelling it does not list (lower case, no hyphens) leads, and that
the largest limit `Validate` takes fits its eight bits.

Only model-checked:

- all liveness (`EveryCallReturns`, `Converges`, `EveryCreateReturns`), which is
  out of the prover's reach.

The invariants `TypeOK` of the modules with proofs are proved there whether or
not a run lists them.

## What is not modelled

- How a value is written (separators, encodings, the order of a list): a
  parameter is the record of what is in it. A change of a parameter is an
  *option* of `QemuUpdate`, and the settings of a disk are one value in
  `QemuDisks`.
- Of the settings: unused disks, the fields of a network device besides its
  model, bridge, firewall and address, what the guest agent reports, and the
  fields of a container.
- Of the items: the server's distinction between a pending and a running SDN
  configuration (`ApplySDN`), the decoding of the data of an ACME plugin, and
  fields that are mapped like one that is there (`PROJECT.json` names them).
- Linked clones: their volumes have a base, which `formatDisk` names as long as
  the disk is not moved.
- Sizes that a storage rounds: `QemuDisks` takes the size a server reports to be
  the one it was asked for.
- The migration inside `setAdvanced` (`config_qemu.go:661-669`): `Update` cannot
  reach it, because `setVmr` and `mapToStruct` set both nodes to `vmr.node`.
- `NewConfigQemuFromApi` ends the process when the configuration cannot be read
  (`log.Fatal`); a failing read is an error in `QemuUpdate`, after which there
  may or may not be a retry.
- Deprecated calls (`UpdateVMPool`, `CreateNewDisk` and others), which other
  operations replace.
- Components with one request per operation: there is nothing between requests.

## Plan

1. **Core** (done): task layer, guest update, disk slots, creation, groups,
   pools, the client's caches, HA resources.
2. **Extend** (done): the settings of a guest, storages, metric servers, ACME
   plugins and SDN, and the abstract specifications `AsyncOperation`,
   `Reconfiguration`, `GuestRegistry` and `AttachedDisks`. Left: linked clones and
   the TPM's own volume in `QemuDisks`; the fields of a container.
3. **Prove** (done): every safety invariant and action property that a run
   checks, of every module with state, and all five refinements.
