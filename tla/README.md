# TLA+ models of the tempest scenario harness

These modules model the resource lifecycle and cleanup protocol of
`src/tempest/scenario/manager.py`, and they are checked with TLC. A scenario
test creates remote resources through factory helpers. Each helper registers
the resource's teardown on the unittest cleanup stack. At the end of the test
the stack is unwound in LIFO order, and the asynchronous deletions are then
waited on. The code does this correctly when it meets two conditions:

- every resource the test made is deleted, and no delete is refused because
  something still depends on its target;
- the harness never waits for a deletion that nobody started, and teardown
  always ends.

## The system and how its parts interact

| Part | Code | Role |
|---|---|---|
| Cleanup ledger | `ScenarioTest.setUp`, `delete_wrapper`, `addCleanup_with_wait`, `_wait_for_cleanups` (manager.py 99-160) plus unittest `doCleanups` | `self._cleanups` is a LIFO stack. `self.cleanup_waits` is a list of wait descriptors, drained in registration order by `_wait_for_cleanups`. setUp registers `_wait_for_cleanups` first, so it runs last. `delete_wrapper` swallows NotFound. `doCleanups` records an error for each cleanup that raises and continues with the next one. |
| Factories | `create_keypair`, `create_server`, `create_volume`, `_image_create`, `create_server_snapshot`, `nova_volume_attach/detach`, `rebuild_server`, `create_volume_type`, `create_encryption_type`, nova and neutron floating IPs and security groups, `_create_network/_subnet/_router/_port`, `create_networks`, pool/member/vip, Swift containers and objects | Each factory makes a remote create call, registers cleanups (synchronous, or deletion plus a waiter) and then often asserts on the response or waits for readiness. The order of those calls decides what teardown sees. |
| Remote services | outside the repository | Servers and volumes are deleted asynchronously (deleting, then gone). Other resources are deleted synchronously. A service refuses to delete a resource that another present resource still holds, except where it cascades: a network takes its unattached subnets, a security group its rules, a pool its members, a volume type its encryption spec. The volume service refuses to delete a volume type while a volume of that type exists. |
| Bare-metal boot | `BaremetalScenarioTest` (manager.py 1060-1166) | `boot_instance` creates a server without waiting, then runs a chain of polling waits: node association, power on, provisioning in {wait call-back, active} (15 s), provisioning active, server ACTIVE. `terminate_instance` deletes the server and waits for power off and NOSTATE. Each wait is a `call_until_true` loop with its own deadline. |
| Connectivity checks | `ping_ip_address`, `check_vm_connectivity`, `check_public_network_connectivity`, `get_remote_client`, `_log_console_output`, `_log_net_info` (manager.py 300-506), `check_floating_ip_status`, `_check_tenant_network_connectivity`, `_check_remote_connectivity` (692-760) | The checks ping an address in a `call_until_true` loop until the ping's outcome matches `should_connect`. A positive check then opens an ssh session. The tenant check does this for every address of a server. The remote check pings over an ssh session from another server and returns the poll's result. The floating-IP check polls the IP's status and asserts on it. On any failure the public and tenant checks log the console output and network debug information, then re-raise. |
| Polling primitive | `tempest.test.call_until_true`, outside `src/` | The check is called until it returns True or the timeout passes. It sleeps one interval between calls (spec §4.1). |
| Subnet allocation | `_create_subnet` loop (582-629) | Walks the CIDR blocks. For each block it calls `cidr_in_use`, then `create_subnet`. An overlap Conflict moves it to the next block, and running out of blocks fails the assertion. Several test workers run it against one network service. |

The test body calls the factories, and teardown unwinds what they
registered. The cloud's in-use rules make the order of the deletes matter.

## Modules

- **CleanupLedger.tla** is the core. It holds the cleanup stack and the
  shared cloud semantics.
  - Variables:
    - `cloud` is the remote state of each identifier.
    - `kind` is the type of each resource.
    - `uses` is what each resource holds: a port, an attachment, a rule's
      group, a member's pool.
    - `ledger` is `self._cleanups`.
    - `waits` is `self.cleanup_waits`.
    - `current` and `drainIdx` record the blocking cleanup that is running.
    - `phase`, `bodyFailed` and `errors` record the outcome. `errors` is
      the set of errors `doCleanups` recorded.
  - `Factory(r, k, u, es, ds, fail)` is the common shape of a factory
    action. It performs the create, registers the cleanups `es` and the
    descriptors `ds`, and then the helper returns or raises.
  - `RunDelete` is one popped delete, through `delete_wrapper` or a raw
    client call. It covers `DeletableSubnet.delete` detaching the subnet
    from its routers first.
  - `StartBlocking`, `WaitStep` and `DrainStep` run a deletion waiter or
    `_wait_for_cleanups`, which stops at the first waiter that raises.
  - The cloud's side is `AcceptDelete`, `InUse` and `CloudFinishesDelete`.
- **ComputeScenario.tla** extends CleanupLedger with the compute, volume and
  image factories, the volume attach and detach, `rebuild_server` and
  `terminate_instance`.
  - It also holds the encryption helpers. `CreateVolumeType` asserts
    before it registers a raw delete. `CreateEncryptionType` makes its
    volume type on demand and registers nothing for the encryption spec.
    A volume may be created with a test's volume type (`VolumeHolds`).
  - Teardown of the encryption spec rests on two things. Deleting the
    volume type takes the spec with it, because the volume service
    soft-deletes the type and no call reaches its spec afterwards; this
    part is modelled from the service, not from the code. LIFO order also
    runs the type's delete after every volume of that type is gone.
  - Constants `ServerWaitOnDelete` and `VolumeWaitOnDelete` give the
    `wait_on_delete` values the tests use.
  - `ComputeFairSpec` adds `LedgerFairness` for the liveness run.
- **NetworkScenario.tla** extends ComputeScenario with the neutron factories,
  and with servers booted on the test's networks and security groups.
  - `CreateNetworks` follows `create_networks` and `_get_router` stage by
    stage.
  - `PublicRouter` chooses between a configured public router and a tenant
    router.
  - `EarlyChecksFail` decides whether the assertions made before
    `addCleanup` may fail.
- **SwiftScenario.tla** extends CleanupLedger with containers, objects, the
  deletes the test body makes and the listing checks. Swift's container
  database lags behind object deletes: a deleted object stays `deleting`
  (still listed) until the container updater runs, which is the ledger's
  `CloudFinishesDelete`. While it is listed, the container's DELETE is
  refused with 409 and a listing check that it is gone fails.
- **BaremetalBoot.tla** models `boot_instance` and `terminate_instance`
  against one Ironic node.
  - The test side is `CreateServer`, `Poll` (one poll of the running wait,
    with its budget of polls), `GetNode` and `StartTerminateWaits`. `Target`
    and `After` give each wait's condition and successor. `Enter` raises
    TypeError when a wait on the node has a None `self.node`.
  - The node side (`Associate`, `StartDeploy`, `PowerOn`, `AwaitCallback`,
    `Callback`, `DeployDone`, `DeployFails`, `ServerActive`, `ServerFails`,
    `Unprovision`, `TearDownPowerOff`, `TearDownDone`) is Ironic and the
    compute driver. It lives outside the repository and is modelled from
    spec §4.6.
  - `CallbackRedeploys` says whether the node goes back to 'deploying'
    after the ramdisk calls back. `CleanupDisassociates` says whether the
    cleanup of a failed deploy clears the node's instance_uuid.
- **PollBudget.tla** is the contract of `call_until_true`, with time
  abstracted away. `Begin` starts a poll. `Call` is one predicate call, of
  which there are at most `Budget`, and a True answer ends the poll.
  `CallRaises` is a call whose exception leaves the poll. `GiveUp` returns
  False, and only after at least one call. A new poll may `Begin` once the
  previous one returned.
- **Connectivity.tla** models the four connectivity checks. In one
  behaviour the test calls one of them (`entry`) against a server whose
  addresses are `Addrs`.
  - Time is the variable `clock`, counted in half seconds.
  - The entry actions:
    - `CheckVm(a, sc)` is `check_public_network_connectivity` on address
      `a`, with `should_connect = sc`.
    - `CheckTenant(sc)` is `_check_tenant_network_connectivity`. It is
      skipped unless `TenantReachable`, and otherwise checks the addresses
      one after another (`todo`, `NextAddress`).
    - `CheckRemote(a, sc)` is `_check_remote_connectivity`.
    - `CheckFipStatus(st)` is `check_floating_ip_status`.

    Each entry starts a poll (`BeginPoll`).
  - The `call_until_true` steps:
    - `Loop` is the `while now < timeout` test.
    - `Ping` is one ping. A ping that gets a reply takes up to the
      one-second deadline, and one that gets none takes all of it. The
      remote check's `ping_remote` has the same outcome.
    - `PingHostRaises` is an ssh failure other than
      `SSHExecCommandFailed`, which escapes the poll (`SshDrops`).
    - `Refresh` is the floating IP's refresh.
    - `Sleep` advances the clock by one interval.
  - After the poll:
    - `AssertReachability` is the `assertTrue`, and `Ssh` is
      `get_remote_client`.
    - `ReturnResult` ends the remote check, and `AssertFipStatus` ends the
      floating-IP check.
    - `Diagnose` is the except handler. Its `_log_console_output` may
      raise (`ConsoleFails`) unless console output is disabled
      (`ConsoleEnabled`).
  - The network side: `Flip` changes whether one address answers, or the
    floating IP's status, at most `MaxFlips` times in all. With `Lossy`, a
    ping to a reachable address may go unanswered.
  - `Poll == INSTANCE PollBudget WITH ...` maps the check onto the
    contract. The mapped state is `PollState`, and the budget is the
    number of intervals in the timeout.
    Every poll of every check maps onto the contract, including each poll
    of the tenant loop. `MCConnectivity.tla` defines
    `PollBudgetSpec == Poll!Spec`, which the run checks as a property.
- **SubnetAllocation.tla** models the CIDR loop of `_create_subnet` for
  concurrent workers.
  - One worker's call goes through `Start`, then `Check` (a `cidr_in_use`
    turn), then `Create` (the `create_subnet` outcome).
  - `SharedTenant` says whether workers share a tenant.
  - `OverlapScope` says whether the service rejects overlaps per network or
    across the deployment.
- **MC\*.tla** modules fix the identifiers as model values. The passing
  safety runs use a symmetry set.

Each factory is one atomic step: the create call, what the factory
registers, and whether the helper then returns or raises. Within one test
nothing runs concurrently (spec §5), so the interleaving that matters is
between the test's steps and the cloud completing asynchronous deletes. That
interleaving is modelled by `CloudFinishesDelete`. A create call that raises
creates nothing, so it is the same step as `TestBodyEnds(TRUE)`. A timeout is
a nondeterministic choice: a waiter may give up whenever its resource is not
yet gone.

## Runs

| Run | cfg | Expect | Properties | What it shows |
|---|---|---|---|---|
| compute_cleanup | MCComputeScenarioLive.cfg | pass | TypeOK, WaitOnlyAfterDelete, CleanTeardown, LeftDeletingOnlyAfterTimeout, TeardownCompletes | No waiter runs while its delete is still pending. A passing test whose cleanups succeed leaves nothing, not even a resource still deleting. Teardown ends even when deletes are refused and waiters can only time out. |
| compute_attach_leak | MCComputeScenarioAttach.cfg | violation | NoConflictUnlessTimeout | `nova_volume_attach` registers no detach. A volume created after its server is deleted while still attached. |
| network_cleanup | MCNetworkScenario.cfg | pass | NoConflictUnlessTimeout, CleanTeardown | With synchronous server deletes and the early assertions passing, LIFO teardown of the neutron resources is never refused. |
| network_register_after_assert | MCNetworkScenarioRegistered.cfg | violation | RegisteredOnExit | An assertion made before `addCleanup` leaks the resource. Swift's `create_container` has the same flaw, because it lists the container before registering it (`CreateContainer`). |
| network_async_server | MCNetworkScenarioAsyncServer.cfg | violation | NoConflictUnlessTimeout | A server created with `wait_on_delete=False` still holds its network when LIFO deletes that network. |
| swift_cleanup | MCSwiftScenario.cfg | pass | NotFoundAbsorbed, CleanTeardown | Cleanups of containers and objects the body already deleted are absorbed, and a passing test whose cleanups succeed leaves nothing, over a lagging container database. |
| baremetal_boot | MCBaremetalBoot.cfg | pass | TypeOK, BootEnds | The boot and terminate sequence always ends, however the node stalls or fails, and no wait polls past its budget. |
| baremetal_none_node | MCBaremetalBootNoneNode.cfg | violation | FailsWithStageTimeout | If a failed deploy frees the node between `wait_node` and `get_node`, boot fails with TypeError rather than a stage timeout (spec §4.6). |
| connectivity_check | MCConnectivity.cfg | pass | WallTimeBound, CheckedEveryAddress, PollBudgetSpec, CheckEnds | Every poll of the public, tenant, remote and floating-IP checks implements the `call_until_true` contract (a refinement of PollBudget). Each poll ends within its timeout plus one interval and one ping deadline. A passing tenant check checked every address. Every check ends, even when the network flips and pings are lost. |
| connectivity_diag_masks | MCConnectivityDiagnostics.cfg | violation | OriginalErrorPropagates | When `get_console_output` fails in the except handler, its error replaces the check's own assertion or SSH timeout, against spec §4.5. |
| subnet_overlap_retry | MCSubnetAllocationOverlap.cfg | pass | ExhaustedOnlyWhenFull, CallsReturn | Exhaustion is reported only when the blocks are really taken, and every call returns. |
| subnet_shared_tenant | MCSubnetAllocationShared.cfg | violation | UniqueBlockPerTenant | The check-then-create race between two workers of one tenant. |

For every property of a passing run, `PROJECT.json` lists a mutant of the
code that TLC finds breaking it. Examples: a volume waiter registered after
its delete, a forgotten descriptor or `addCleanup`, a waiter with no
deadline, an off-by-one in the CIDR loop, and an overlap retry of the same
block.

### Properties

- `WaitOnlyAfterDelete` relates the waiter being run to the rest of the
  stack. It holds only because each factory registers its waiter before its
  delete, and because setUp registers the drain before any factory.
- `CleanTeardown`: if the body passed and no cleanup raised, then no resource
  is active or still deleting. In the compute run this includes the encryption spec, which has no cleanup of its own.
- `NoConflictUnlessTimeout`: a delete is refused as in use only if some
  deletion wait had already timed out. It is not checked on Swift: there
  the container's DELETE can be refused by a container database that
  still lists an object the cleanup just deleted, which no code of the
  test can prevent (TLC finds this within a few steps).
- `NotFoundAbsorbed`: no cleanup fails with NotFound. Every cleanup of a
  resource the body may delete itself goes through `delete_wrapper`.
- `RegisteredOnExit` is an action property. When the body ends, every live
  resource has a delete still on the stack, as spec §7 requires.
- `TeardownCompletes` is checked under `LedgerFairness`. That is weak
  fairness of the teardown steps, because `doCleanups` is one thread that
  keeps going, and of the cloud finishing a delete it accepted.
- `LeftDeletingOnlyAfterTimeout`: a test may end with a resource still
  being deleted, but only if some deletion wait timed out. This holds
  whether the body passed or not. `_wait_for_cleanups` gives up on the
  remaining descriptors after the first waiter raises (manager.py 160), and
  this property says that is the only way a deletion goes unwaited.
- `WallTimeBound`: the poll of `ping_ip_address` ends at most
  `PingTimeout + Interval + PingDeadline` after it started. Spec §8 states
  T + I. That bound only holds for a predicate that takes no time, and
  each ping may take its full one-second deadline.
- `CheckedEveryAddress`: a tenant check that passed ran a full check
  (poll, and ssh when positive) on every address of the server, each
  with its own deadline.
- `PollBudgetSpec`: the refinement. Every poll makes at least one ping and
  at most as many as the timeout allows.
- `CheckEnds` is checked under weak fairness of the check's steps only. The
  network gets none: it may flip at the worst moments and lose every ping.
- `OriginalErrorPropagates`: the error leaving the check is the check's own
  (spec §4.5).
- `FailsWithStageTimeout`: a failed boot raised a timeout, as spec §4.6
  says.
- `BootEnds` is checked under weak fairness of the test's steps only. Each
  step is straight-line code, and each wait has a deadline. The node gets no
  fairness, because a stalled node is exactly the case the deadlines are
  for.
- `UniqueBlockPerTenant`, `ExhaustedOnlyWhenFull` and `CallsReturn` state
  what spec §8 says of subnet allocation. `CallsReturn` is checked under
  weak fairness of each worker's loop steps, since the loop is straight-line
  code.

## Bounds

- **Compute: three identifiers** in the passing run. That is enough for a
  server, a volume attached to it and a snapshot, or a security group with
  its rules and a server in it. The run has no symmetry, because it also
  checks liveness. The attach violation run uses four identifiers, with
  symmetry.
- **Network: four identifiers.** `create_networks` takes three, which leaves
  one for a server, port, pool or floating IP on them. A standalone network
  and subnet leave two.
- **Swift: three identifiers.** That is a container with two objects, or two
  containers and an object.
- **Bare metal:** two polls for the 15 s wait and three for the others.
  That is enough for a node to change state between two polls of one wait,
  and for a wait to run out. The node may take any number of steps between
  polls.
- **Connectivity:** two addresses, a timeout of 3 s (6 half seconds), a
  1 s interval and a 1 s ping deadline.
  - That allows three pings per poll: enough for the network to flip twice
    within one poll, and for the poll to run out.
  - Two addresses are enough for the tenant loop to pass one address and
    meet a change on the next.
  - Both `should_connect` values and both wanted floating-IP statuses are
    explored. Each address and the floating IP start in either state.
- **Subnet allocation:** two workers, two blocks, and up to two calls per
  worker. That is enough to fill every block,
  to make a worker run off the end, and to race two workers on one block.

Every failure outcome is enumerated at each factory. So the bounds limit how
many resources exist, not which orders or failures occur.

## What is not modelled, and why

- **Swift, `change_container_acl` and `download_and_verify`:** the first
  writes the container's ACL metadata, which no property tells apart (its
  failure is a body that raises); the second only reads.
- **Bare metal, read-only calls:** `get_ports`, `verify_connectivity` and
  the `list_nodes` of `resource_setup` change nothing.
- **Connectivity, abstracted parts.**
  - The floating-IP poll really uses `build_timeout` and `build_interval`.
    It is checked with the same timeout and interval constants as the
    pings.
  - How long `ping_host` takes over ssh belongs to the remote client,
    outside `src/`. It is given the same range as a local ping.
  - `call_until_true` itself lives outside `src/`. It is modelled from
    spec §4.1, as `PollBudget` and the `Loop`, `Ping` and `Sleep` steps.
- **Bare metal, transient provisioning states.** Ironic may move a node
  from 'wait call-back' back to 'deploying' between two polls of the 15 s
  wait. That is behaviour of the bare-metal service, not of this code, so
  the model makes it the constant `CallbackRedeploys`.
- **Encryption, the remaining helpers.** `nova_boot` is `create_keypair`
  followed by `create_server`, both modelled. `_wait_for_volume_status`
  only waits, and if it raises that is `TestBodyEnds(TRUE)`.
- **The rest:**
  - The orchestration helpers (template loading, lookups).
  - The dashboard test (HTML and urllib I/O).
  - The service-type API test (one list call).
  - Client wiring and configuration.

  These change no state that the ledger or the cloud sees.
- **Details abstracted in the models:**
  - Floating IP association. Its only dependency is on the port, which the
    server already holds.
  - The file handle `_image_create` registers for closing.
  - Identifiers, names and payloads. They are model values.
