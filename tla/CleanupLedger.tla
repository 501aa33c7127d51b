--------------------------- MODULE CleanupLedger ---------------------------
(***************************************************************************)
(* The deferred-cleanup protocol of one scenario test instance            *)
(* (tempest/scenario/manager.py, ScenarioTest) and the remote cloud it    *)
(* acts on.  The factories that feed it live in ComputeScenario,          *)
(* NetworkScenario and SwiftScenario.                                      *)
(*                                                                         *)
(* setUp registers _wait_for_cleanups first.  The test body then calls    *)
(* factories; each creates a remote resource and registers its teardown   *)
(* on the unittest cleanup stack (self._cleanups) and, for asynchronous   *)
(* deletes, a wait descriptor on self.cleanup_waits.  Teardown (unittest  *)
(* doCleanups) pops the stack LIFO, records an error for each cleanup     *)
(* that raises and carries on; _wait_for_cleanups runs last and waits on  *)
(* the descriptors in registration order.                                 *)
(*                                                                         *)
(* The cloud: deletes of servers and volumes are asynchronous            *)
(* (active -> deleting -> gone), the others synchronous, but for a Swift  *)
(* object: it leaves the object server at once, yet its container's       *)
(* database lists it ("deleting") until the container updater runs, and   *)
(* the container's listing and its DELETE are answered from that          *)
(* database.  A delete is                                                  *)
(* refused while another present resource holds the target, except       *)
(* where the service deletes the holder with it (a network its            *)
(* unattached subnets, a security group its rules, a pool its members,    *)
(* a volume type its encryption spec, which no call reaches after).       *)
(***************************************************************************)
EXTENDS Naturals, Sequences, SequencesExt, FiniteSets

CONSTANTS
  Res,    \* identifiers the remote services may hand out
  NoRes   \* the absent identifier

ASSUME NoRes \notin Res

VARIABLES
  cloud,       \* remote state of each identifier
  kind,        \* resource type behind each identifier
  uses,        \* resources each one holds (port, address, attachment, ...)
  ledger,      \* self._cleanups: the unittest cleanup stack, top = Last
  waits,       \* self.cleanup_waits: wait descriptors, registration order
  current,     \* the blocking cleanup entry being executed, or NoEntry
  drainIdx,    \* index of the descriptor _wait_for_cleanups is blocked on
  phase,       \* "setup" | "body" | "teardown" | "done"
  bodyFailed,  \* the test method raised
  errors       \* errors unittest recorded while running cleanups

vars == <<cloud, kind, uses, ledger, waits, current, drainIdx, phase,
          bodyFailed, errors>>

States     == {"none", "active", "deleting", "gone"}
Kinds      == {"none", "keypair", "server", "volume", "image", "secgroup",
               "rule", "floatingip", "network", "subnet", "router", "port",
               "pool", "member", "vip", "container", "object", "volumetype",
               "encryption"}
AsyncKinds == {"server", "volume", "object"}
Ops        == {"delete", "rawdelete", "wait", "drain", "none"}
ErrKinds   == {"notfound", "conflict", "timeout"}

(***************************************************************************)
(* A cleanup registration: delete_wrapper(delete_X, id) ("delete"), a    *)
(* bare client delete ("rawdelete"), a deletion waiter ("wait") or        *)
(* _wait_for_cleanups ("drain").                                           *)
(***************************************************************************)
Entry(op, r) == [op |-> op, r |-> r]
Del(r)       == Entry("delete", r)
RawDel(r)    == Entry("rawdelete", r)
Waiter(r)    == Entry("wait", r)
NoEntry      == Entry("none", NoRes)
Entries      == [op : Ops, r : Res \cup {NoRes}]

(***************************************************************************)
(* Remote service semantics.                                               *)
(***************************************************************************)
Fresh(r)   == cloud[r] = "none"
Live(k)    == {x \in Res : kind[x] = k /\ cloud[x] = "active"}
Present(x) == cloud[x] \in {"active", "deleting"}

\* Deleting r also deletes x, which holds r.
Cascades(r, x) ==
  \/ /\ kind[r] = "network" /\ kind[x] = "subnet"
     /\ \A y \in uses[x] : kind[y] # "router"
  \/ kind[r] = "secgroup" /\ kind[x] = "rule"
  \/ kind[r] = "pool" /\ kind[x] = "member"
  \/ kind[r] = "volumetype" /\ kind[x] = "encryption"

\* Another present resource holds r, or r is a subnet with an interface
\* on a router (a port the router owns has an address on it).
InUseIn(r, u) ==
  \/ \E x \in Res : r \in u[x] /\ Present(x) /\ ~Cascades(r, x)
  \/ kind[r] = "subnet" /\ \E y \in u[r] : kind[y] = "router" /\ Present(y)

InUse(r) == InUseIn(r, uses)

\* An accepted delete call.
AcceptDelete(r) ==
  cloud' = [x \in Res |->
              IF x = r THEN (IF kind[r] \in AsyncKinds THEN "deleting" ELSE "gone")
              ELSE IF r \in uses[x] /\ Present(x) /\ Cascades(r, x) THEN "gone"
              ELSE cloud[x]]

\* The cloud finishes an asynchronous delete.
CloudFinishesDelete(r) ==
  /\ cloud[r] = "deleting"
  /\ cloud' = [cloud EXCEPT ![r] = "gone"]
  /\ UNCHANGED <<kind, uses, ledger, waits, current, drainIdx, phase,
                 bodyFailed, errors>>

(***************************************************************************)
(* setUp, the test body and the shape of a factory.                       *)
(***************************************************************************)
\* ScenarioTest.setUp: empty cleanup_waits, register _wait_for_cleanups.
SetUp ==
  /\ phase = "setup"
  /\ ledger' = Append(ledger, Entry("drain", NoRes))
  /\ waits' = <<>>
  /\ phase' = "body"
  /\ UNCHANGED <<cloud, kind, uses, current, drainIdx, bodyFailed, errors>>

\* The helper returns (fail = FALSE) or raises, ending the test body.
Return(fail) ==
  /\ phase' = IF fail THEN "teardown" ELSE "body"
  /\ bodyFailed' = fail

\* The test method ends, by returning or by raising outside the factory
\* steps (a create call that raises creates nothing).
TestBodyEnds(fail) ==
  /\ phase = "body"
  /\ phase' = "teardown"
  /\ bodyFailed' = fail
  /\ UNCHANGED <<cloud, kind, uses, ledger, waits, current, drainIdx, errors>>

\* A factory call: the create call makes r of kind k holding u, then the
\* cleanups es and the wait descriptors ds are registered, then the
\* helper returns or raises.
Factory(r, k, u, es, ds, fail) ==
  /\ phase = "body" /\ Fresh(r)
  /\ cloud' = [cloud EXCEPT ![r] = "active"]
  /\ kind' = [kind EXCEPT ![r] = k]
  /\ uses' = [uses EXCEPT ![r] = u]
  /\ ledger' = ledger \o es
  /\ waits' = waits \o ds
  /\ Return(fail)
  /\ UNCHANGED <<current, drainIdx, errors>>

\* A body step that changes what live resource x holds, then returns or
\* raises.
Rewire(x, u, fail) ==
  /\ phase = "body"
  /\ uses' = [uses EXCEPT ![x] = u]
  /\ Return(fail)
  /\ UNCHANGED <<cloud, kind, ledger, waits, current, drainIdx, errors>>

(***************************************************************************)
(* Teardown: unittest doCleanups pops self._cleanups until it is empty.   *)
(***************************************************************************)
Top  == Last(ledger)
Idle == phase = "teardown" /\ current = NoEntry

\* Pop a delete entry and call it.  delete_wrapper swallows NotFound; the
\* raw client delete does not; a refusal as in use propagates from both.
\* A subnet's delete (DeletableSubnet.delete) first removes it from its
\* routers.
RunDelete ==
  LET r == Top.r
      detached == IF kind[r] = "subnet" /\ cloud[r] # "gone"
                  THEN [uses EXCEPT ![r] = {x \in @ : kind[x] # "router"}]
                  ELSE uses
  IN
  /\ Idle /\ ledger # <<>> /\ Top.op \in {"delete", "rawdelete"}
  /\ ledger' = Front(ledger)
  /\ uses' = detached
  /\ \/ /\ cloud[r] = "gone"
        /\ errors' = IF Top.op = "delete" THEN errors
                     ELSE errors \cup {[err |-> "notfound", r |-> r]}
        /\ UNCHANGED cloud
     \/ /\ cloud[r] # "gone" /\ InUseIn(r, detached)
        /\ errors' = errors \cup {[err |-> "conflict", r |-> r]}
        /\ UNCHANGED cloud
     \/ /\ cloud[r] # "gone" /\ ~InUseIn(r, detached)
        /\ AcceptDelete(r)
        /\ UNCHANGED errors
  /\ UNCHANGED <<kind, waits, current, drainIdx, phase, bodyFailed>>

\* Pop a blocking cleanup: a deletion waiter or _wait_for_cleanups.
StartBlocking ==
  /\ Idle /\ ledger # <<>> /\ Top.op \in {"wait", "drain"}
  /\ ledger' = Front(ledger)
  /\ current' = Top
  /\ drainIdx' = 1
  /\ UNCHANGED <<cloud, kind, uses, waits, phase, bodyFailed, errors>>

\* Mutant: a waiter that polls until the resource is gone, with no deadline.
AwaitNoTimeout(r, onDone) == cloud[r] = "gone" /\ onDone /\ UNCHANGED errors

\* A deletion waiter polls until the resource is not found, or raises
\* TimeoutException.
Await(r, onDone) ==
  \/ cloud[r] = "gone" /\ onDone /\ UNCHANGED errors
  \/ cloud[r] # "gone"
     /\ errors' = errors \cup {[err |-> "timeout", r |-> r]}
     /\ current' = NoEntry /\ UNCHANGED drainIdx

WaitStep ==
  /\ phase = "teardown" /\ current.op = "wait"
  /\ Await(current.r, current' = NoEntry /\ UNCHANGED drainIdx)
  /\ UNCHANGED <<cloud, kind, uses, ledger, waits, phase, bodyFailed>>

\* Mutant: the loop stops before the last descriptor.
DrainStepShort ==
  /\ phase = "teardown" /\ current.op = "drain"
  /\ \/ /\ drainIdx < Len(waits)
        /\ Await(waits[drainIdx],
                 drainIdx' = drainIdx + 1 /\ UNCHANGED current)
     \/ /\ drainIdx >= Len(waits)
        /\ current' = NoEntry
        /\ UNCHANGED <<drainIdx, errors>>
  /\ UNCHANGED <<cloud, kind, uses, ledger, waits, phase, bodyFailed>>

\* _wait_for_cleanups: for each descriptor in order call its waiter; a
\* waiter that raises ends the loop.
DrainStep ==
  /\ phase = "teardown" /\ current.op = "drain"
  /\ \/ /\ drainIdx <= Len(waits)
        /\ Await(waits[drainIdx],
                 drainIdx' = drainIdx + 1 /\ UNCHANGED current)
     \/ /\ drainIdx > Len(waits)
        /\ current' = NoEntry
        /\ UNCHANGED <<drainIdx, errors>>
  /\ UNCHANGED <<cloud, kind, uses, ledger, waits, phase, bodyFailed>>

TeardownDone ==
  /\ Idle /\ ledger = <<>>
  /\ phase' = "done"
  /\ UNCHANGED <<cloud, kind, uses, ledger, waits, current, drainIdx,
                 bodyFailed, errors>>

Init ==
  /\ cloud = [r \in Res |-> "none"]
  /\ kind = [r \in Res |-> "none"]
  /\ uses = [r \in Res |-> {}]
  /\ ledger = <<>>
  /\ waits = <<>>
  /\ current = NoEntry
  /\ drainIdx = 1
  /\ phase = "setup"
  /\ bodyFailed = FALSE
  /\ errors = {}

Teardown == RunDelete \/ StartBlocking \/ WaitStep \/ DrainStep \/ TeardownDone

\* doCleanups is one thread that keeps running the cleanups until the
\* stack is empty, and the cloud eventually completes a delete it accepted.
LedgerFairness ==
  /\ WF_vars(Teardown)
  /\ \A r \in Res : WF_vars(CloudFinishesDelete(r))

\* Everything but the factories.
LedgerNext ==
  \/ SetUp
  \/ \E fail \in BOOLEAN : TestBodyEnds(fail)
  \/ Teardown
  \/ \E r \in Res : CloudFinishesDelete(r)

(***************************************************************************)
(* Properties.                                                             *)
(***************************************************************************)
TypeOK ==
  /\ cloud \in [Res -> States]
  /\ kind \in [Res -> Kinds]
  /\ uses \in [Res -> SUBSET Res]
  /\ ledger \in Seq(Entries)
  /\ waits \in Seq(Res)
  /\ current \in Entries
  /\ drainIdx \in 1..(Len(waits) + 1)
  /\ phase \in {"setup", "body", "teardown", "done"}
  /\ bodyFailed \in BOOLEAN
  /\ errors \subseteq [err : ErrKinds, r : Res]

\* A deletion waiter, whether a wait_on_delete cleanup or a descriptor that
\* _wait_for_cleanups is blocked on, never runs while the delete of its
\* resource is still pending on the cleanup stack: it would wait for a
\* deletion nobody asked for and can only time out.  This rests on the
\* factories registering the waiter before the delete (LIFO runs it
\* after) and on setUp registering _wait_for_cleanups before any factory.
PendingDelete(r, l) ==
  \E i \in 1..Len(l) : l[i].r = r /\ l[i].op \in {"delete", "rawdelete"}

WaitOnlyAfterDelete ==
  /\ current.op = "wait" => ~PendingDelete(current.r, ledger)
  /\ (current.op = "drain" /\ drainIdx <= Len(waits))
        => ~PendingDelete(waits[drainIdx], ledger)

\* A test whose body passed and whose cleanups all succeeded leaves nothing
\* in the cloud, not even a resource still being deleted: every async
\* delete was waited on.
CleanTeardown ==
  (phase = "done" /\ ~bodyFailed /\ errors = {})
    => \A r \in Res : cloud[r] \in {"none", "gone"}

\* A test that ends with a resource still being deleted, whatever its body
\* did, recorded a deletion timeout: _wait_for_cleanups waits on every
\* descriptor in order and gives up on the rest only after one raised.
\* The cloud may take any time to finish a delete, so only a waiter that
\* ran, on every async delete, keeps a resource from being left behind.
LeftDeletingOnlyAfterTimeout ==
  phase = "done"
    => \/ \A r \in Res : cloud[r] # "deleting"
       \/ \E e \in errors : e.err = "timeout"

\* No cleanup delete is refused because a resource still holds its target,
\* unless a deletion wait timed out first: LIFO order, and waiting for
\* async deletes before the parents are torn down, see to it.
NoConflictUnlessTimeout ==
  (\E e \in errors : e.err = "conflict") => (\E e \in errors : e.err = "timeout")

\* No cleanup fails because its resource is already gone: whatever the
\* test body deleted itself (delete_container, delete_object) or the
\* service removed or is still removing, the cleanup registered for it
\* goes through delete_wrapper, which swallows NotFound.
NotFoundAbsorbed == \A e \in errors : e.err # "notfound"

\* When the test body ends, by returning or by raising, every resource it
\* created that is still live has a delete registered on the cleanup
\* stack: spec section 7 says registration precedes creation-time
\* assertions so that partial resources are still cleaned up.
RegisteredOnExit ==
  [][(phase = "body" /\ phase' = "teardown")
       => \A r \in Res : cloud'[r] = "active" => PendingDelete(r, ledger')]_vars

\* Teardown always finishes: every cleanup returns or raises, and every
\* deletion waiter, including those _wait_for_cleanups calls, returns or
\* times out, even when the delete it waits for was refused.
TeardownCompletes == phase = "teardown" ~> phase = "done"

=============================================================================
