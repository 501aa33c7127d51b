--------------------------- MODULE BaremetalBoot ---------------------------
(***************************************************************************)
(* BaremetalScenarioTest.boot_instance and terminate_instance              *)
(* (manager.py) against one Ironic node driven by the compute service.     *)
(*                                                                         *)
(* The test creates a server without waiting for boot, then runs a chain   *)
(* of waits, each a call_until_true loop that polls a condition a bounded  *)
(* number of times and raises TimeoutException naming its stage when the   *)
(* polls run out.  Between two polls the node may move any number of       *)
(* steps: the waits sample its state, they do not see every state it       *)
(* passes through.                                                         *)
(***************************************************************************)
EXTENDS Naturals

CONSTANTS
  ShortPolls,           \* polls of the 15 s intermediate provisioning wait
  LongPolls,            \* polls of the association, power, active and unprovision waits
  CallbackRedeploys,    \* after the deploy callback the node re-enters 'deploying'
  CleanupDisassociates  \* a failed deploy's cleanup clears the node's instance_uuid

ASSUME ShortPolls \in Nat \ {0} /\ LongPolls \in Nat \ {0}
ASSUME CallbackRedeploys \in BOOLEAN /\ CleanupDisassociates \in BOOLEAN

VARIABLES
  assoc,   \* the node's instance_uuid is the test's server
  power,   \* BaremetalPowerStates: "off" | "on"
  prov,    \* BaremetalProvisionStates, see ProvStates
  called,  \* the deploy ramdisk has called back
  srv,     \* server status as the compute API reports it
  pc,      \* the step of boot_instance / terminate_instance; where it raised
  polls,   \* polls left in the running wait
  node,    \* self.node: "unset", a node ("node") or None ("none")
  err      \* "none", or what the test raised: "timeout" or "typeerror"

vars     == <<assoc, power, prov, called, srv, pc, polls, node, err>>
nodeVars == <<assoc, power, prov, called, srv>>
testVars == <<pc, polls, node, err>>

\* NOSTATE, DEPLOYING, DEPLOYWAIT, ACTIVE, DEPLOYFAIL, DELETING.
ProvStates == {"none", "deploying", "waitcb", "active", "deployfail", "deleting"}
Waits      == {"wait_node", "wait_power", "wait_prov1", "wait_prov2",
               "wait_server", "wait_off", "wait_nostate"}
Steps      == Waits \cup {"start", "get_node", "get_node2", "deleting", "terminated"}

\* The condition each wait polls for: check_state of _node_state_timeout
\* on the node's power_state or provision_state, _get_node of wait_node,
\* and the server status of wait_for_server_status.
Target(w) ==
  CASE w = "wait_node"    -> assoc
    [] w = "wait_power"   -> power = "on"
    [] w = "wait_prov1"   -> prov \in {"waitcb", "active"}
    [] w = "wait_prov2"   -> prov = "active"
    [] w = "wait_server"  -> srv = "active"
    [] w = "wait_off"     -> power = "off"
    [] w = "wait_nostate" -> prov = "none"

Budget(w) == IF w = "wait_prov1" THEN ShortPolls ELSE LongPolls

\* The step after each wait in boot_instance and terminate_instance.
After(w) ==
  CASE w = "wait_node"    -> "get_node"
    [] w = "wait_power"   -> "wait_prov1"
    [] w = "wait_prov1"   -> "wait_prov2"
    [] w = "wait_prov2"   -> "wait_server"
    [] w = "wait_server"  -> "get_node2"
    [] w = "wait_off"     -> "wait_nostate"
    [] w = "wait_nostate" -> "terminated"

\* Go to step s.  A wait on the node evaluates self.node['uuid'] first,
\* which raises TypeError when get_node returned None.
Enter(s) ==
  IF s \in {"wait_power", "wait_prov1", "wait_prov2", "wait_off", "wait_nostate"}
     /\ node = "none"
  THEN err' = "typeerror" /\ UNCHANGED <<pc, polls>>
  ELSE /\ pc' = s /\ UNCHANGED err
       /\ polls' = IF s \in Waits THEN Budget(s) ELSE polls

(***************************************************************************)
(* The test.                                                               *)
(***************************************************************************)
\* boot_instance: create_server(wait_on_boot=False) leaves the server in
\* BUILD; then wait_node.
CreateServer ==
  /\ pc = "start" /\ err = "none"
  /\ srv' = "build"
  /\ Enter("wait_node")
  /\ UNCHANGED <<assoc, power, prov, called, node>>

\* Mutant: a call_until_true loop without its deadline.
PollForever ==
  /\ pc \in Waits /\ err = "none"
  /\ \/ Target(pc) /\ Enter(After(pc))
     \/ ~Target(pc) /\ UNCHANGED <<pc, polls, err>>
  /\ UNCHANGED <<assoc, power, prov, called, srv, node>>

\* Mutant: the deadline test lets one poll more through.
PollExtra ==
  /\ pc \in Waits /\ err = "none"
  /\ \/ Target(pc) /\ Enter(After(pc))
     \/ ~Target(pc) /\ polls > 0 /\ polls' = polls - 1 /\ UNCHANGED <<pc, err>>
     \/ ~Target(pc) /\ polls = 0 /\ err' = "timeout" /\ UNCHANGED <<pc, polls>>
  /\ UNCHANGED <<assoc, power, prov, called, srv, node>>

\* One poll of the running wait: call_until_true returns True as soon as
\* the check holds; when the deadline passes the caller raises
\* TimeoutException, naming the stage.
Poll ==
  /\ pc \in Waits /\ err = "none"
  /\ \/ Target(pc) /\ Enter(After(pc))
     \/ ~Target(pc) /\ polls > 1 /\ polls' = polls - 1 /\ UNCHANGED <<pc, err>>
     \/ ~Target(pc) /\ polls = 1 /\ err' = "timeout" /\ UNCHANGED <<pc, polls>>
  /\ UNCHANGED <<assoc, power, prov, called, srv, node>>

\* get_node(instance_id=...): show_node_by_instance_uuid, the first node
\* listed, or None when the list is empty.  After wait_node it is stored
\* for the waits on the node, and the power wait's self.node['uuid']
\* raises TypeError on None; after the server wait it is stored again,
\* get_server ends boot_instance, and terminate_instance calls
\* delete_server.
GetNode ==
  /\ pc \in {"get_node", "get_node2"} /\ err = "none"
  /\ node' = IF assoc THEN "node" ELSE "none"
  /\ \/ pc = "get_node" /\ UNCHANGED srv
        /\ IF assoc THEN /\ pc' = "wait_power" /\ polls' = Budget("wait_power")
                         /\ UNCHANGED err
                    ELSE err' = "typeerror" /\ UNCHANGED <<pc, polls>>
     \/ pc = "get_node2" /\ pc' = "deleting" /\ srv' = "deleting"
        /\ UNCHANGED <<polls, err>>
  /\ UNCHANGED <<assoc, power, prov, called>>

\* terminate_instance, after delete_server: the power-off wait.
StartTerminateWaits ==
  /\ pc = "deleting" /\ err = "none"
  /\ Enter("wait_off")
  /\ UNCHANGED <<assoc, power, prov, called, srv, node>>

TestStep == CreateServer \/ Poll \/ GetNode \/ StartTerminateWaits

(***************************************************************************)
(* The node, as Ironic and the compute driver move it.  Nothing here is    *)
(* bounded in time: the node may stall at any point, which is what the     *)
(* test's deadlines are for.                                              *)
(***************************************************************************)
NodeStep(A) == A /\ UNCHANGED testVars

\* The scheduler picks the node: instance_uuid is set.
Associate ==
  /\ srv = "build" /\ ~assoc /\ prov = "none"
  /\ assoc' = TRUE
  /\ UNCHANGED <<power, prov, called, srv>>

StartDeploy ==
  /\ srv = "build" /\ assoc /\ prov = "none"
  /\ prov' = "deploying"
  /\ UNCHANGED <<assoc, power, called, srv>>

\* The deploy driver reboots the node into the deploy ramdisk ...
PowerOn ==
  /\ prov = "deploying" /\ ~called /\ power = "off"
  /\ power' = "on"
  /\ UNCHANGED <<assoc, prov, called, srv>>

\* ... and the conductor records DEPLOYWAIT.
AwaitCallback ==
  /\ prov = "deploying" /\ ~called /\ power = "on"
  /\ prov' = "waitcb"
  /\ UNCHANGED <<assoc, power, called, srv>>

\* The ramdisk calls back; the image is written in 'deploying' or at once.
Callback ==
  /\ prov = "waitcb"
  /\ called' = TRUE
  /\ prov' = IF CallbackRedeploys THEN "deploying" ELSE "active"
  /\ UNCHANGED <<assoc, power, srv>>

DeployDone ==
  /\ prov = "deploying" /\ called
  /\ prov' = "active"
  /\ UNCHANGED <<assoc, power, called, srv>>

DeployFails ==
  /\ prov \in {"deploying", "waitcb"}
  /\ prov' = "deployfail"
  /\ UNCHANGED <<assoc, power, called, srv>>

\* The compute driver sees the node active and the server goes ACTIVE.
ServerActive ==
  /\ srv = "build" /\ prov = "active"
  /\ srv' = "active"
  /\ UNCHANGED <<assoc, power, prov, called>>

\* The compute driver sees the deploy fail, cleans the deploy up and puts
\* the server in ERROR.
ServerFails ==
  /\ srv = "build" /\ prov = "deployfail"
  /\ srv' = "error"
  /\ assoc' = (assoc /\ ~CleanupDisassociates)
  /\ UNCHANGED <<power, prov, called>>

\* delete_server: the driver unprovisions the node, which powers off and
\* returns to NOSTATE, freed of the instance.
Unprovision ==
  /\ srv = "deleting" /\ prov = "active"
  /\ prov' = "deleting"
  /\ UNCHANGED <<assoc, power, called, srv>>

TearDownPowerOff ==
  /\ prov = "deleting" /\ power = "on"
  /\ power' = "off"
  /\ UNCHANGED <<assoc, prov, called, srv>>

TearDownDone ==
  /\ prov = "deleting" /\ power = "off"
  /\ prov' = "none" /\ assoc' = FALSE /\ called' = FALSE /\ srv' = "deleted"
  /\ UNCHANGED power

NodeNext ==
  \/ NodeStep(Associate)   \/ NodeStep(StartDeploy)  \/ NodeStep(PowerOn)
  \/ NodeStep(AwaitCallback) \/ NodeStep(Callback)  \/ NodeStep(DeployDone)
  \/ NodeStep(DeployFails) \/ NodeStep(ServerActive) \/ NodeStep(ServerFails)
  \/ NodeStep(Unprovision) \/ NodeStep(TearDownPowerOff)
  \/ NodeStep(TearDownDone)

Init ==
  /\ assoc = FALSE /\ power = "off" /\ prov = "none" /\ called = FALSE
  /\ srv = "none" /\ pc = "start" /\ polls = LongPolls
  /\ node = "unset" /\ err = "none"

Next == TestStep \/ NodeNext

Spec == Init /\ [][Next]_vars

\* Each step of the test is straight-line code and every wait has a
\* deadline, so the test is weakly fair; the node gets no fairness.
FairSpec == Spec /\ WF_vars(TestStep)

(***************************************************************************)
(* Properties.                                                             *)
(***************************************************************************)
TypeOK ==
  /\ assoc \in BOOLEAN /\ called \in BOOLEAN
  /\ power \in {"off", "on"} /\ prov \in ProvStates
  /\ srv \in {"none", "build", "active", "error", "deleting", "deleted"}
  /\ pc \in Steps
  /\ polls \in 1..(IF ShortPolls > LongPolls THEN ShortPolls ELSE LongPolls)
  /\ node \in {"unset", "node", "none"}
  /\ err \in {"none", "timeout", "typeerror"}

\* Spec 4.6: a boot that fails at any stage raises a timeout error naming
\* that stage.  boot_instance stores get_node's result unchecked.
FailsWithStageTimeout == err \in {"none", "timeout"}

\* Every boot_instance / terminate_instance sequence ends, by returning or
\* by raising, however the node behaves.
BootEnds == <>(err # "none" \/ pc = "terminated")

====
