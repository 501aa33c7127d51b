------------------------- MODULE SubnetAllocation -------------------------
(***************************************************************************)
(* The CIDR allocation loop of NetworkScenarioTest._create_subnet, run by *)
(* several test workers at once against one network service.              *)
(*                                                                         *)
(* Each call walks the blocks of CONF.network.tenant_network_cidr split at *)
(* tenant_network_mask_bits in order.  For each block it lists the        *)
(* tenant's subnets with that cidr (cidr_in_use) and skips the block if   *)
(* one exists; otherwise it calls create_subnet, which either succeeds    *)
(* (the loop ends), raises Conflict "overlaps with another subnet" (next  *)
(* block), or raises anything else (the call fails).  A loop that runs    *)
(* out of blocks fails assertIsNotNone.  The check and the create are two *)
(* remote calls: other workers' creates can land between them.            *)
(***************************************************************************)
EXTENDS Naturals, FiniteSets

CONSTANTS
  Workers,       \* concurrent test processes
  NBlocks,       \* number of blocks tenant_cidr.subnet(mask_bits) yields
  MaxCalls,      \* _create_subnet calls per worker (each on a new network)
  SharedTenant,  \* TRUE when workers share one tenant (no isolated creds)
  OverlapScope   \* "network": the service rejects overlaps within a network;
                 \* "all": it rejects them across networks (no overlapping IPs)

ASSUME NBlocks \in Nat /\ MaxCalls \in Nat \ {0}
ASSUME SharedTenant \in BOOLEAN /\ OverlapScope \in {"network", "all"}

VARIABLES
  subnets,  \* subnets the service holds: [tenant, net, block]
  pc,       \* per worker: "idle" | "check" | "create"
  idx,      \* per worker: the block the loop is at
  calls,    \* per worker: _create_subnet calls started
  results   \* returned calls: [w, call, res, block]; block 0 on failure

vars == <<subnets, pc, idx, calls, results>>

Blocks   == 1..NBlocks
Outcomes == {"ok", "exhausted", "error"}

TenantOf(w) == IF SharedTenant THEN "shared" ELSE w
NetOf(w)    == <<w, calls[w]>>

\* cidr_in_use: list_subnets(tenant_id=network.tenant_id, cidr=cidr)
CidrInUse(w, b) == \E s \in subnets : s.tenant = TenantOf(w) /\ s.block = b

\* The service's overlap check on create_subnet.
Overlaps(w, b) ==
  \E s \in subnets : s.block = b /\ (OverlapScope = "all" \/ s.net = NetOf(w))

Finish(w, res, b) ==
  /\ pc' = [pc EXCEPT ![w] = "idle"]
  /\ results' = results \cup {[w |-> w, call |-> calls[w], res |-> res, block |-> b]}

\* The test calls _create_subnet on a network it has just created.
Start(w) ==
  /\ pc[w] = "idle" /\ calls[w] < MaxCalls
  /\ pc' = [pc EXCEPT ![w] = "check"]
  /\ idx' = [idx EXCEPT ![w] = 1]
  /\ calls' = [calls EXCEPT ![w] = @ + 1]
  /\ UNCHANGED <<subnets, results>>

(***************************************************************************)
(* Mutants of the loop, each checked to break a property.                 *)
(***************************************************************************)
\* The loop stops one block short of the end of the range.
CheckShortRange(w) ==
  /\ pc[w] = "check"
  /\ \/ /\ idx[w] < NBlocks /\ CidrInUse(w, idx[w])
        /\ idx' = [idx EXCEPT ![w] = @ + 1]
        /\ UNCHANGED <<pc, results>>
     \/ /\ idx[w] < NBlocks /\ ~CidrInUse(w, idx[w])
        /\ pc' = [pc EXCEPT ![w] = "create"]
        /\ UNCHANGED <<idx, results>>
     \/ /\ idx[w] >= NBlocks
        /\ Finish(w, "exhausted", 0)
        /\ UNCHANGED idx
  /\ UNCHANGED <<subnets, calls>>

\* One turn of the for loop up to the create call: skip a block in use,
\* or run off the end and fail the assertion.
Check(w) ==
  /\ pc[w] = "check"
  /\ \/ /\ idx[w] \in Blocks /\ CidrInUse(w, idx[w])
        /\ idx' = [idx EXCEPT ![w] = @ + 1]
        /\ UNCHANGED <<pc, results>>
     \/ /\ idx[w] \in Blocks /\ ~CidrInUse(w, idx[w])
        /\ pc' = [pc EXCEPT ![w] = "create"]
        /\ UNCHANGED <<idx, results>>
     \/ /\ idx[w] \notin Blocks
        /\ Finish(w, "exhausted", 0)
        /\ UNCHANGED idx
  /\ UNCHANGED <<subnets, calls>>

\* An overlap Conflict retries the same block instead of the next one.
CreateRetrySame(w) ==
  /\ pc[w] = "create"
  /\ \/ /\ ~Overlaps(w, idx[w])
        /\ subnets' = subnets \cup
             {[tenant |-> TenantOf(w), net |-> NetOf(w), block |-> idx[w]]}
        /\ Finish(w, "ok", idx[w])
        /\ UNCHANGED idx
     \/ /\ Overlaps(w, idx[w])
        /\ pc' = [pc EXCEPT ![w] = "check"]
        /\ UNCHANGED <<subnets, results, idx>>
     \/ /\ Finish(w, "error", 0)
        /\ UNCHANGED <<subnets, idx>>
  /\ UNCHANGED calls

\* client.create_subnet for the current block.
Create(w) ==
  /\ pc[w] = "create"
  /\ \/ /\ ~Overlaps(w, idx[w])
        /\ subnets' = subnets \cup
             {[tenant |-> TenantOf(w), net |-> NetOf(w), block |-> idx[w]]}
        /\ Finish(w, "ok", idx[w])
        /\ UNCHANGED idx
     \/ /\ Overlaps(w, idx[w])
        /\ pc' = [pc EXCEPT ![w] = "check"]
        /\ idx' = [idx EXCEPT ![w] = @ + 1]
        /\ UNCHANGED <<subnets, results>>
     \/ /\ Finish(w, "error", 0)
        /\ UNCHANGED <<subnets, idx>>
  /\ UNCHANGED calls

Init ==
  /\ subnets = {}
  /\ pc = [w \in Workers |-> "idle"]
  /\ idx = [w \in Workers |-> 1]
  /\ calls = [w \in Workers |-> 0]
  /\ results = {}

Next == \E w \in Workers : Start(w) \/ Check(w) \/ Create(w)

\* A worker that has entered the loop keeps running it: the loop body is
\* straight-line code of one process.
Fairness == \A w \in Workers : WF_vars(Check(w) \/ Create(w))

Spec == Init /\ [][Next]_vars /\ Fairness

(***************************************************************************)
(* Properties.                                                             *)
(***************************************************************************)
\* Spec section 8: no tenant ever holds two subnets with the same block.
UniqueBlockPerTenant ==
  \A s, t \in subnets : (s # t /\ s.tenant = t.tenant) => s.block # t.block

\* The allocation fails as exhausted only when every block really was
\* taken for this caller: in use in its tenant or overlapping in scope.
ExhaustedOnlyWhenFull ==
  \A r \in results :
    r.res = "exhausted" =>
      \A b \in Blocks : \E s \in subnets :
        /\ s.block = b
        /\ \/ s.tenant = TenantOf(r.w)
           \/ OverlapScope = "all"
           \/ s.net = <<r.w, r.call>>

\* Every _create_subnet call returns, with a block or a failure: the loop
\* never spins forever on conflicts.
CallsReturn == \A w \in Workers : [](pc[w] # "idle" => <>(pc[w] = "idle"))

=============================================================================
