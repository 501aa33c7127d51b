-------------------------- MODULE NetworkScenario --------------------------
(***************************************************************************)
(* The neutron factories of NetworkScenarioTest (manager.py) and servers   *)
(* booted on the networks they make, feeding the cleanup ledger.  A        *)
(* server on a network holds a port on it and an address on each of its    *)
(* subnets; a pool and a vip hold their subnet, a vip its pool,           *)
(* a member its pool.  CIDR selection itself is SubnetAllocation.          *)
(***************************************************************************)
EXTENDS ComputeScenario

CONSTANTS
  PublicRouter,   \* CONF.network.public_router_id is set (else public_network_id)
  EarlyChecksFail \* the assertions that precede an addCleanup may fail

ASSUME PublicRouter \in BOOLEAN /\ EarlyChecksFail \in BOOLEAN

\* _create_network: the name assertion precedes addCleanup.
CreateNetwork(r, nameOk) ==
  Factory(r, "network", {}, IF nameOk THEN <<Del(r)>> ELSE <<>>, <<>>, ~nameOk)

\* _create_subnet once the CIDR loop created r on a free block: the cidr
\* assertion precedes addCleanup.  Running out of blocks raises before
\* anything is created.
CreateSubnet(r, net, cidrOk) ==
  /\ net \in Live("network")
  /\ Factory(r, "subnet", {net}, IF cidrOk THEN <<Del(r)>> ELSE <<>>, <<>>,
             ~cidrOk)

\* Mutant: _create_router without its addCleanup.
CreateRouterUnregistered(r, nameOk) ==
  Factory(r, "router", {}, <<>>, <<>>, ~nameOk)

\* _create_router: the name assertion precedes addCleanup.
CreateRouter(r, nameOk) ==
  Factory(r, "router", {}, IF nameOk THEN <<Del(r)>> ELSE <<>>, <<>>, ~nameOk)

\* _create_port: registered once create_port returned.
CreatePort(r, net) ==
  /\ net \in Live("network")
  /\ Factory(r, "port", {net}, <<Del(r)>>, <<>>, FALSE)

\* create_floating_ip (neutron) on the server's port; _get_server_port_id
\* raises before anything is created when the port is not unique.  The
\* address needs the router interface of the port's subnet only while the
\* port exists, and the server's port already holds that subnet, so it
\* holds nothing of its own.  _associate_floating_ip and
\* _disassociate_floating_ip move it between ports and change nothing
\* else the model tracks.
NeutronCreateFloatingIp(r, s) ==
  /\ s \in Live("server")
  /\ Factory(r, "floatingip", {}, <<Del(r)>>, <<>>, FALSE)

\* _create_security_group (neutron): _create_empty_security_group, whose
\* name, tenant and description assertions precede addCleanup, then
\* _create_loginable_secgroup_rule over four rulesets, each registered
\* once created and then asserted, then the tenant assertions.  Stage k:
\*   1 an assertion on the group fails
\*   2 a rule create raises (a Conflict other than "already exists")
\*   3 an assertion on a registered rule fails
\*   4 returns with the rules
\*   5 returns, every rule skipped as already existing.
\* rl stands for the rules created.
NeutronCreateSecurityGroup(g, rl, k) ==
  LET rule == k \in {3, 4} IN
  /\ phase = "body" /\ g # rl /\ Fresh(g) /\ Fresh(rl)
  /\ cloud' = [x \in Res |-> IF x = g \/ (x = rl /\ rule) THEN "active"
                             ELSE cloud[x]]
  /\ kind' = [kind EXCEPT ![g] = "secgroup", ![rl] = IF rule THEN "rule" ELSE @]
  /\ uses' = [uses EXCEPT ![rl] = IF rule THEN {g} ELSE @]
  /\ ledger' = ledger \o (IF k = 1 THEN <<>> ELSE <<Del(g)>>)
                      \o (IF rule THEN <<Del(rl)>> ELSE <<>>)
  /\ Return(k \in 1..3)
  /\ UNCHANGED <<waits, current, drainIdx, errors>>

\* _create_pool: the name assertion precedes addCleanup.
CreatePool(r, sn, nameOk) ==
  /\ sn \in Live("subnet")
  /\ Factory(r, "pool", {sn}, IF nameOk THEN <<Del(r)>> ELSE <<>>, <<>>, ~nameOk)

\* _create_member: registered once create_member returned.
CreateMember(r, p) ==
  /\ p \in Live("pool")
  /\ Factory(r, "member", {p}, <<Del(r)>>, <<>>, FALSE)

\* _create_vip: the name assertion precedes addCleanup.
CreateVip(r, sn, p, nameOk) ==
  /\ sn \in Live("subnet") /\ p \in Live("pool")
  /\ Factory(r, "vip", {sn, p}, IF nameOk THEN <<Del(r)>> ELSE <<>>, <<>>,
             ~nameOk)

\* create_networks (non-baremetal branch): _create_network, _get_router,
\* _create_subnet, subnet.add_to_router.  _get_router shows the configured
\* public router, or else creates a tenant router (_create_router) and
\* sets its gateway.  The call stops at stage k:
\*   1 network name assertion   2 router name assertion, or show_router
\*   3 set_gateway raises, or no CIDR block is free
\*   4 subnet cidr assertion   5 add_to_router raises   6 returns.
CreateNetworks(n, rt, sn, k) ==
  LET own   == ~PublicRouter
      made  == {n} \cup (IF own /\ k >= 2 THEN {rt} ELSE {})
                   \cup (IF k >= 4 THEN {sn} ELSE {})
      regs  == (IF k >= 2 THEN <<Del(n)>> ELSE <<>>)
               \o (IF own /\ k >= 3 THEN <<Del(rt)>> ELSE <<>>)
               \o (IF k >= 5 THEN <<Del(sn)>> ELSE <<>>)
      kinds == [x \in {n, rt, sn} |->
                  IF x = n THEN "network" ELSE IF x = rt THEN "router"
                  ELSE "subnet"]
  IN
  /\ phase = "body"
  /\ Cardinality({n, rt, sn}) = 3 /\ Fresh(n) /\ Fresh(rt) /\ Fresh(sn)
  /\ cloud' = [x \in Res |-> IF x \in made THEN "active" ELSE cloud[x]]
  /\ kind' = [x \in Res |-> IF x \in made THEN kinds[x] ELSE kind[x]]
  /\ uses' = [uses EXCEPT ![sn] = IF k = 6 /\ own THEN {n, rt} ELSE {n}]
  /\ ledger' = ledger \o regs
  /\ Return(k < 6)
  /\ UNCHANGED <<waits, current, drainIdx, errors>>

\* What a server booted by the test may hold: a network of the test with
\* its subnets, and possibly a security group of the test.
NetServerHolds ==
  {{net} \cup {x \in Live("subnet") : net \in uses[x]} : net \in Live("network")}
  \cup {{}}

\* Outcomes of an assertion made before addCleanup, and the stages of
\* create_networks and _create_security_group that such a failure ends.
EarlyOk        == IF EarlyChecksFail THEN BOOLEAN ELSE {TRUE}
NetworksStages == IF EarlyChecksFail THEN 1..6 ELSE {3, 5, 6}
SecGroupStages == IF EarlyChecksFail THEN 1..5 ELSE 2..5

NetworkBody ==
  \E r \in Res :
    \/ \E ok \in EarlyOk :
         \/ CreateNetwork(r, ok)
         \/ CreateRouter(r, ok)
         \/ \E net \in Res : CreateSubnet(r, net, ok)
         \/ \E sn, p \in Res : CreatePool(r, sn, ok) \/ CreateVip(r, sn, p, ok)
    \/ \E rt, sn \in Res, k \in NetworksStages : CreateNetworks(r, rt, sn, k)
    \/ \E net \in Res : CreatePort(r, net)
    \/ \E p \in Res : CreateMember(r, p)
    \/ \E s \in Res : NeutronCreateFloatingIp(r, s)
    \/ \E rl \in Res, k \in SecGroupStages : NeutronCreateSecurityGroup(r, rl, k)
    \/ \E u \in NetServerHolds, h \in ServerHolds,
          wod \in ServerWaitOnDelete, fail \in BOOLEAN :
         CreateServer(r, u \cup h, wod, fail)

NetworkNext == LedgerNext \/ NetworkBody

NetworkSpec == Init /\ [][NetworkNext]_vars

=============================================================================
