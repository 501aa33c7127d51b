-------------------------- MODULE ComputeScenario --------------------------
(***************************************************************************)
(* The compute, volume and image factories of ScenarioTest                 *)
(* (tempest/scenario/manager.py) feeding the cleanup ledger of             *)
(* CleanupLedger.  Each factory is one atomic step: the create call, the   *)
(* cleanups it registers, and whether the helper then returns or raises    *)
(* (a boot wait, status wait or assertion after the registration).  A      *)
(* create call that raises creates nothing and is TestBodyEnds.            *)
(***************************************************************************)
EXTENDS CleanupLedger

CONSTANTS
  ServerWaitOnDelete,  \* values of create_server's wait_on_delete in use
  VolumeWaitOnDelete   \* values of create_volume's wait_on_delete in use

ASSUME ServerWaitOnDelete \subseteq BOOLEAN /\ VolumeWaitOnDelete \subseteq BOOLEAN

\* create_keypair: the raw client delete_keypair is the cleanup.
CreateKeypair(r) == Factory(r, "keypair", {}, <<RawDel(r)>>, <<>>, FALSE)

(***************************************************************************)
(* Mutants: plausible slips in the factories, each checked to break a     *)
(* property of a passing run.                                              *)
(***************************************************************************)
\* create_server hands the server dict, not server['id'], to the wait
\* descriptor.
CreateServerBadWaitId(r, u, wod, fail) ==
  Factory(r, "server", u, (IF wod THEN <<Waiter(r)>> ELSE <<>>) \o <<Del(r)>>,
          <<NoRes>>, fail)

\* create_server forgets the wait_on_delete termination waiter.
CreateServerNoWaiter(r, u, wod, fail) ==
  Factory(r, "server", u, <<Del(r)>>, <<r>>, fail)

\* create_server: with wait_on_delete, wait_for_server_termination is
\* registered before the wrapped delete (so LIFO runs it after); then
\* addCleanup_with_wait.  The boot wait, get_server and name assertion
\* follow and may raise.  u: what the server holds (security groups, ports).
CreateServer(r, u, wod, fail) ==
  Factory(r, "server", u, (IF wod THEN <<Waiter(r)>> ELSE <<>>) \o <<Del(r)>>,
          <<r>>, fail)

\* create_volume registers the delete before the waiter, so LIFO runs the
\* waiter first.
CreateVolumeWaitFirst(r, u, wod, fail) ==
  Factory(r, "volume", u, IF wod THEN <<Del(r), Waiter(r)>> ELSE <<Del(r)>>,
          IF wod THEN <<>> ELSE <<r>>, fail)

\* create_volume with wait_on_delete=False uses a plain addCleanup.
CreateVolumeNoDescriptor(r, u, wod, fail) ==
  Factory(r, "volume", u, IF wod THEN <<Waiter(r), Del(r)>> ELSE <<Del(r)>>,
          <<>>, fail)

\* create_volume: wait_on_delete registers wait_for_resource_deletion then
\* the wrapped delete; otherwise addCleanup_with_wait.  The name check and
\* the wait for 'available' follow the registration and may raise.
\* u: the volume type it was created with, if any.
CreateVolume(r, u, wod, fail) ==
  Factory(r, "volume", u, IF wod THEN <<Waiter(r), Del(r)>> ELSE <<Del(r)>>,
          IF wod THEN <<>> ELSE <<r>>, fail)

\* _image_create, called once by glance_image_create or, when the qcow2
\* file cannot be opened (IOError before any create), three times for the
\* aki, ari and ami images: the raw delete_image is registered, then the
\* 'queued' assertion and the data upload may raise.
ImageCreate(r, fail) == Factory(r, "image", {}, <<RawDel(r)>>, <<>>, fail)

\* create_server_snapshot once the image went 'active': addCleanup_with_wait,
\* then get_image_meta and the name assertion.
CreateServerSnapshot(r, s, fail) ==
  /\ s \in Live("server")
  /\ Factory(r, "image", {}, <<Del(r)>>, <<r>>, fail)

\* create_server_snapshot when wait_for_image_status raises: the image
\* exists and nothing has been registered for it.
SnapshotActiveTimeout(r, s) ==
  /\ s \in Live("server")
  /\ Factory(r, "image", {}, <<>>, <<>>, TRUE)

\* nova_volume_attach: attach_volume, then the id assertion and the wait
\* for 'in-use'.  No detach is registered as a cleanup.
NovaVolumeAttach(v, s, fail) ==
  /\ v \in Live("volume") /\ s \in Live("server")
  /\ \A x \in Res : v \notin uses[x]
  /\ Rewire(s, uses[s] \cup {v}, fail)

\* nova_volume_detach: detach_volume, the wait for 'available' and the
\* status assertion.
NovaVolumeDetach(v, s, fail) ==
  /\ s \in Live("server") /\ v \in uses[s]
  /\ Rewire(s, uses[s] \ {v}, fail)

\* EncryptionScenarioTest.create_volume_type: create_volume_type, then
\* assertIn('id', body), then the raw delete_volume_type is registered.
CreateVolumeType(r, ok) ==
  Factory(r, "volumetype", {}, IF ok THEN <<RawDel(r)>> ELSE <<>>, <<>>, ~ok)

\* Mutant: the volume type made for the encryption type is not registered.
CreateEncryptionTypeUnregistered(e, t, new, fail) ==
  /\ phase = "body" /\ e # t /\ Fresh(e)
  /\ IF new THEN Fresh(t) ELSE t \in Live("volumetype")
  /\ cloud' = [x \in Res |-> IF x = t \/ (x = e /\ ~fail) THEN "active"
                             ELSE cloud[x]]
  /\ kind' = [kind EXCEPT ![t] = "volumetype",
                          ![e] = IF fail THEN @ ELSE "encryption"]
  /\ uses' = [uses EXCEPT ![e] = IF fail THEN @ ELSE {t}]
  /\ UNCHANGED ledger
  /\ Return(fail)
  /\ UNCHANGED <<waits, current, drainIdx, errors>>

\* create_encryption_type on volume type t, which it first makes with
\* create_volume_type when no type_id is given (new; the assertion
\* failing there is CreateVolumeType(t, FALSE)).  create_encryption_type
\* may raise, creating nothing; no cleanup is registered for the
\* encryption spec.
CreateEncryptionType(e, t, new, fail) ==
  /\ phase = "body" /\ e # t /\ Fresh(e)
  /\ IF new THEN Fresh(t) ELSE t \in Live("volumetype")
  /\ cloud' = [x \in Res |-> IF x = t \/ (x = e /\ ~fail) THEN "active"
                             ELSE cloud[x]]
  /\ kind' = [kind EXCEPT ![t] = "volumetype",
                          ![e] = IF fail THEN @ ELSE "encryption"]
  /\ uses' = [uses EXCEPT ![e] = IF fail THEN @ ELSE {t}]
  /\ ledger' = ledger \o (IF new THEN <<RawDel(t)>> ELSE <<>>)
  /\ Return(fail)
  /\ UNCHANGED <<waits, current, drainIdx, errors>>

\* rebuild_server: rebuild the server in place, then (with wait) wait
\* for ACTIVE, which may raise.  What the server holds is unchanged.
RebuildServer(s, fail) ==
  /\ s \in Live("server")
  /\ Rewire(s, uses[s], fail)

\* create_floating_ip (nova): the wrapped delete is registered, then the
\* association to the server may raise.  Nova disassociates on either
\* delete, so the address holds nothing.
CreateFloatingIp(r, s, fail) ==
  /\ s \in Live("server")
  /\ Factory(r, "floatingip", {}, <<Del(r)>>, <<>>, fail)

\* _create_security_group (nova) with its _create_loginable_secgroup_rule,
\* stopping at stage k:
\*   1 a name or description assertion fails (they precede addCleanup)
\*   2 a create_security_group_rule call raises
\*   3 returns with the group and its rules.
\* rl stands for the rules, each created then registered the same way.
CreateSecurityGroup(g, rl, k) ==
  /\ phase = "body" /\ g # rl /\ Fresh(g) /\ Fresh(rl)
  /\ cloud' = [x \in Res |-> IF x = g \/ (x = rl /\ k = 3) THEN "active"
                             ELSE cloud[x]]
  /\ kind' = [kind EXCEPT ![g] = "secgroup",
                          ![rl] = IF k = 3 THEN "rule" ELSE @]
  /\ uses' = [uses EXCEPT ![rl] = IF k = 3 THEN {g} ELSE @]
  /\ ledger' = ledger \o (IF k = 1 THEN <<>> ELSE <<Del(g)>>)
                      \o (IF k = 3 THEN <<Del(rl)>> ELSE <<>>)
  /\ Return(k < 3)
  /\ UNCHANGED <<waits, current, drainIdx, errors>>

\* terminate_instance (baremetal): the body deletes its server with the
\* raw client call, then waits for power off and unprovisioning, which may
\* time out.
TerminateInstance(s, fail) ==
  /\ phase = "body" /\ s \in Live("server")
  /\ cloud' = [cloud EXCEPT ![s] = "deleting"]
  /\ Return(fail)
  /\ UNCHANGED <<kind, uses, ledger, waits, current, drainIdx, errors>>

\* What a new server may hold: nothing, or a security group of the test.
ServerHolds == {{}} \cup {{g} : g \in Live("secgroup")}

\* The volume type a new volume may be created with.
VolumeHolds == {{}} \cup {{t} : t \in Live("volumetype")}

ComputeBody ==
  \E r \in Res :
    \/ CreateKeypair(r)
    \/ \E u \in ServerHolds, wod \in ServerWaitOnDelete, fail \in BOOLEAN :
         CreateServer(r, u, wod, fail)
    \/ \E u \in VolumeHolds, wod \in VolumeWaitOnDelete, fail \in BOOLEAN :
         CreateVolume(r, u, wod, fail)
    \/ \E ok \in BOOLEAN : CreateVolumeType(r, ok)
    \/ \E t \in Res, new, fail \in BOOLEAN : CreateEncryptionType(r, t, new, fail)
    \/ \E fail \in BOOLEAN : ImageCreate(r, fail)
    \/ \E s \in Res, fail \in BOOLEAN : CreateServerSnapshot(r, s, fail)
    \/ \E s \in Res : SnapshotActiveTimeout(r, s)
    \/ \E s \in Res, fail \in BOOLEAN : CreateFloatingIp(r, s, fail)
    \/ \E rl \in Res, k \in 1..3 : CreateSecurityGroup(r, rl, k)
    \/ \E s \in Res, fail \in BOOLEAN :
         \/ NovaVolumeAttach(r, s, fail)
         \/ NovaVolumeDetach(r, s, fail)
    \/ \E fail \in BOOLEAN : RebuildServer(r, fail)
    \/ \E fail \in BOOLEAN : TerminateInstance(r, fail)

ComputeNext == LedgerNext \/ ComputeBody

ComputeSpec == Init /\ [][ComputeNext]_vars

ComputeFairSpec == ComputeSpec /\ LedgerFairness

=============================================================================
