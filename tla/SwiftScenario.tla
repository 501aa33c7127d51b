--------------------------- MODULE SwiftScenario ---------------------------
(***************************************************************************)
(* SwiftScenarioTest (manager.py): containers and objects created and      *)
(* deleted by the test body, feeding the cleanup ledger.  An object holds  *)
(* its container: Swift refuses to delete a container whose database     *)
(* still lists an object, and that database lags behind object deletes    *)
(* (an object deleted but still listed is "deleting" in CleanupLedger).   *)
(* A listing may therefore fail a check after a successful call.          *)
(***************************************************************************)
EXTENDS CleanupLedger

\* Whether a list_container_contents check passes.
ListOk == BOOLEAN

\* Mutant: create_container without its addCleanup.
CreateContainerUnregistered(c, listOk) ==
  Factory(c, "container", {}, <<>>, <<>>, ~listOk)

\* Mutant: the bare container_client.delete_container registered.
CreateContainerRawDelete(c, listOk) ==
  Factory(c, "container", {}, IF listOk THEN <<RawDel(c)>> ELSE <<>>, <<>>, ~listOk)

\* create_container: create, then list_and_check_container_objects, then
\* addCleanup of the wrapped delete_container.
CreateContainer(c, listOk) ==
  Factory(c, "container", {}, IF listOk THEN <<Del(c)>> ELSE <<>>, <<>>, ~listOk)

\* upload_object_to_container with the cleanup forgotten.
UploadObjectNoCleanup(o, c) ==
  /\ c \in Live("container")
  /\ Factory(o, "object", {c}, <<>>, <<>>, FALSE)

\* upload_object_to_container: create_object, then addCleanup of the
\* wrapped delete_object.
UploadObject(o, c) ==
  /\ c \in Live("container")
  /\ Factory(o, "object", {c}, <<Del(o)>>, <<>>, FALSE)

\* delete_container from the body: the bare client call raises NotFound
\* for a deleted container and Conflict for one that still holds objects.
DeleteContainer(c) ==
  /\ phase = "body" /\ kind[c] = "container"
  /\ \/ /\ cloud[c] = "active" /\ ~InUse(c)
        /\ AcceptDelete(c)
        /\ Return(FALSE)
     \/ /\ cloud[c] = "gone" \/ InUse(c)
        /\ Return(TRUE)
        /\ UNCHANGED cloud
  /\ UNCHANGED <<kind, uses, ledger, waits, current, drainIdx, errors>>

\* delete_object from the body, then the listing check that the object is
\* gone: it passes only once the container updater has dropped the object
\* from the listing.  Deleting an object already deleted raises NotFound.
DeleteObject(o, listOk) ==
  /\ phase = "body" /\ kind[o] = "object"
  /\ \/ /\ cloud[o] = "active"
        /\ cloud' = [cloud EXCEPT ![o] = IF listOk THEN "gone" ELSE "deleting"]
        /\ Return(~listOk)
     \/ /\ cloud[o] \in {"deleting", "gone"}
        /\ Return(TRUE)
        /\ UNCHANGED cloud
  /\ UNCHANGED <<kind, uses, ledger, waits, current, drainIdx, errors>>

SwiftBody ==
  \E x \in Res :
    \/ \E ok \in ListOk : CreateContainer(x, ok) \/ DeleteObject(x, ok)
    \/ \E c \in Res : UploadObject(x, c)
    \/ DeleteContainer(x)

SwiftNext == LedgerNext \/ SwiftBody

SwiftSpec == Init /\ [][SwiftNext]_vars

=============================================================================
