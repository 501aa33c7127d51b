---------------------------- MODULE Connectivity ----------------------------
(***************************************************************************)
(* The connectivity checks of ScenarioTest and NetworkScenarioTest         *)
(* (manager.py), each a poll of call_until_true run against a clock:       *)
(*   "public"  check_public_network_connectivity on one address;           *)
(*   "tenant"  _check_tenant_network_connectivity on every address of a    *)
(*             server, one check_vm_connectivity after another;            *)
(*   "remote"  _check_remote_connectivity, a ping sent over an ssh         *)
(*             connection from another server;                             *)
(*   "fip"     check_floating_ip_status, refreshing a floating IP.         *)
(* The network may change its mind about an address or the floating IP's  *)
(* status while the test polls (a floating IP or a rule taking effect),    *)
(* and a ping may be lost.                                                 *)
(*                                                                         *)
(* Time is counted in half seconds.  A ping (ping -c1 -w1) that gets its   *)
(* reply returns within the one-second deadline; one that does not waits   *)
(* the whole deadline.  A refresh is one API call and takes no time here.  *)
(***************************************************************************)
EXTENDS Naturals

CONSTANTS
  Addrs,            \* the addresses of the server under test
  PingTimeout,      \* CONF.compute.ping_timeout, the duration of the poll
  Interval,         \* the sleep between two pings: 1 s
  PingDeadline,     \* ping -w1: 1 s
  Lossy,            \* a ping to a reachable address may get no reply
  SshDrops,         \* the source's ssh session may fail under ping_host
  TenantReachable,  \* CONF.network.tenant_networks_reachable
  ConsoleEnabled,   \* CONF.compute_feature_enabled.console_output
  ConsoleFails,     \* get_console_output may raise while logging diagnostics
  MaxFlips          \* times the network may change what it answers

ASSUME Addrs # {} /\ PingTimeout \in Nat \ {0} /\ Interval \in Nat \ {0}
ASSUME PingDeadline \in Nat /\ MaxFlips \in Nat
ASSUME \A c \in {Lossy, SshDrops, TenantReachable, ConsoleEnabled, ConsoleFails} :
         c \in BOOLEAN

VARIABLES
  reach,      \* which addresses answer pings and ssh
  fipActive,  \* the floating IP's status is ACTIVE
  flips,      \* changes the network made so far
  clock,      \* time.time()
  start,      \* the clock when the running call_until_true began
  now,        \* call_until_true's local now
  calls,      \* predicate calls made by the running poll
  pc,         \* where the check is
  entry,      \* which check the test called
  addr,       \* the address being checked
  todo,       \* addresses of the tenant loop not yet checked
  checked,    \* addresses whose check_vm_connectivity returned
  should,     \* should_connect / should_succeed, or the wanted status
  result,     \* what the last call_until_true returned
  err         \* the exception leaving the check, or "none"

vars == <<reach, fipActive, flips, clock, start, now, calls, pc, entry, addr,
          todo, checked, should, result, err>>

Errors  == {"none", "assert", "sshtimeout", "sshfail", "console"}
Polling == {"loop", "call", "sleep"}
Ended   == {"done", "skipped"}

(***************************************************************************)
(* The polling loop of call_until_true(func, timeout, 1).                  *)
(***************************************************************************)
\* call_until_true reads the clock and fixes its deadline.
BeginPoll(a, sc) ==
  /\ addr' = a /\ should' = sc
  /\ start' = clock /\ now' = clock /\ calls' = 0
  /\ pc' = "loop"

\* check_public_network_connectivity -> check_vm_connectivity ->
\* ping_ip_address(a, should_succeed=sc).
CheckVm(a, sc) ==
  /\ pc = "start"
  /\ entry' = "public" /\ BeginPoll(a, sc)
  /\ UNCHANGED <<reach, fipActive, flips, clock, todo, checked, result, err>>

\* _check_tenant_network_connectivity: returns at once unless tenant
\* networks are reachable; otherwise check_vm_connectivity on each
\* address of server['networks'], in the dict's order.
CheckTenant(sc) ==
  /\ pc = "start"
  /\ entry' = "tenant"
  /\ IF TenantReachable
       THEN \E a \in Addrs : BeginPoll(a, sc) /\ todo' = Addrs \ {a}
       ELSE pc' = "skipped" /\ UNCHANGED <<addr, should, start, now, calls, todo>>
  /\ UNCHANGED <<reach, fipActive, flips, clock, checked, result, err>>

\* _check_remote_connectivity(source, dest, should_succeed=sc).
CheckRemote(a, sc) ==
  /\ pc = "start"
  /\ entry' = "remote" /\ BeginPoll(a, sc)
  /\ UNCHANGED <<reach, fipActive, flips, clock, todo, checked, result, err>>

\* check_floating_ip_status(floating_ip, status): st says whether the
\* status wanted is ACTIVE.
CheckFipStatus(st) ==
  /\ pc = "start"
  /\ entry' = "fip" /\ BeginPoll(addr, st)
  /\ UNCHANGED <<reach, fipActive, flips, clock, todo, checked, result, err>>

\* Mutant: the loop condition admits a call at the deadline itself.
LoopInclusive ==
  /\ pc = "loop"
  /\ \/ now <= start + PingTimeout /\ pc' = "call" /\ UNCHANGED result
     \/ now > start + PingTimeout /\ pc' = "ret" /\ result' = FALSE
  /\ UNCHANGED <<reach, fipActive, flips, clock, start, now, calls, entry,
                 addr, todo, checked, should, err>>

\* while now < timeout: ...; return False.
Loop ==
  /\ pc = "loop"
  /\ \/ now < start + PingTimeout /\ pc' = "call" /\ UNCHANGED result
     \/ now >= start + PingTimeout /\ pc' = "ret" /\ result' = FALSE
  /\ UNCHANGED <<reach, fipActive, flips, clock, start, now, calls, entry,
                 addr, todo, checked, should, err>>

\* How long a ping takes, and whether it may be lost.
Replies(ok) == IF ok THEN 0..PingDeadline ELSE {PingDeadline}
Lost == IF Lossy THEN BOOLEAN ELSE {FALSE}

\* The end of one predicate call: if func(): return True; else sleep.
Answer(match) ==
  IF match THEN pc' = "ret" /\ result' = TRUE
           ELSE pc' = "sleep" /\ UNCHANGED result

\* Mutant: the ping command without -w1 waits ten seconds for a reply.
PingNoDeadline ==
  /\ pc = "call" /\ entry \in {"public", "tenant", "remote"}
  /\ \E lost \in Lost :
       LET ok == reach[addr] /\ ~lost IN
       \E d \in (IF ok THEN 0..PingDeadline ELSE {10 * PingDeadline}) :
         clock' = clock + d /\ calls' = calls + 1 /\ Answer(ok = should)
  /\ UNCHANGED <<reach, fipActive, flips, start, now, entry, addr, todo,
                 checked, should, err>>

\* One ping.  ping_ip_address's predicate is
\* (proc.returncode == 0) == should_succeed; ping_remote returns
\* should_succeed when source.ping_host(dest) returns and not
\* should_succeed when it raises SSHExecCommandFailed: the same match.
Ping ==
  /\ pc = "call" /\ entry \in {"public", "tenant", "remote"}
  /\ \E lost \in Lost :
       LET ok == reach[addr] /\ ~lost IN
       \E d \in Replies(ok) :
         clock' = clock + d /\ calls' = calls + 1 /\ Answer(ok = should)
  /\ UNCHANGED <<reach, fipActive, flips, start, now, entry, addr, todo,
                 checked, should, err>>

\* ping_host raises something other than SSHExecCommandFailed (the
\* source's ssh session failed): ping_remote does not catch it and it
\* leaves call_until_true and _check_remote_connectivity.
PingHostRaises ==
  /\ pc = "call" /\ entry = "remote" /\ SshDrops
  /\ \E d \in 0..PingDeadline : clock' = clock + d
  /\ calls' = calls + 1
  /\ pc' = "done" /\ err' = "sshfail"
  /\ UNCHANGED <<reach, fipActive, flips, start, now, entry, addr, todo,
                 checked, should, result>>

\* refresh(): floating_ip.refresh(); return status == floating_ip.status.
Refresh ==
  /\ pc = "call" /\ entry = "fip"
  /\ calls' = calls + 1 /\ Answer(fipActive = should)
  /\ UNCHANGED <<reach, fipActive, flips, clock, start, now, entry, addr,
                 todo, checked, should, err>>

\* time.sleep(sleep_for); now = time.time().
Sleep ==
  /\ pc = "sleep"
  /\ clock' = clock + Interval /\ now' = clock + Interval
  /\ pc' = "loop"
  /\ UNCHANGED <<reach, fipActive, flips, start, calls, entry, addr, todo,
                 checked, should, result, err>>

(***************************************************************************)
(* check_vm_connectivity, the callers' loop and handlers.                  *)
(***************************************************************************)
\* assertTrue on the poll's result; a positive check then opens an ssh
\* session, a negative one skips it.
AssertReachability ==
  /\ pc = "ret" /\ entry \in {"public", "tenant"}
  /\ \/ result /\ pc' = (IF should THEN "ssh" ELSE "next") /\ UNCHANGED err
     \/ ~result /\ pc' = "diag" /\ err' = "assert"
  /\ UNCHANGED <<reach, fipActive, flips, clock, start, now, calls, entry,
                 addr, todo, checked, should, result>>

\* Mutant: get_remote_client keeps retrying an unreachable address.
SshNoTimeout ==
  /\ pc = "ssh" /\ reach[addr]
  /\ pc' = "next"
  /\ UNCHANGED <<reach, fipActive, flips, clock, start, now, calls, entry,
                 addr, todo, checked, should, result, err>>

\* get_remote_client: validate_authentication over ssh, which raises
\* SSHTimeout when the address does not answer (after logging the
\* network debug information).
Ssh ==
  /\ pc = "ssh"
  /\ \/ reach[addr] /\ pc' = "next" /\ UNCHANGED err
     \/ ~reach[addr] /\ pc' = "diag" /\ err' = "sshtimeout"
  /\ UNCHANGED <<reach, fipActive, flips, clock, start, now, calls, entry,
                 addr, todo, checked, should, result>>

\* Mutant: the tenant loop returns after the first address it checked.
NextAddressFirstOnly ==
  /\ pc = "next"
  /\ checked' = checked \cup {addr}
  /\ pc' = "done"
  /\ UNCHANGED <<addr, should, start, now, calls, todo>>
  /\ UNCHANGED <<reach, fipActive, flips, clock, entry, result, err>>

\* check_vm_connectivity returned: the tenant loop goes on with the next
\* address; the other callers return.
NextAddress ==
  /\ pc = "next"
  /\ checked' = checked \cup {addr}
  /\ IF todo # {}
       THEN \E b \in todo : BeginPoll(b, should) /\ todo' = todo \ {b}
       ELSE pc' = "done" /\ UNCHANGED <<addr, should, start, now, calls, todo>>
  /\ UNCHANGED <<reach, fipActive, flips, clock, entry, result, err>>

\* _check_remote_connectivity returns call_until_true's result to its
\* caller unchecked.
ReturnResult ==
  /\ pc = "ret" /\ entry = "remote"
  /\ pc' = "done"
  /\ UNCHANGED <<reach, fipActive, flips, clock, start, now, calls, entry,
                 addr, todo, checked, should, result, err>>

\* check_floating_ip_status: assertEqual(status, floating_ip.status) on
\* the status the last refresh read.
AssertFipStatus ==
  /\ pc = "ret" /\ entry = "fip"
  /\ pc' = "done"
  /\ err' = IF result THEN "none" ELSE "assert"
  /\ UNCHANGED <<reach, fipActive, flips, clock, start, now, calls, entry,
                 addr, todo, checked, should, result>>

\* except Exception as e: _log_console_output(servers), which lists the
\* servers and calls get_console_output for each unless console output is
\* disabled (and may itself raise); then log_net_debug / _log_net_info
\* unless SSHTimeout, and raise.
Diagnose ==
  /\ pc = "diag"
  /\ pc' = "done"
  /\ \E fails \in (IF ConsoleEnabled /\ ConsoleFails THEN BOOLEAN ELSE {FALSE}) :
       err' = IF fails THEN "console" ELSE err
  /\ UNCHANGED <<reach, fipActive, flips, clock, start, now, calls, entry,
                 addr, todo, checked, should, result>>

\* The network changes whether an address answers, or the floating IP's
\* status.
Flip ==
  /\ flips < MaxFlips /\ flips' = flips + 1
  /\ \/ \E a \in Addrs : reach' = [reach EXCEPT ![a] = ~@] /\ UNCHANGED fipActive
     \/ fipActive' = ~fipActive /\ UNCHANGED reach
  /\ UNCHANGED <<clock, start, now, calls, pc, entry, addr, todo, checked,
                 should, result, err>>

Init ==
  /\ reach \in [Addrs -> BOOLEAN] /\ fipActive \in BOOLEAN /\ flips = 0
  /\ clock = 0 /\ start = 0 /\ now = 0 /\ calls = 0
  /\ pc = "start" /\ entry = "none" /\ addr = CHOOSE a \in Addrs : TRUE
  /\ todo = {} /\ checked = {}
  /\ should = TRUE /\ result = FALSE /\ err = "none"

CheckStep ==
  \/ \E a \in Addrs, sc \in BOOLEAN : CheckVm(a, sc) \/ CheckRemote(a, sc)
  \/ \E sc \in BOOLEAN : CheckTenant(sc) \/ CheckFipStatus(sc)
  \/ Loop \/ Ping \/ PingHostRaises \/ Refresh \/ Sleep
  \/ AssertReachability \/ Ssh \/ NextAddress \/ ReturnResult
  \/ AssertFipStatus \/ Diagnose

Next == CheckStep \/ Flip

Spec == Init /\ [][Next]_vars

\* The test thread is never descheduled for good; the network gets no
\* fairness: it may never converge.
FairSpec == Spec /\ WF_vars(CheckStep)

(***************************************************************************)
(* Properties.                                                             *)
(***************************************************************************)
TypeOK ==
  /\ reach \in [Addrs -> BOOLEAN] /\ fipActive \in BOOLEAN
  /\ flips \in 0..MaxFlips
  /\ clock \in Nat /\ start \in Nat /\ now \in Nat /\ calls \in Nat
  /\ pc \in Polling \cup Ended \cup {"start", "ret", "ssh", "next", "diag"}
  /\ entry \in {"none", "public", "tenant", "remote", "fip"}
  /\ addr \in Addrs /\ todo \subseteq Addrs /\ checked \subseteq Addrs
  /\ should \in BOOLEAN /\ result \in BOOLEAN
  /\ err \in Errors

\* Every poll of every check keeps the contract of PollBudget: at least
\* one predicate call and at most as many as fit in the timeout, one per
\* interval; a raising ping_host ends the poll.
PollState ==
  CASE pc \in {"start", "skipped"} -> "idle"
    [] pc \in Polling              -> "polling"
    [] err = "sshfail"             -> "raised"
    [] OTHER                       -> IF result THEN "true" ELSE "false"

Poll == INSTANCE PollBudget WITH
          Budget <- (PingTimeout + Interval - 1) \div Interval,
          calls <- calls, state <- PollState

\* Each poll keeps within the bound its pings allow: it ends at most one
\* interval and one ping deadline after its timeout.  (Spec 8 states
\* T + I, which holds only for a predicate that takes no time.)
WallTimeBound == clock - start <= PingTimeout + Interval + PingDeadline

\* Every connectivity check ends, by passing, returning or raising,
\* however the network behaves.
CheckEnds == <>(pc \in Ended)

\* A tenant network check that passed checked every address of the
\* server, each with its own poll (and ssh session when positive), even
\* when the network changed between them.
CheckedEveryAddress ==
  (pc = "done" /\ entry = "tenant" /\ err = "none") => checked = Addrs

\* Spec 4.5: the diagnostics captured on failure must not mask it: the
\* exception that leaves check_public_network_connectivity or
\* _check_tenant_network_connectivity is the check's.
OriginalErrorPropagates == err # "console"

====
