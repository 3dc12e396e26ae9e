------------------------------ MODULE TunConfig ------------------------------
(***************************************************************************)
(* Linux tun device setup of common/tun/tun_linux.go: OpenTunDevice and    *)
(* the network configuration functions configureServerInterface,          *)
(* configureClientInterface, fixBindToDevice and resetNATTables.           *)
(*                                                                         *)
(* Each configuration function is the sequence of commands it runs         *)
(* (RunNetworkConfigCommand), each with the way its error is handled:      *)
(* "fatal" returns the error, "ipv6" returns it unless                     *)
(* AllowNoIPv6NetworkConfiguration, "ignore" drops it (the iptables -D     *)
(* pass), "conntrack" treats "0 flow entries have been deleted" as         *)
(* success.  A command changes the host's network state, which outlives   *)
(* the process: sysctls and NAT rules stay, while addresses and routes go  *)
(* with the tun device.  The process may die between any two commands and *)
(* be started again.                                                       *)
(***************************************************************************)
EXTENDS Naturals, Sequences

CONSTANTS
    RouteDestinations,    \* config.RouteDestinations: "v4", "v6" or "bad"
    TransientFailure,     \* may iptables -D fail while the rule exists?
    MaxCalls,             \* bound on configuration calls in a run
    MaxFlows              \* bound on NAT'ed flows of a recycled address

ASSUME /\ TransientFailure \in BOOLEAN
       /\ RouteDestinations \in Seq({"v4", "v6", "bad"})
       /\ MaxCalls \in Nat /\ MaxFlows \in Nat

VARIABLES
    host,     \* the host's network state (a record, see HostInit)
    job,      \* the configuration function running, or "none"
    pc,       \* index of its next command
    result,   \* the job and outcome of the call that just returned
    calls,    \* configuration calls so far
    allowNoIPv6  \* config.AllowNoIPv6NetworkConfiguration, fixed per process

vars == << host, job, pc, result, calls, allowNoIPv6 >>

Jobs == {"open", "server", "client", "bind", "reset"}

(* Device items disappear with the tun device; the rest persist.          *)
(* An item is a command and its destination index (0 for all but routes).*)
DeviceItems == {<<"addr4", 0>>, <<"addr6", 0>>} \cup {<<"route", i>> : i \in DOMAIN RouteDestinations}

HostInit ==
    [items |-> {},       \* addresses, sysctls and routes in effect
     nat4 |-> 0,         \* MASQUERADE rules in the iptables nat POSTROUTING chain
     nat6 |-> 0,         \* the same in ip6tables
     flows |-> 0,        \* conntrack entries NAT'ed from the recycled address
     rawFds |-> 0,       \* fds from unix.Open not closed nor wrapped in a file
     device |-> FALSE]   \* the tun device exists (its *os.File is open)

-----------------------------------------------------------------------------
(***************************************************************************)
(* The command lists                                                       *)
(***************************************************************************)

Cmd(c, policy) == [cmd |-> c, dst |-> 0, policy |-> policy]

(* OpenTunDevice: unix.Open, the TUNSETIFF ioctl, SetNonblock; a failure   *)
(* after the open closes the fd; success wraps it in an os.File.           *)
OpenTunSteps ==
    << Cmd("open", "fatal"), Cmd("ioctl", "close"), Cmd("nonblock", "close"),
       Cmd("newfile", "fatal") >>

\* The rules added without first dropping an existing one (a regression).
ServerStepsNoDelete ==
    << Cmd("addr4", "fatal"), Cmd("addr6", "ipv6"),
       Cmd("fwd4", "fatal"), Cmd("fwd6", "ipv6"),
       Cmd("nat4add", "fatal"), Cmd("nat6add", "ipv6") >>

(* configureServerInterface: IPv4 address and MTU, IPv6 address, the two  *)
(* forwarding sysctls, then for mode in {-D, -A} the iptables and          *)
(* ip6tables MASQUERADE rules; a -D error is ignored.                      *)
ServerSteps ==
    << Cmd("addr4", "fatal"), Cmd("addr6", "ipv6"),
       Cmd("fwd4", "fatal"), Cmd("fwd6", "ipv6"),
       Cmd("nat4del", "ignore"), Cmd("nat6del", "ignore"),
       Cmd("nat4add", "fatal"), Cmd("nat6add", "ipv6") >>

(* The route loop of configureClientInterface, skipping destinations of   *)
(* family `skip`: a destination that parses as neither IP nor CIDR returns *)
(* the error; the others get "ip -6 route replace".                        *)
RouteLoop(skip) ==
    LET step(i) == CASE RouteDestinations[i] = "bad"  -> Cmd("parse", "fatal")
                     [] RouteDestinations[i] = skip   -> Cmd("skip", "ignore")
                     [] OTHER -> [cmd |-> "route", dst |-> i, policy |-> "ipv6"]
    IN SelectSeq([i \in DOMAIN RouteDestinations |-> step(i)],
                 LAMBDA st : st.cmd # "skip")

\* The loop with the IP.To4() test inverted (a plausible slip).
RouteStepsInverted == RouteLoop("v6")

\* IPv4 destinations are skipped: `if IP.To4() != nil { continue }`.
RouteSteps == RouteLoop("v4")

ClientSteps == << Cmd("addr4", "fatal"), Cmd("addr6", "ipv6") >> \o RouteSteps

\* fixBindToDevice: accept_local, rp_filter for all and for the tun device.
BindSteps ==
    << Cmd("accept_local", "fatal"), Cmd("rp_all", "fatal"), Cmd("rp_tun", "fatal") >>

\* resetNATTables: conntrack --delete --src-nat --orig-src <address>.
ResetSteps == << Cmd("conntrack", "conntrack") >>

Steps(j) ==
    CASE j = "open"   -> OpenTunSteps
      [] j = "server" -> ServerSteps
      [] j = "client" -> ClientSteps
      [] j = "bind"   -> BindSteps
      [] OTHER        -> ResetSteps

(* What a command that succeeds does to the host.                          *)
Apply(c, d, h) ==
    CASE c = "nat4del"  -> [h EXCEPT !.nat4 = @ - 1]
      [] c = "nat6del"  -> [h EXCEPT !.nat6 = @ - 1]
      [] c = "nat4add"  -> [h EXCEPT !.nat4 = @ + 1]
      [] c = "nat6add"  -> [h EXCEPT !.nat6 = @ + 1]
      [] c = "conntrack" -> [h EXCEPT !.flows = 0]
      [] c = "open"     -> [h EXCEPT !.rawFds = @ + 1]
      [] c = "newfile"  -> [h EXCEPT !.rawFds = @ - 1, !.device = TRUE]
      [] c \in {"ioctl", "nonblock", "parse"} -> h
      [] OTHER          -> [h EXCEPT !.items = @ \cup {<<c, d>>}]

(* Whether a command can succeed: commands on the device need it to exist; *)
(* -D fails when there is no rule; conntrack exits non-zero when it        *)
(* deleted nothing; a destination that does not parse never succeeds.      *)
CanSucceed(c, h) ==
    /\ c \in {"addr4", "addr6", "route", "rp_tun"} => h.device
    /\ c = "nat4del" => h.nat4 > 0
    /\ c = "nat6del" => h.nat6 > 0
    /\ c = "conntrack" => h.flows > 0
    /\ c # "parse"

(* The outcomes of a command besides success: "zero" is conntrack's exit *)
(* when it deleted nothing; "fail" is any other error (missing binary, no  *)
(* root, a held xtables lock), except that os.NewFile does not fail and,  *)
(* with TransientFailure = FALSE, a -D on an existing rule does not fail.  *)
Failures(c, h) ==
    (IF c = "conntrack" /\ h.flows = 0 THEN {"zero"} ELSE {})
    \cup (IF \/ c = "newfile"                    \* os.NewFile on a valid fd
             \/ c = "nat4del" /\ h.nat4 > 0 /\ ~TransientFailure
             \/ c = "nat6del" /\ h.nat6 > 0 /\ ~TransientFailure
          THEN {} ELSE {"fail"})

(* A failed command under its policy: go on to the next command, or return *)
(* the error.                                                              *)
Continues(st, outcome) ==
    \/ st.policy = "ignore"
    \/ st.policy = "ipv6" /\ allowNoIPv6
    \/ st.policy = "conntrack" /\ outcome = "zero"

\* An error return that leaves the fd open (a plausible regression).
OnErrorNoClose(st, h) == h

\* On the "close" policy unix.Close(fd) runs before the error is returned.
OnError(st, h) == IF st.policy = "close" THEN [h EXCEPT !.rawFds = @ - 1] ELSE h

-----------------------------------------------------------------------------
NoResult == [job |-> "none", ok |-> FALSE]

TypeOK ==
    /\ host.nat4 \in Nat /\ host.nat6 \in Nat /\ host.flows \in 0..MaxFlows
    /\ host.rawFds \in 0..1 /\ host.device \in BOOLEAN
    /\ job \in Jobs \cup {"none"}
    /\ pc \in 1..(Len(ClientSteps) + Len(ServerSteps))
    /\ result \in [job : Jobs \cup {"none"}, ok : BOOLEAN]
    /\ calls \in 0..MaxCalls
    /\ allowNoIPv6 \in BOOLEAN

Init ==
    /\ host = HostInit
    /\ job = "none"
    /\ pc = 1
    /\ result = NoResult
    /\ calls = 0
    /\ allowNoIPv6 \in BOOLEAN     \* the server config sets it either way

\* The host calls one of the functions; one device at a time is opened.
Begin(j) ==
    /\ job = "none" /\ calls < MaxCalls
    /\ j = "open" => ~host.device
    /\ job' = j /\ pc' = 1 /\ calls' = calls + 1
    /\ result' = NoResult
    /\ UNCHANGED host

Return(ok) ==
    /\ job' = "none" /\ pc' = 1
    /\ result' = [job |-> job, ok |-> ok]

\* After command pc: on to the next, or return nil after the last.
Next_(ok) ==
    IF pc = Len(Steps(job)) THEN Return(ok)
    ELSE /\ pc' = pc + 1 /\ UNCHANGED << job, result >>

\* Command pc runs and succeeds.
StepOk ==
    LET st == Steps(job)[pc] IN
    /\ job # "none" /\ CanSucceed(st.cmd, host)
    /\ host' = Apply(st.cmd, st.dst, host)
    /\ Next_(TRUE)
    /\ UNCHANGED calls

\* Command pc fails; its error is dropped or returned.
StepFails ==
    LET st == Steps(job)[pc] IN
    /\ job # "none"
    /\ \E outcome \in Failures(st.cmd, host) :
         \/ /\ Continues(st, outcome)
            /\ UNCHANGED host
            /\ Next_(TRUE)
         \/ /\ ~Continues(st, outcome)
            /\ host' = OnError(st, host)
            /\ Return(FALSE)
    /\ UNCHANGED calls

(* The process dies: its fds close, the tun device with its addresses and  *)
(* routes goes away; sysctls and NAT rules stay.                           *)
Crash ==
    /\ host' = [host EXCEPT !.rawFds = 0, !.device = FALSE,
                            !.items = @ \ DeviceItems]
    /\ job' = "none" /\ pc' = 1 /\ result' = NoResult
    /\ UNCHANGED calls

\* A client behind the recycled address opens a NAT'ed flow.
Traffic ==
    /\ host.flows < MaxFlows
    /\ host' = [host EXCEPT !.flows = @ + 1]
    /\ UNCHANGED << job, pc, result, calls >>

Next ==
    /\ \/ \E j \in Jobs : Begin(j)
       \/ StepOk \/ StepFails \/ Crash \/ Traffic
    /\ UNCHANGED allowNoIPv6

Spec == Init /\ [][Next]_vars

-----------------------------------------------------------------------------
(***************************************************************************)
(* Properties                                                              *)
(***************************************************************************)

(* However often the server is (re)configured, crashing between any two    *)
(* commands, each nat POSTROUTING chain holds at most one MASQUERADE rule: *)
(* the -D before -A is there "to avoid duplicates".                        *)
NoDuplicateMasquerade ==
    host.nat4 <= 1 /\ host.nat6 <= 1

(* What a nil return promises: the configuration is in effect.  The server *)
(* has its IPv4 address, forwarding and masquerading (and the IPv6 ones    *)
(* unless AllowNoIPv6); the client its address and a route for every IPv6  *)
(* destination, and no destination was unparseable; fixBindToDevice's     *)
(* three sysctls are set; resetNATTables left no flow; OpenTunDevice       *)
(* returned a device.                                                      *)
Configured(j, h) ==
    CASE j = "server" ->
            /\ {<<"addr4", 0>>, <<"fwd4", 0>>} \subseteq h.items /\ h.nat4 > 0
            /\ allowNoIPv6 \/ ({<<"addr6", 0>>, <<"fwd6", 0>>} \subseteq h.items /\ h.nat6 > 0)
      [] j = "client" ->
            /\ <<"addr4", 0>> \in h.items
            /\ \A i \in DOMAIN RouteDestinations : RouteDestinations[i] # "bad"
            /\ allowNoIPv6 \/ /\ <<"addr6", 0>> \in h.items
                              /\ \A i \in DOMAIN RouteDestinations :
                                   RouteDestinations[i] = "v6" => <<"route", i>> \in h.items
      [] j = "bind" -> {<<"accept_local", 0>>, <<"rp_all", 0>>, <<"rp_tun", 0>>} \subseteq h.items
      [] j = "reset" -> h.flows = 0
      [] OTHER -> h.device

SucceededOnlyIfConfigured ==
    [][result'.ok /\ result = NoResult /\ job # "none" => Configured(job, host')]_vars

(* OpenTunDevice never leaks the fd it opened: outside the call every fd   *)
(* from unix.Open is closed or owned by the returned *os.File, whichever   *)
(* command failed.                                                         *)
NoFdLeak ==
    job # "open" => host.rawFds = 0

====
