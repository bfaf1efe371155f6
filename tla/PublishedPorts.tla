--------------------------- MODULE PublishedPorts ---------------------------
(***************************************************************************)
(* --publish, from the command line to a listener on the host: the rows of *)
(* the catalog, the rules a launch or its retries put before those of the  *)
(* VM's template, and what Lima forwards by them.  agbranch ports, which   *)
(* changes nothing, is the test Answers.  Addresses are left out: a rule   *)
(* for guest address 0.0.0.0 matches a listener on any address.            *)
(***************************************************************************)
EXTENDS Naturals, Sequences, FiniteSets, SequencesExt

MaxPort == 65535
PortNumbers == 1..MaxPort

CONSTANTS
    Requests,     \* bound: the --publish arguments of a launch, as sequences
    Services,     \* bound: what may listen in the guest, [guest, proto]
    Rivals,       \* bound: host ports that others take, [host, proto]
    MaxBreaks     \* bound: failures and deaths of launches and retries

Protocols == {"tcp", "udp"}

\* HOST:GUEST/PROTO, where parts holds the numbers and proto "" when there is none.
Arguments == [parts: Seq(Nat), proto: Protocols \cup {"", "sctp"}]

ASSUME PublishedPortsAssumption ==
    /\ Requests \subseteq Seq(Arguments)
    /\ Services \subseteq [guest: PortNumbers, proto: Protocols]
    /\ Rivals \subseteq [host: PortNumbers, proto: Protocols]
    /\ MaxBreaks \in Nat

VARIABLES
    rows,       \* session_ports of the session
    order,      \* the ports in the order the running launch or retry has them
    stage,      \* the checkpoint of the launch
    lpc,        \* next step of the launch or of its retry
    vm,         \* "none", "stopped" or "running"
    rules,      \* portForwards in the instance's configuration
    active,     \* the rules the VM was booted with
    listening,  \* what listens in the guest
    busy,       \* host ports that another session or program has
    breaks

launchVars == <<rows, order, stage, lpc, breaks>>
vmVars == <<vm, rules, active>>
portVars == <<launchVars, vmVars, busy, listening>>

Ports == [host: PortNumbers, guest: PortNumbers, proto: Protocols]

-------------------------------------------------------------------------------
(* Arguments *)

WellFormed(arg) ==
    /\ Len(arg.parts) \in 1..2
    /\ \A i \in DOMAIN arg.parts : arg.parts[i] \in PortNumbers
    /\ arg.proto \in Protocols \cup {""}

PortOf(arg) ==
    [host |-> Head(arg.parts), guest |-> Last(arg.parts),
     proto |-> IF arg.proto = "" THEN "tcp" ELSE arg.proto]

\* No host port twice; two host ports may lead to one guest port.
Distinct(ports) ==
    \A i, j \in DOMAIN ports :
        ports[i].host = ports[j].host /\ ports[i].proto = ports[j].proto => i = j

Precedes(p, q) ==
    \/ p.host < q.host
    \/ p.host = q.host /\ p.proto = "tcp" /\ q.proto = "udp"

\* The answer of list_session_ports: every row once, ordered by host port and
\* protocol.
Listings ==
    {s \in [1..Cardinality(rows) -> rows] :
        /\ ToSet(s) = rows
        /\ \A i, j \in DOMAIN s : i < j => Precedes(s[i], s[j])}

-------------------------------------------------------------------------------
(* Lima's port forwarding *)

Ignore == [host |-> 0, guest |-> 0, proto |-> "any"]
TemplateRules == <<Ignore, Ignore>>

Matches(rule, s) == rule.guest \in {0, s.guest} /\ rule.proto \in {"any", s.proto}

\* The first rule that matches decides; what no rule matches is forwarded to the
\* same port of the host.
Forward(s) ==
    LET hits == {i \in DOMAIN active : Matches(active[i], s)}
        i == CHOOSE h \in hits : \A k \in hits : h <= k
    IN IF hits = {} THEN [host |-> s.guest, guest |-> s.guest, proto |-> s.proto] ELSE active[i]

\* No host port is looked at before a launch, but for the others of that launch:
\* one that is taken stays with whoever has it.
Taken(p) == [host |-> p.host, proto |-> p.proto] \in busy

Forwards ==
    IF vm = "running" THEN {f \in {Forward(s) : s \in listening} \ {Ignore} : ~Taken(f)} ELSE {}

-------------------------------------------------------------------------------
Rules == Ports \cup {Ignore}

PortTypeOK ==
    /\ rows \subseteq Ports /\ order \in Seq(Ports)
    /\ stage \in {"", "vm_cloned", "ports_configured", "vm_started"}
    /\ lpc \in {"none", "clone", "configure", "checkpoint", "boot", "up", "broken",
                "destroyed", "closed"}
    /\ vm \in {"none", "stopped", "running"}
    /\ rules \in Seq(Rules) /\ active \in Seq(Rules)
    /\ listening \subseteq Services
    /\ busy \subseteq Rivals
    /\ breaks \in 0..MaxBreaks

PortInit ==
    /\ rows = {} /\ order = <<>> /\ stage = "" /\ lpc = "none" /\ breaks = 0
    /\ vm = "none" /\ rules = <<>> /\ active = <<>>
    /\ listening = {}
    /\ busy = {}

-------------------------------------------------------------------------------
(* launch, open and retry *)

\* insert_session_ports: a set, the order of the arguments is gone.
InsertPorts(ports) == rows' = ToSet(ports)

Launch(args) ==
    LET ports == [i \in DOMAIN args |-> PortOf(args[i])]
    IN /\ lpc = "none"
       /\ \A i \in DOMAIN args : WellFormed(args[i])
       /\ Distinct(ports)
       /\ InsertPorts(ports) /\ order' = ports
       /\ lpc' = "clone"
       /\ UNCHANGED <<stage, breaks, vmVars, busy, listening>>

\* The clone has the configuration of the base.
Clone ==
    /\ lpc = "clone"
    /\ vm' = "stopped" /\ rules' = TemplateRules
    /\ stage' = "vm_cloned" /\ lpc' = "configure"
    /\ UNCHANGED <<rows, order, breaks, active, busy, listening>>

\* Mutant: the published ports come after the rules of the template.
EditBehind(ports) == rules \o ports

\* .portForwards = [explicit] + .portForwards
Edit(ports) == ports \o rules

\* limactl edit refuses a running instance.
Configure ==
    /\ lpc = "configure"
    /\ IF order = <<>> THEN lpc' = "checkpoint" /\ UNCHANGED rules
       ELSE IF vm = "stopped" THEN lpc' = "checkpoint" /\ rules' = Edit(order)
       ELSE lpc' = "broken" /\ UNCHANGED rules
    /\ UNCHANGED <<rows, order, stage, breaks, vm, active, busy, listening>>

Checkpoint ==
    /\ lpc = "checkpoint"
    /\ stage' = "ports_configured" /\ lpc' = "boot"
    /\ UNCHANGED <<rows, order, breaks, vmVars, busy, listening>>

\* A VM that boots takes its rules from its configuration; one that runs keeps them.
PowerOn ==
    /\ vm \in {"stopped", "running"} /\ vm' = "running"
    /\ active' = IF vm = "stopped" THEN rules ELSE active
    /\ UNCHANGED rules

Boot ==
    /\ lpc = "boot" /\ lpc' = "up"
    /\ PowerOn /\ stage' = "vm_started"
    /\ UNCHANGED <<rows, order, breaks, busy, listening>>

\* A step of the launch fails, or its process dies.  Before the first checkpoint a
\* failure takes the row back and a death leaves a row that cannot be retried.
Break ==
    /\ lpc \in {"clone", "configure", "checkpoint", "boot"} /\ breaks < MaxBreaks
    /\ breaks' = breaks + 1
    /\ \/ lpc = "clone" /\ lpc' = "none" /\ rows' = {}
       \/ lpc' = "broken" /\ UNCHANGED rows
    /\ UNCHANGED <<order, stage, vmVars, busy, listening>>

\* retry has the ports from the catalog, not from the command line.
Retry ==
    /\ lpc = "broken" /\ stage # "" /\ vm # "none"
    /\ order' \in Listings
    /\ lpc' = IF stage = "vm_cloned" THEN "configure" ELSE "boot"
    /\ UNCHANGED <<rows, stage, breaks, vmVars, busy, listening>>

-------------------------------------------------------------------------------
(* What else happens to the VM *)

\* start, and stop, take no part in the launch.
PowerOff == vm = "running" /\ vm' = "stopped" /\ UNCHANGED <<rules, active>>

SwitchVm ==
    /\ lpc \in {"up", "broken", "configure", "checkpoint", "boot"}
    /\ \/ PowerOff
       \/ vm = "stopped" /\ PowerOn
    /\ listening' = {}
    /\ UNCHANGED <<launchVars, busy>>

\* close destroys the VM and then records it; the row and its ports stay.
DestroyVm ==
    /\ lpc \in {"up", "broken"}
    /\ lpc' = "destroyed"
    /\ vm' = "none" /\ rules' = <<>> /\ active' = <<>> /\ listening' = {}
    /\ UNCHANGED <<rows, order, stage, breaks, busy>>

RecordClosed ==
    /\ lpc = "destroyed" /\ lpc' = "closed"
    /\ UNCHANGED <<rows, order, stage, breaks, vmVars, busy, listening>>

Serve(s) ==
    /\ vm = "running"
    /\ listening' = IF s \in listening THEN listening \ {s} ELSE listening \cup {s}
    /\ UNCHANGED <<launchVars, vmVars, busy>>

\* Another session or program takes a host port that Lima has not taken for this
\* one.  Nobody gives one back: what Lima would make of that is not known here.
TakePort(r) ==
    /\ r \notin busy /\ \A f \in Forwards : r # [host |-> f.host, proto |-> f.proto]
    /\ busy' = busy \cup {r}
    /\ UNCHANGED <<launchVars, vmVars, listening>>

\* What agbranch ports calls a listening port: it looks at the guest only.
Answers(p) == [guest |-> p.guest, proto |-> p.proto] \in listening

-------------------------------------------------------------------------------
PortNext ==
    \/ \E q \in Requests : Launch(q)
    \/ Clone \/ Configure \/ Checkpoint \/ Boot \/ Break \/ Retry
    \/ SwitchVm \/ DestroyVm \/ RecordClosed \/ \E s \in Services : Serve(s)
    \/ \E r \in Rivals : TakePort(r)

-------------------------------------------------------------------------------
\* Two host ports lead to one guest port: Lima's first rule has it.
Shared(p) == \E q \in rows \ {p} : q.guest = p.guest /\ q.proto = p.proto

\* The host reaches what was published and nothing else, however often the rules
\* were put in place by retries and whoever started the VM: once ports_configured
\* is recorded and the VM is booted after it, every published service that listens
\* is forwarded unless its host port is somebody else's, which no command of
\* agbranch finds out; and a service is never forwarded to a port it was not
\* published on.
ForwardsArePublished ==
    /\ Forwards \subseteq rows
    /\ lpc = "up" => \A p \in rows :
           vm = "running" /\ Answers(p) /\ ~Shared(p) /\ ~Taken(p) => p \in Forwards

\* Row and VM of this session come and go as SessionRegistry says: there is a VM
\* only while there is a row that is not closed, though launches die, retries and
\* calls boot it and close has a step between the two.
RowState ==
    IF lpc = "none" THEN "none" ELSE IF lpc = "closed" THEN "closed" ELSE "open"

Registry == INSTANCE SessionRegistry
            WITH state <- RowState, machine <- IF vm = "none" THEN "absent" ELSE vm,
                 NoRow <- "none", Closed <- "closed", Opening <- "open",
                 Lives <- {"none", "open", "closed"}

ImplementsRegistry == Registry!RegistrySpec

-------------------------------------------------------------------------------
(* The inductive invariant behind them *)

\* Before the first rule that ignores everything there are rules for ports of the
\* session only, for those of ps among them.
Guarded(list, ps) ==
    \E n \in DOMAIN list :
        /\ list[n] = Ignore
        /\ \A i \in 1..(n - 1) : list[i] \in rows
        /\ \A p \in ps : \E i \in 1..(n - 1) : list[i] = p

\* The rows for which the configuration of the VM has rules by now.
Configured ==
    IF lpc = "checkpoint" \/ stage \in {"ports_configured", "vm_started"} THEN rows ELSE {}

StageInv ==
    /\ lpc \in {"none", "clone"} => vm = "none" /\ stage = ""
    /\ lpc \in {"configure", "checkpoint"} => stage = "vm_cloned"
    /\ lpc = "boot" => stage = "ports_configured"
    /\ lpc = "up" => stage = "vm_started"
    /\ lpc = "broken" => stage # "vm_started"
    /\ lpc \in {"destroyed", "closed"} => vm = "none"

\* The rules that a VM has and was booted with guard its session.
GuardInv ==
    /\ vm # "none" => Guarded(rules, Configured)
    /\ vm = "running" => Guarded(active, Configured)

PortInv ==
    /\ StageInv /\ GuardInv
    /\ IsFiniteSet(rows)
    /\ lpc \in {"clone", "configure"} => ToSet(order) = rows

===============================================================================
