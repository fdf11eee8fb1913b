------------------------------ MODULE Probes -------------------------------
(* Which targets are probed.  The master checks the text of a target when a  *)
(* task is saved (monitoring.ts validatePingTarget); every node checks what  *)
(* it is told to probe again, with the addresses its name resolves to        *)
(* (runner.go validateTask).  Both have a way out for intranets.             *)
EXTENDS Integers

CONSTANTS
  HostNames, Addresses,   \* hosts are one or the other
  LocalNames,         \* "localhost" and its like
  CutAddresses,       \* IPv6 addresses whose last group is of digits only: a port?
  Unicast,            \* ipaddr.js: range() = "unicast"
  Guarded             \* net.IP: loopback, link-local, private, unspecified

ProbeHosts == HostNames \cup Addresses

ProbesAssumption ==
  /\ HostNames \cap Addresses = {} /\ LocalNames \subseteq HostNames
  /\ CutAddresses \subseteq Addresses
  /\ Unicast \subseteq Addresses /\ Guarded \subseteq Addresses
  /\ Unicast \cap Guarded = {}

\* A port of 0 is none; text is whether the characters are those of a host.
Targets == [host : ProbeHosts, port : Nat, brackets : BOOLEAN, text : BOOLEAN]
Types   == {"tcp", "icmp"}

\* The master does not see an address in an ICMP target with a port, and takes
\* the last group of a bare TCP one for a port if it can.
HostRead(target, type) ==
  \/ type = "icmp" /\ target.port = 0
  \/ type = "tcp" /\ (target.host \in CutAddresses => target.brackets)

ValidatePingTarget(target, type, internal) ==
  /\ target.text
  /\ IF type = "tcp" THEN target.port < 65536 ELSE ~target.brackets
  /\ \/ internal
     \/ ~HostRead(target, type)
     \/ target.host \notin LocalNames /\ target.host \notin Addresses \ Unicast

\* The node takes brackets off only together with a port.
Named(target) == target.brackets => target.port # 0

\* The addresses a host stands for; a name that does not resolve has none.
AddressesOf(target, dns) ==
  IF ~Named(target) THEN {}
  ELSE IF target.host \in Addresses THEN {target.host} ELSE dns[target.host]

AllIn(target, dns, allowed) ==
  AddressesOf(target, dns) # {} /\ AddressesOf(target, dns) \subseteq allowed

\* The operator's list of hosts and networks, when there is one.
TargetAllowed(target, dns, list) ==
  \/ Named(target) /\ target.host \in list.hosts
  \/ list.nets # {} /\ AllIn(target, dns, list.nets)

ValidateTask(target, type, dns, list, private) ==
  /\ type \in Types
  /\ IF list.hosts # {} \/ list.nets # {} THEN TargetAllowed(target, dns, list)
     ELSE private \/ AllIn(target, dns, Addresses \ Guarded)

(***************************************************************************)
(* When they are probed: at most every five seconds, each on its own.      *)
(***************************************************************************)
Interval(seconds) == IF seconds < 5 THEN 5 ELSE seconds

Due(nextAt, now)               == nextAt <= now
NextAt(nextAt, now, seconds)   == IF Due(nextAt, now) THEN now + Interval(seconds) ELSE nextAt

\* A TCP target without a port is tried at 80; an ICMP one with a port, or
\* brackets without one, never answer.
ProbedPort(target) == IF target.port = 0 THEN 80 ELSE target.port
Answers(target, type, up) == up /\ IF type = "icmp" THEN target.port = 0 ELSE Named(target)
=============================================================================
