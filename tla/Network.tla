--------------------------------- MODULE Network ---------------------------------
(***************************************************************************)
(* The network manager (modules/network/network_mgr.c).  It looks at the   *)
(* interfaces through getifaddrs, ioctl and /sys, one after the other; has *)
(* ip, ping, ss and netstat do the rest; and reads /proc/net/route itself  *)
(* when ip route fails.  Interfaces come, go and change state at any time. *)
(*                                                                         *)
(* External: the kernel's interfaces and routes, the programs named above, *)
(* and whoever else configures the network.                                *)
(***************************************************************************)
EXTENDS Naturals, Sequences, SequencesExt, FiniteSets, Prompt

CONSTANTS Interface,  \* the interfaces, in the order of the kernel
          Inet, Inet6,\* those that have an address of the family
          MaxNames,   \* the size of processed
          Address,    \* addresses, as sequences of bytes
          Zero,       \* 0.0.0.0, which stands for every destination
          MaxRoutes,  \* the size of routes
          MaxTable    \* bound: routes of the kernel

Names == {Interface[i] : i \in DOMAIN Interface}

ASSUME NetworkAssumption ==
  /\ Interface \in Seq(Names) /\ Cardinality(Names) = Len(Interface)
  /\ Inet \subseteq Names /\ Inet6 \subseteq Names
  /\ Address \subseteq Seq(0..255)
  /\ Zero \in Address \cap Seq({0})
  /\ MaxNames \in Nat \ {0} /\ MaxRoutes \in Nat \ {0}

VARIABLES
  link,    \* the interfaces: gone, up or down
  iface,   \* the interface and the state the user has given
  there,   \* history: the interfaces at the time of getifaddrs
  printed, \* the lines of a listing
  routes,  \* history: the routes in what was read of /proc/net/route
  entries, \* the routes printed
  gateway  \* and the default gateway

listing == <<there, printed, routes, entries, gateway>>
networkVars == <<pc, told, link, iface, listing>>

NoOne == [name |-> "none", state |-> "up"]

NetworkInit ==
  /\ pc = "prompt" /\ told = "nothing"
  /\ link \in [Names -> {"gone", "up", "down"}]
  /\ iface = NoOne
  /\ there = {} /\ printed = <<>>
  /\ routes = <<>> /\ entries = <<>> /\ gateway = Zero

NetworkBegin(operation, state) ==
  /\ pc = "prompt" /\ pc' = operation /\ told' = "nothing"
  /\ iface' = [NoOne EXCEPT !.state = state]
  /\ there' = {} /\ printed' = <<>>
  /\ routes' = <<>> /\ entries' = <<>> /\ gateway' = Zero
  /\ UNCHANGED link

NetworkTell(what) == pc' = "prompt" /\ told' = what

NetworkGoesTo(next) == pc' = next /\ UNCHANGED told

Present == {n \in Names : link[n] # "gone"}

-----------------------------------------------------------------------------
(* Interfaces.                                                              *)

\* The interfaces of a set, in the order of the kernel.
InOrder(S) ==
  LET upto[i \in 0..Len(Interface)] ==
        IF i = 0 THEN <<>>
        ELSE IF Interface[i] \in S THEN Append(upto[i - 1], Interface[i]) ELSE upto[i - 1]
  IN upto[Len(Interface)]

\* getifaddrs: an entry for every interface, then those with addresses.
Entries == InOrder(Present) \o InOrder(Present \cap Inet) \o InOrder(Present \cap Inet6)

\* Mutant of CleanNames: only the name before is looked at.
CleanAdjacent(found) ==
  SelectSeq([i \in DOMAIN found |-> IF i > 1 /\ found[i] = found[i - 1] THEN "twice" ELSE found[i]],
            LAMBDA n : n # "twice")

\* A name is printed unless processed has it, which keeps the first MaxNames.
CleanNames(found) ==
  LET after[i \in 0..Len(found)] ==
        IF i = 0 THEN [processed |-> <<>>, printed |-> <<>>]
        ELSE LET a == after[i - 1]
                 n == found[i]
             IN IF n \in {a.processed[j] : j \in DOMAIN a.processed} THEN a
                ELSE [processed |-> IF Len(a.processed) < MaxNames
                                    THEN Append(a.processed, n) ELSE a.processed,
                      printed |-> Append(a.printed, n)]
  IN after[Len(found)].printed

\* network_list_interfaces_clean, alone and at the head of the information.
ListNames ==
  /\ pc \in {"net.list", "net.info"}
  /\ there' = Present /\ printed' = CleanNames(Entries)
  /\ IF pc = "net.list" THEN NetworkTell("names") ELSE NetworkGoesTo("net.ask")
  /\ UNCHANGED <<link, iface, routes, entries, gateway>>

NoList ==
  /\ pc \in {"net.list", "net.info"}
  /\ IF pc = "net.list" THEN NetworkTell("failed") ELSE NetworkGoesTo("net.ask")
  /\ UNCHANGED <<link, iface, listing>>

\* An empty answer, or none, ends the operation.
AskInterface(next, state) ==
  /\ \/ NetworkTell("nothing") /\ UNCHANGED iface
     \/ \E n \in Names : iface' = [name |-> n, state |-> state] /\ NetworkGoesTo(next)
  /\ UNCHANGED <<link, listing>>

InfoAsks == pc = "net.ask" /\ AskInterface("net.find", iface.state)

\* State and addresses come from a second getifaddrs.
InfoFinds ==
  /\ pc = "net.find"
  /\ IF iface.name \in Present
     THEN iface' = [iface EXCEPT !.state = link[iface.name]] /\ NetworkGoesTo("net.details")
     ELSE NetworkTell("no-such-interface") /\ UNCHANGED iface
  /\ UNCHANGED <<link, listing>>

\* ioctl and /sys give "N/A" for an interface that has gone in the meantime.
InfoDetails ==
  /\ pc = "net.details"
  /\ NetworkTell(IF iface.name \in Present THEN "details" ELSE "details-with-N/A")
  /\ UNCHANGED <<link, iface, listing>>

-----------------------------------------------------------------------------
(* network_bring_interface_state, and the configuration that is only shown. *)

ConfigureAsks == pc = "net.config" /\ AskInterface("net.config.address", iface.state)

ConfigureShows ==
  /\ pc = "net.config.address"
  /\ \E what \in {"nothing", "commands"} : NetworkTell(what)
  /\ UNCHANGED <<link, iface, listing>>

LinkAsks == pc = "net.link" /\ AskInterface("net.link.mode", iface.state)

LinkMode ==
  /\ pc = "net.link.mode"
  /\ \/ \E what \in {"nothing", "commands", "invalid"} : NetworkTell(what)
     \/ NetworkGoesTo("net.link.ip")
  /\ UNCHANGED <<link, iface, listing>>

\* ip link set; an ip that is killed may have set it nevertheless.
LinkSets ==
  /\ pc = "net.link.ip"
  /\ \/ NetworkTell("failed") /\ UNCHANGED link
     \/ /\ iface.name \in Present
        /\ NetworkTell("set") \/ NetworkTell("failed")
        /\ link' = [link EXCEPT ![iface.name] = iface.state]
  /\ UNCHANGED <<iface, listing>>

-----------------------------------------------------------------------------
(* Routes.                                                                  *)

Routes == UNION {[1..n -> [dest : Address, gw : Address]] : n \in 0..MaxTable}

\* The kernel prints the bytes of an address as one number, the last byte
\* first, and hex_to_ip takes the number apart.
Hex(address) == Reverse(address)
\* Mutant of HexToIp: the first byte of the number first.
HexToIpForward(hex) == hex

HexToIp(hex) == Reverse(hex)

IsDefault(line) == line.dest = Zero /\ line.gw # Zero

\* parse_routing_table.
Parse(lines) ==
  LET after[i \in 0..Len(lines)] ==
        IF i = 0 THEN [routes |-> <<>>, gw |-> Zero, found |-> FALSE]
        ELSE LET a == after[i - 1]
                 line == lines[i]
                 r == [dest |-> HexToIp(line.dest), gw |-> HexToIp(line.gw)]
             IN IF Len(a.routes) >= MaxRoutes THEN a
                ELSE IF IsDefault(line) /\ ~a.found
                THEN [routes |-> Append(a.routes, r), gw |-> r.gw, found |-> TRUE]
                ELSE [a EXCEPT !.routes = Append(@, r)]
  IN after[Len(lines)]

\* ip route prints the table, or fails.
IpRoute ==
  /\ pc = "net.route"
  /\ NetworkTell("shown-by-ip") \/ NetworkGoesTo("net.proc")
  /\ UNCHANGED <<link, iface, listing>>

\* One read of /proc/net/route, which gives as many lines as fit a page.
ProcRoute ==
  /\ pc = "net.proc"
  /\ \/ NetworkTell("failed") /\ UNCHANGED <<routes, entries, gateway>>
     \/ /\ NetworkTell("routes")
        /\ \E table \in Routes :
             LET result == Parse([i \in DOMAIN table |->
                                    [dest |-> Hex(table[i].dest), gw |-> Hex(table[i].gw)]])
             IN /\ routes' = table
                /\ entries' = result.routes /\ gateway' = result.gw
  /\ UNCHANGED <<link, iface, there, printed>>

-----------------------------------------------------------------------------
\* ping, getaddrinfo, and ss with netstat to fall back on.
Ping ==
  /\ pc = "net.ping"
  /\ \E what \in {"nothing", "succeeded", "failed"} : NetworkTell(what)
  /\ UNCHANGED <<link, iface, listing>>

Lookup ==
  /\ pc = "net.dns"
  /\ \E what \in {"nothing", "resolved", "no-addresses", "failed"} : NetworkTell(what)
  /\ UNCHANGED <<link, iface, listing>>

Statistics ==
  /\ \/ pc = "net.ss" /\ (NetworkTell("succeeded") \/ NetworkGoesTo("net.netstat"))
     \/ pc = "net.netstat" /\ (NetworkTell("succeeded") \/ NetworkTell("failed"))
  /\ UNCHANGED <<link, iface, listing>>

-----------------------------------------------------------------------------
OtherLinks ==
  /\ pc # "prompt"
  /\ \E n \in Names : \E state \in {"gone", "up", "down"} \ {link[n]} :
       link' = [link EXCEPT ![n] = state]
  /\ UNCHANGED <<pc, told, iface, listing>>

NetworkStart ==
  \/ \E operation \in {"net.list", "net.info", "net.config", "net.route",
                       "net.ping", "net.dns", "net.ss"} : NetworkBegin(operation, "up")
  \/ \E state \in {"up", "down"} : NetworkBegin("net.link", state)

NetworkCommands ==
  \/ ListNames \/ NoList \/ InfoAsks \/ InfoFinds \/ InfoDetails
  \/ ConfigureAsks \/ ConfigureShows \/ LinkAsks \/ LinkMode \/ LinkSets
  \/ IpRoute \/ ProcRoute \/ Ping \/ Lookup \/ Statistics

NetworkNext == NetworkStart \/ NetworkCommands \/ OtherLinks

NetworkSpec == NetworkInit /\ [][NetworkNext]_networkVars

-----------------------------------------------------------------------------
\* The variables have their types.
NetworkTypeOK ==
  /\ link \in [Names -> {"gone", "up", "down"}]
  /\ there \subseteq Names
  /\ gateway \in Address
  /\ \A i \in DOMAIN entries : entries[i] \in [dest : Address, gw : Address]

\* A listing has all the interfaces that were there, and each of them once,
\* although getifaddrs gives a name as often as it has addresses, and not one
\* after the other; with more than MaxNames interfaces the later ones may be
\* listed again (network_list_interfaces_clean).
InterfacesListedOnce ==
  told = "names" =>
    /\ {printed[i] : i \in DOMAIN printed} = there
    /\ Cardinality(there) <= MaxNames => Len(printed) = Cardinality(there)

\* The routes printed are the first MaxRoutes of those read, with the kernel's
\* addresses, and the default gateway is that of the first default route among
\* them that has one (parse_routing_table, hex_to_ip).
RoutesShown ==
  told = "routes" =>
    LET n == IF Len(routes) < MaxRoutes THEN Len(routes) ELSE MaxRoutes
        via == {i \in 1..n : routes[i].dest = Zero /\ routes[i].gw # Zero}
    IN /\ entries = SubSeq(routes, 1, n)
       /\ IF via = {} THEN gateway = Zero
          ELSE \E i \in via : (\A j \in via : i <= j) /\ gateway = routes[i].gw
===============================================================================
