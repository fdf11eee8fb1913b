----------------------------- MODULE NodeLabels -----------------------------
(* What a node is shown as: its address and country, which come with its     *)
(* reports, and the country, name and position an administrator gives it.    *)
(* A report reads the row, may ask ipinfo.io where its address is, and only  *)
(* then writes the row; the administrator's requests and other reports come  *)
(* in between.                                                               *)
EXTENDS Integers

CONSTANTS
  Nodes, Handlers,   \* Handlers: reports in progress at once
  Ips, Private,      \* addresses, and those nobody is asked about
  Countries, Where,  \* per address: the country ipinfo.io gives, or NoCountry
  Names, NoIp, NoCountry, NoName

AnyIp      == Ips \cup {NoIp}
AnyCountry == Countries \cup {NoCountry}
AnyName    == Names \cup {NoName}

LabelsAssumption ==
  /\ Private \subseteq Ips /\ NoIp \notin Ips /\ "none" \notin Nodes
  /\ NoCountry \notin Countries /\ Where \in [Ips -> AnyCountry]

VARIABLES
  row,       \* per node: the labels in its row of nodes
  cache,     \* per address: the answer remembered by the process, "absent" if none
  h,         \* per handler: where it is, for which node, and what it holds
  chosen,    \* history: per node, the country the administrator's last request set
  reported   \* history: per node, the addresses reports of it came from

labelVars == <<row, cache, h, chosen, reported>>

NoRow   == [here |-> FALSE, ip |-> NoIp, country |-> NoCountry, manual |-> FALSE,
           name |-> NoName, order |-> 0]
Free    == [pc |-> "free", node |-> "none", ip |-> NoIp, country |-> NoCountry]
Unasked == [known |-> FALSE, country |-> NoCountry]

LabelsInit ==
  /\ row = [n \in Nodes |-> NoRow] /\ cache = [i \in Ips |-> Unasked]
  /\ h = [x \in Handlers |-> Free]
  /\ chosen = [n \in Nodes |-> NoCountry] /\ reported = [n \in Nodes |-> {}]

(***************************************************************************)
(* A report, once its token named the node.  The address is null unless a  *)
(* trusted proxy gave it.                                                  *)
(***************************************************************************)
ClientIp(x, n, ip) ==
  /\ h[x].pc = "free"
  /\ h' = [h EXCEPT ![x] = [pc |-> "net", node |-> n, ip |-> ip, country |-> NoCountry]]
  /\ reported' = [reported EXCEPT ![n] = IF ip = NoIp THEN @ ELSE @ \cup {ip}]
  /\ UNCHANGED <<row, cache, chosen>>

\* A lookup is due for another address, or while there is no country.
ShouldResolve(ip, oldIp, country) == ip # NoIp /\ (country = NoCountry \/ ip # oldIp)

\* getNodeNet; a country pinned by the administrator is not looked up.
GetNodeNet(x) ==
  LET r == row[h[x].node]
  IN  /\ h[x].pc = "net"
      /\ h' = [h EXCEPT ![x].pc =
           IF ~r.manual /\ ShouldResolve(h[x].ip, r.ip, r.country) THEN "lookup" ELSE "save"]
      /\ UNCHANGED <<row, cache, chosen, reported>>

Resolved(x, country) == h' = [h EXCEPT ![x] = [@ EXCEPT !.pc = "save", !.country = country]]
Remember(ip, country) == cache' = [cache EXCEPT ![ip] = [known |-> TRUE, country |-> country]]

ResolveCountry(x) ==
  LET ip == h[x].ip
  IN  /\ h[x].pc = "lookup"
      /\ IF ip \in Private THEN Resolved(x, NoCountry) /\ UNCHANGED cache
         ELSE IF cache[ip].known THEN Resolved(x, cache[ip].country) /\ UNCHANGED cache
         ELSE \/ Resolved(x, Where[ip]) /\ Remember(ip, Where[ip])
              \/ Resolved(x, NoCountry) /\ Remember(ip, NoCountry)   \* an answer other than 200
              \/ Resolved(x, NoCountry) /\ UNCHANGED cache           \* no answer
      /\ UNCHANGED <<row, chosen, reported>>

Known(new, old, none) == IF new = none THEN old ELSE new

\* The upsert of saveReport; a new node comes last.
Labelled(r, ip, country, order) ==
  [r EXCEPT !.here = TRUE, !.ip = Known(ip, @, NoIp), !.order = order,
            !.country = IF r.manual THEN @ ELSE Known(country, @, NoCountry)]

Last(order) ==
  /\ \A n \in Nodes : row[n].here => row[n].order < order
  /\ order = 0 \/ \E n \in Nodes : row[n].here /\ row[n].order + 1 = order

SaveReport(x) ==
  LET n == h[x].node
  IN  /\ h[x].pc = "save"
      /\ \E order \in Nat :
           /\ IF row[n].here THEN order = row[n].order ELSE Last(order)
           /\ row' = [row EXCEPT ![n] = Labelled(@, h[x].ip, h[x].country, order)]
      /\ h' = [h EXCEPT ![x] = Free]
      /\ UNCHANGED <<cache, chosen, reported>>

\* A query throws, or the process dies.
Abort(x) ==
  /\ h' = [h EXCEPT ![x] = Free]
  /\ UNCHANGED <<row, cache, chosen, reported>>

(***************************************************************************)
(* The administrator.  One PATCH can set the name, and then fail to set    *)
(* the country.                                                            *)
(***************************************************************************)
SetNodeName(n, name) ==
  /\ row' = [row EXCEPT ![n].name = IF row[n].here THEN name ELSE @]
  /\ UNCHANGED <<cache, h, chosen, reported>>

\* No country takes the pin away, and leaves the next report to look it up.
SetNodeCountry(n, country) ==
  /\ row[n].here
  /\ row' = [row EXCEPT ![n] = [@ EXCEPT !.country = country, !.manual = (country # NoCountry)]]
  /\ chosen' = [chosen EXCEPT ![n] = country]
  /\ UNCHANGED <<cache, h, reported>>

\* The nodes of a list take their places in it; of a node named twice, either.
SetNodeOrder(places) ==
  /\ row' = [n \in Nodes |->
       IF n \in DOMAIN places /\ row[n].here THEN [row[n] EXCEPT !.order = places[n]] ELSE row[n]]
  /\ UNCHANGED <<cache, h, chosen, reported>>

DeleteNode(n) ==
  /\ row' = [row EXCEPT ![n] = NoRow] /\ chosen' = [chosen EXCEPT ![n] = NoCountry]
  /\ UNCHANGED <<cache, h, reported>>

\* Entries of the cache last a day, or as long as the process.
Forget(ip) ==
  /\ cache' = [cache EXCEPT ![ip] = Unasked]
  /\ UNCHANGED <<row, h, chosen, reported>>

Reporting(x) == GetNodeNet(x) \/ ResolveCountry(x) \/ SaveReport(x) \/ Abort(x)

Administering(n) ==
  \/ \E name \in AnyName : SetNodeName(n, name)
  \/ \E c \in AnyCountry : SetNodeCountry(n, c)
  \/ DeleteNode(n)

LabelsNext ==
  \/ \E x \in Handlers, n \in Nodes, ip \in AnyIp : ClientIp(x, n, ip)
  \/ \E x \in Handlers : Reporting(x)
  \/ \E n \in Nodes : Administering(n)
  \/ \E listed \in SUBSET Nodes : \E places \in [listed -> Nat] : SetNodeOrder(places)
  \/ \E ip \in Ips : Forget(ip)

LabelsSpec == LabelsInit /\ [][LabelsNext]_labelVars

-----------------------------------------------------------------------------
\* The rows and the handlers' locals have their types.
Row     == [here : BOOLEAN, ip : AnyIp, country : AnyCountry, manual : BOOLEAN,
            name : AnyName, order : Nat]
Handler == [pc : {"free", "net", "lookup", "save"}, node : Nodes \cup {"none"},
            ip : AnyIp, country : AnyCountry]

LabelsTypeOK ==
  /\ row \in [Nodes -> Row] /\ h \in [Handlers -> Handler]
  /\ cache \in [Ips -> [known : BOOLEAN, country : AnyCountry]]
  /\ chosen \in [Nodes -> AnyCountry]
  /\ reported \in [Nodes -> SUBSET Ips]

\* The country an administrator gave a node stands until another request or
\* the node's deletion, whatever reports had looked up meanwhile.
ChoiceStands ==
  \A n \in Nodes : chosen[n] # NoCountry =>
    row[n].here /\ row[n].manual /\ row[n].country = chosen[n]

\* A country nobody gave is that of an address the node did report from.
CountryHasSource ==
  \A n \in Nodes : row[n].country # NoCountry /\ ~row[n].manual =>
    \E ip \in reported[n] : Where[ip] = row[n].country

(***************************************************************************)
(* A node has moved to an address, its lookup gave nothing, and its row has *)
(* the new address with the old country; no report on its way is about to  *)
(* change that.                                                            *)
(***************************************************************************)
LeftOver(n, ip, country) ==
  /\ row[n].here /\ row[n].ip = ip /\ row[n].country = country
  /\ \A x \in Handlers : h[x].node = n =>
       h[x].ip \in {ip, NoIp} /\ h[x].pc \in {"net", "save"} /\ h[x].country = NoCountry
=============================================================================
