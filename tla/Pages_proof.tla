---------------------------- MODULE Pages_proof -----------------------------
(* What the pages show and keep, for any rules, addresses, ranges, scopes   *)
(* and calls in flight (Pages).                                             *)
EXTENDS Pages, TLAPS

\* What there is to show of a thing.
Values == [public |-> {"off", "on"}, order |-> {"first", "second"},
           rules |-> Rules, targets |-> Urls, chart |-> Ranges]

\* The calls there are, and what they carry.
Ops     == {"load", "status", "poll", "login", "write", "save", "remove", "replace"}
Written == {"write", "save", "remove", "replace"}

Fits(c) ==
  /\ c.op = "load" => c.on \in Things
  /\ c.op \in {"status", "login"} => c.on = "status"
  /\ c.op = "poll" => c.on = "poll"
  /\ c.op = "write" => c.on \in Switches
  /\ c.op \in {"save", "remove"} => c.on = "rules"
  /\ c.op = "remove" => \E id \in Rules : c.arg = {id}
  /\ c.op = "replace" => c.on = "targets"
  /\ c.on \in Things => c.arg \subseteq Values[c.on]

Carried == Rules \cup Urls \cup Ranges \cup {"off", "on", "first", "second", "authenticated"}

CallShape ==
  [op : Ops \cup {"free"}, on : Things \cup {"status", "poll", "none"}, arg : SUBSET Carried,
   st : {"free", "sent", "ok", "401", "500"}, form : SUBSET Rules,
   live : BOOLEAN, clean : BOOLEAN]

Settings == {"off", "on", "first", "second"} \cup Rules \cup Urls

Shapes ==
  /\ scope \subseteq Views /\ view \in Views /\ session \in BOOLEAN /\ ready \in BOOLEAN
  /\ stored \in [Stored -> SUBSET Settings]
  /\ \A t \in Stored : stored[t] \subseteq Values[t]
  /\ DOMAIN shown = Things
  /\ \A t \in Things : shown[t] \subseteq Values[t]
  /\ nodes \subseteq Values.order /\ range \subseteq Ranges
  /\ form = {} \/ \E id \in Rules : form = {id}
  /\ todo \subseteq Things \cup {"status"}
  /\ stale \subseteq Things /\ faults \in 0 .. MaxFaults
  /\ gone \subseteq Rules

\* Calls that clash are not clean.
Apart ==
  \A s, t \in Busy : s # t /\ Clash(net[s], net[t]) => ~net[s].clean /\ ~net[t].clean

\* The calls are typed, fit, and clash only when not clean.
NetOk ==
  /\ net \in [Slots -> CallShape]
  /\ \A s \in Slots : net[s].op = "free" => net[s] = NoCall
  /\ \A s \in Busy : Fits(net[s])
  /\ Apart

\* What a clean call has done holds until its answer is there.
Done(c) ==
  c.clean /\ c.st = "ok" /\ c.on \in Stored =>
    /\ c.op \in {"load", "write", "replace"} => stored[c.on] = c.arg
    /\ c.op = "remove" => stored[c.on] \cap c.arg = {}
Told == \A s \in Busy : Done(net[s])

On(thing)      == {s \in Busy : net[s].on = thing}
Certain(thing) == thing \notin stale /\ \A s \in On(thing) : net[s].clean

\* The list of servers is loaded once per page.
OneLoad ==
  /\ \A s \in On("order") : net[s].op = "load" =>
       /\ "order" \in stale /\ "order" \notin todo
       /\ \A t \in On("order") : net[t].op = "load" => t = s
  /\ "order" \in todo => "order" \in stale

\* A switch shows what is stored, or what a call under way is to store.
Shown(w) ==
  /\ (\A s \in On(w) : net[s].op = "load") => shown[w] = stored[w]
  /\ \A s \in On(w) : net[s].op = "write" =>
       /\ net[s].live /\ shown[w] = net[s].arg
       /\ net[s].st # "ok" => stored[w] = Positions[w] \ net[s].arg
SwitchesShow == view = "servers" => \A w \in Switches : Certain(w) => Shown(w)

\* No form and no save holds a deleted rule but one opened again.
RulesGone ==
  /\ form \cap gone \subseteq reopened
  /\ \A s \in On("rules") :
       net[s].op = "remove" /\ net[s].live /\ form = net[s].arg /\ net[s].form # net[s].arg =>
         form \subseteq reopened
  /\ Certain("rules") =>
       /\ gone \cap stored.rules \subseteq reopened
       /\ \A s \in On("rules") : net[s].op = "save" => net[s].arg \cap gone \subseteq reopened

\* The list of checks shows those saved, or is being loaded.
TargetsKept ==
  /\ "targets" \notin stale =>
       added \subseteq shown.targets \/ \E s \in On("targets") : net[s].op = "load"
  /\ Certain("targets") =>
       /\ added \subseteq stored.targets
       /\ \A s \in On("targets") : net[s].op = "replace" => added \subseteq net[s].arg

\* The points, there or to come, are of the range chosen.
ChartFits ==
  view = "detail" =>
    /\ \A s \in On("chart") : net[s].clean => net[s].arg = range
    /\ "chart" \notin stale => shown.chart \subseteq range

PagesInv ==
  Shapes /\ NetOk /\ Told /\ OneLoad /\ SwitchesShow /\ RulesGone /\ TargetsKept /\ ChartFits

-----------------------------------------------------------------------------
(* Calls come and go *)

\* The call of slot x is the one it was, perhaps less clean, or not waited for.
Lasts(x) ==
  /\ x \in Busy /\ net'[x].op = net[x].op /\ net'[x].on = net[x].on
  /\ net'[x].arg = net[x].arg /\ net'[x].st = net[x].st
  /\ net'[x].clean => net[x].clean
  /\ net'[x].live => net[x].live /\ net'[x].form = net[x].form
Stays(x) == Lasts(x) /\ net'[x].live = net[x].live /\ net'[x].form = net[x].form

LEMMA ThingNames ==
  /\ Switches = {"public", "order"}
  /\ Stored = {"public", "order", "rules", "targets"}
  /\ Things = {"public", "order", "rules", "targets", "chart"}
  /\ Positions["public"] = {"off", "on"} /\ Positions["order"] = {"first", "second"}
  /\ Values["public"] = {"off", "on"} /\ Values["order"] = {"first", "second"}
  /\ Values["rules"] = Rules /\ Values["targets"] = Urls /\ Values["chart"] = Ranges
BY DEF Switches, Positions, Stored, Things, Values

LEMMA NoCallShape == NoCall \in CallShape
BY DEF NoCall, CallShape, Things, Carried

LEMMA SameCall ==
  ASSUME NEW c \in CallShape, NEW d \in CallShape, c.op = d.op, c.on = d.on, c.arg = d.arg,
         c.st = d.st, c.form = d.form, c.live = d.live, c.clean = d.clean
  PROVE  c = d
BY DEF CallShape

LEMMA FitsAlike ==
  ASSUME NEW c, NEW d, c.op = d.op, c.on = d.on, c.arg = d.arg, Fits(c) PROVE Fits(d)
BY DEF Fits

LEMMA ClashBothWays ==
  ASSUME NEW c \in CallShape, NEW d \in CallShape, Clash(c, d) PROVE Clash(d, c)
BY DEF Clash

\* A call leaves from slot s, which was free or whose call has just been answered.
LEMMA Sends ==
  ASSUME NetOk, NEW s \in Slots, NEW c \in CallShape, c.op # "free", Fits(c), c.clean,
         net' = Sending(s, c)
  PROVE  /\ NetOk' /\ Busy' = Busy \cup {s}
         /\ \A x \in Busy' \ {s} : Stays(x) /\ (net'[x].clean => ~Clash(c, net[x]))
         /\ net'[s] = [c EXCEPT !.clean = \A y \in Busy \ {s} : ~Clash(c, net[y])]
         /\ net'[s].clean => \A y \in Busy \ {s} : ~Clash(c, net[y])
<1>1. net \in [Slots -> CallShape]
  BY DEF NetOk
<1> DEFINE ok == \A y \in Busy \ {s} : ~Clash(c, net[y])
<1>2. net'[s] = [c EXCEPT !.clean = ok] /\ ok \in BOOLEAN
  BY DEF Sending
<1>3. ASSUME NEW x \in Slots \ {s}
      PROVE  net'[x] = [net[x] EXCEPT !.clean = @ /\ ~Clash(c, net[x])]
  BY <1>1, <1>3 DEF Sending
<1>4. DOMAIN net' = Slots
  BY DEF Sending
<1>5. net'[s] \in CallShape
  BY <1>2 DEF CallShape
<1>6. \A x \in Slots \ {s} : net'[x] \in CallShape
  <2> TAKE x \in Slots \ {s}
  <2>1. net[x] \in CallShape
    BY <1>1
  <2> DEFINE b == net[x].clean /\ ~Clash(c, net[x])
  <2>2. b \in BOOLEAN
    OBVIOUS
  <2>3. net'[x] = [net[x] EXCEPT !.clean = b]
    BY <1>3
  <2> HIDE DEF b
  <2> QED BY <2>1, <2>2, <2>3 DEF CallShape
<1>7. net' \in [Slots -> CallShape]
  <2>1. net' = [x \in Slots |-> net'[x]]
    BY DEF Sending
  <2> QED BY <1>5, <1>6, <2>1
<1>8. /\ net'[s].op = c.op /\ net'[s].on = c.on /\ net'[s].arg = c.arg /\ net'[s].st = c.st
      /\ net'[s].form = c.form /\ net'[s].live = c.live /\ (net'[s].clean <=> ok)
  BY <1>2 DEF CallShape
<1>9. \A x \in Slots \ {s} :
        /\ net'[x].op = net[x].op /\ net'[x].on = net[x].on /\ net'[x].arg = net[x].arg
        /\ net'[x].st = net[x].st /\ net'[x].form = net[x].form /\ net'[x].live = net[x].live
        /\ net'[x].clean <=> net[x].clean /\ ~Clash(c, net[x])
  <2> TAKE x \in Slots \ {s}
  <2>1. net[x] \in CallShape
    BY <1>1
  <2> QED BY <1>3, <2>1 DEF CallShape
<1> HIDE DEF ok
<1>10. Busy' = Busy \cup {s}
  BY <1>8, <1>9 DEF Busy
<1>11. \A x \in Slots : net'[x].op = "free" => net'[x] = NoCall
  <2> SUFFICES ASSUME NEW x \in Slots, net'[x].op = "free" PROVE net'[x] = NoCall
    OBVIOUS
  <2>1. x # s /\ net[x] = NoCall
    BY <1>8, <1>9 DEF NetOk
  <2>2. net'[x].clean = FALSE
    <3>1. ~NoCall.clean /\ net'[x].clean \in BOOLEAN
      BY <1>6, <2>1 DEF NoCall, CallShape
    <3> QED BY <1>9, <2>1, <3>1
  <2>3. ~NoCall.clean /\ NoCall.clean \in BOOLEAN
    BY DEF NoCall
  <2> DEFINE d == net'[x]
  <2>4. /\ d \in CallShape /\ d.op = NoCall.op /\ d.on = NoCall.on /\ d.arg = NoCall.arg
        /\ d.st = NoCall.st /\ d.form = NoCall.form /\ d.live = NoCall.live
        /\ d.clean = NoCall.clean
    BY <1>6, <1>9, <2>1, <2>2, <2>3
  <2> HIDE DEF d
  <2>5. d = NoCall
    BY <2>4, SameCall, NoCallShape
  <2> QED BY <2>5 DEF d
<1>12. \A x \in Busy' : Fits(net'[x])
  <2> TAKE x \in Busy'
  <2>1. CASE x = s
    BY <1>8, <2>1, FitsAlike
  <2>2. CASE x # s
    <3>1. x \in Busy /\ x \in Slots \ {s} /\ Fits(net[x])
      BY <1>10, <2>2 DEF NetOk, Busy
    <3> QED BY <1>9, <3>1, FitsAlike
  <2> QED BY <2>1, <2>2
<1>13. Apart'
  <2> SUFFICES ASSUME NEW x \in Busy', NEW y \in Busy', x # y, Clash(net'[x], net'[y])
               PROVE  ~net'[x].clean /\ ~net'[y].clean
    BY DEF Apart
  <2>1. x \in Slots /\ y \in Slots
    BY DEF Busy
  <2>2. CASE x = s
    <3>1. Clash(c, net[y]) /\ y \in Busy
      BY <1>8, <1>9, <1>10, <2>1, <2>2 DEF Clash
    <3> QED BY <1>8, <1>9, <2>1, <2>2, <3>1 DEF ok
  <2>3. CASE y = s
    <3>1. Clash(c, net[x]) /\ x \in Busy
      BY <1>8, <1>9, <1>10, <2>1, <2>3 DEF Clash
    <3> QED BY <1>8, <1>9, <2>1, <2>3, <3>1 DEF ok
  <2>4. CASE x # s /\ y # s
    <3>1. Clash(net[x], net[y]) /\ x \in Busy /\ y \in Busy
      BY <1>9, <1>10, <2>1, <2>4 DEF Clash
    <3> QED BY <1>9, <2>1, <2>4, <3>1 DEF NetOk, Apart
  <2> QED BY <2>2, <2>3, <2>4
<1>14. \A x \in Busy' \ {s} : Stays(x) /\ (net'[x].clean => ~Clash(c, net[x]))
  BY <1>9, <1>10 DEF Stays, Lasts, Busy
<1> QED BY <1>2, <1>7, <1>8, <1>10, <1>11, <1>12, <1>13, <1>14 DEF NetOk, ok

\* Whatever else happens to the calls but handling: some are gone, some are less.
LEMMA Shrinks ==
  ASSUME NetOk, net' \in [Slots -> CallShape],
         \A x \in Slots : net'[x].op = "free" => net'[x] = NoCall,
         \A x \in Busy' : Lasts(x)
  PROVE  NetOk'
<1>1. \A x \in Busy' : Fits(net'[x])
  BY DEF Lasts, NetOk, Fits
<1>2. Apart'
  <2> SUFFICES ASSUME NEW x \in Busy', NEW y \in Busy', x # y, Clash(net'[x], net'[y])
               PROVE  ~net'[x].clean /\ ~net'[y].clean
    BY DEF Apart
  <2>1. Clash(net[x], net[y]) /\ x \in Busy /\ y \in Busy
    BY DEF Lasts, Clash
  <2> QED BY <2>1 DEF NetOk, Apart, Lasts
<1> QED BY <1>1, <1>2 DEF NetOk

LEMMA Frees ==
  ASSUME NetOk, NEW s \in Slots, Freed(s)
  PROVE  NetOk' /\ Busy' = Busy \ {s} /\ \A x \in Busy' : Stays(x) /\ net'[x] = net[x]
<1>1. net \in [Slots -> CallShape] /\ net'[s] = NoCall /\ \A x \in Slots \ {s} : net'[x] = net[x]
  BY DEF NetOk, Freed
<1>2. net' \in [Slots -> CallShape]
  BY <1>1, NoCallShape DEF Freed
<1>3. Busy' = Busy \ {s}
  BY <1>1 DEF Busy, NoCall
<1>4. \A x \in Busy' : Stays(x) /\ net'[x] = net[x]
  BY <1>1, <1>3 DEF Stays, Lasts, Busy
<1>5. \A x \in Busy' : Lasts(x)
  BY <1>4 DEF Stays
<1> QED BY <1>1, <1>2, <1>3, <1>4, <1>5, Shrinks DEF NetOk

\* Unheard, with the slot of an answered call freed or none.
LEMMA Unhears ==
  ASSUME NetOk, NEW keep, NEW freed,
         net' = [x \in Slots |-> IF x \in freed THEN NoCall ELSE Unheard(keep)[x]]
  PROVE  /\ NetOk' /\ \A x \in Busy' : Lasts(x)
         /\ \A x \in Busy' : net'[x].on \notin keep =>
              net'[x].op \notin {"load", "status"} /\ ~net'[x].live
<1>1. net \in [Slots -> CallShape]
  BY DEF NetOk
<1>2. ASSUME NEW x \in Slots
      PROVE  /\ \/ net'[x] = NoCall
                \/ net'[x] = net[x] /\ net[x].on \in keep
                \/ net'[x] = [net[x] EXCEPT !.live = FALSE, !.form = {}] /\ ~Forgotten(net[x])
             /\ net[x] = NoCall => net'[x] = NoCall
  <2>1. \/ net'[x] = NoCall
        \/ net'[x] = net[x] /\ net[x].on \in keep
        \/ net'[x] = [net[x] EXCEPT !.live = FALSE, !.form = {}] /\ ~Forgotten(net[x])
    BY DEF Unheard
  <2>2. [NoCall EXCEPT !.live = FALSE, !.form = {}] = NoCall
    <3> DEFINE d == [NoCall EXCEPT !.live = FALSE, !.form = {}]
    <3>1. /\ d.op = NoCall.op /\ d.on = NoCall.on /\ d.arg = NoCall.arg
          /\ d.st = NoCall.st /\ d.form = NoCall.form /\ d.live = NoCall.live
          /\ d.clean = NoCall.clean
      BY DEF NoCall
    <3>2. d \in CallShape
      BY DEF NoCall, CallShape, Things, Carried
    <3> HIDE DEF d
    <3>3. d = NoCall
      BY <3>1, <3>2, SameCall, NoCallShape
    <3> QED BY <3>3 DEF d
  <2>3. ASSUME net[x] = NoCall PROVE net'[x] = NoCall
    <3>1. [net[x] EXCEPT !.live = FALSE, !.form = {}] = NoCall
      BY <2>2, <2>3, Zenon
    <3> QED BY <2>1, <2>3, <3>1, Zenon
  <2> QED BY <2>1, <2>3
<1>3. ASSUME NEW x \in Slots
      PROVE  /\ net'[x] \in CallShape /\ (net'[x].op = "free" => net'[x] = NoCall)
             /\ x \in Busy' => /\ Lasts(x)
                               /\ net'[x].on \notin keep =>
                                    net'[x].op \notin {"load", "status"} /\ ~net'[x].live
  <2>1. net[x] \in CallShape
    BY <1>1
  <2>2. CASE net'[x] = NoCall
    BY <2>2, NoCallShape DEF Busy, NoCall
  <2>3. CASE net'[x] = net[x] /\ net[x].on \in keep
    BY <2>1, <2>3 DEF Lasts, Busy, NetOk
  <2>4. CASE net'[x] = [net[x] EXCEPT !.live = FALSE, !.form = {}] /\ ~Forgotten(net[x]) /\ net'[x] # NoCall
    <3>1. net[x].op # "free"
      BY <1>2, <2>4 DEF NetOk
    <3> QED BY <2>1, <2>4, <3>1 DEF Lasts, Busy, CallShape, Forgotten
  <2> QED BY <1>2, <2>2, <2>3, <2>4
<1>4. net' \in [Slots -> CallShape]
  <2>1. net' = [x \in Slots |-> net'[x]]
    OBVIOUS
  <2> QED BY <1>3, <2>1
<1>5. Busy' \subseteq Slots
  BY DEF Busy
<1> QED BY <1>3, <1>4, <1>5, Shrinks

\* The tab opens another page: nothing of the old one is shown or waited for.
LEMMA Mounts ==
  ASSUME PagesInv, NEW v \in Views, NEW parent \in SUBSET Values.order, Mounted(v, parent),
         NEW keep \in {{}, {"order"}}, NEW freed,
         net' = [x \in Slots |-> IF x \in freed THEN NoCall ELSE Unheard(keep)[x]],
         UNCHANGED <<stored, faults, scope>>, session' \in BOOLEAN, ready' \in BOOLEAN,
         todo' \subseteq Things \cup {"status"}, nodes' \subseteq Values.order,
         keep # {} /\ "order" \in todo' => "order" \in todo
  PROVE  PagesInv'
<1>1. /\ NetOk' /\ \A x \in Busy' : Lasts(x)
      /\ \A x \in Busy' : net'[x].on \notin keep => net'[x].op \notin {"load", "status"} /\ ~net'[x].live
  BY Unhears DEF PagesInv
<1>2. stale' = Stored /\ form' = {} /\ gone' = {} /\ reopened' = {} /\ added' = {}
  BY DEF Mounted
<1>3. /\ DOMAIN shown' = Things /\ shown'["public"] = {"off"}
      /\ shown'["order"] = IF v = "servers" THEN parent ELSE {}
      /\ \A t \in {"rules", "targets", "chart"} : shown'[t] = {}
  BY ThingNames DEF Mounted, Blank
<1>4. Shapes'
  <2>1. \A t \in Things : shown'[t] \subseteq Values[t]
    BY <1>3, ThingNames
  <2>3. range' \subseteq Ranges /\ view' \in Views
    BY PagesAssumption DEF Mounted
  <2> QED BY <1>2, <1>3, <2>1, <2>3, ThingNames DEF Shapes, PagesInv
<1>5. Told'
  BY <1>1 DEF Told, Done, Lasts, PagesInv
<1>6. OneLoad'
  <2>1. \A x \in On("order")' : Lasts(x) /\ x \in On("order") /\ (net'[x].op = "load" => keep # {})
    BY <1>1 DEF On, Lasts
  <2> QED BY <1>2, <2>1, ThingNames DEF OneLoad, PagesInv, Lasts
<1>7. ~Certain("public")' /\ ~Certain("order")' /\ ~Certain("rules")' /\ ~Certain("targets")'
  BY <1>2, ThingNames DEF Certain
<1>8. SwitchesShow' /\ RulesGone' /\ TargetsKept'
  BY <1>2, <1>7, ThingNames DEF SwitchesShow, RulesGone, TargetsKept
<1>9. ChartFits'
  <2>1. \A x \in On("chart")' : FALSE
    <3> SUFFICES ASSUME NEW x \in On("chart")' PROVE FALSE
      OBVIOUS
    <3>1. net'[x].on = "chart" /\ x \in Busy' /\ x \in Slots
      BY DEF On, Busy
    <3>2. Fits(net'[x]) /\ net'[x] \in CallShape /\ net'[x].op # "free"
      BY <1>1, <3>1 DEF NetOk, Busy
    <3>3. net'[x].op = "load"
      BY <3>1, <3>2, ThingNames DEF Fits, CallShape, Ops
    <3> QED BY <1>1, <3>1, <3>3
  <2>2. shown'["chart"] = {}
    BY <1>3, ThingNames
  <2> QED BY <2>1, <2>2 DEF ChartFits
<1> QED BY <1>1, <1>4, <1>5, <1>6, <1>8, <1>9 DEF PagesInv

LEMMA Opens ==
  ASSUME PagesInv, NEW v \in Views, Opened(v), NEW freed,
         net' = [x \in Slots |-> IF x \in freed THEN NoCall ELSE Unheard({})[x]],
         UNCHANGED <<stored, faults, scope>>, session' \in BOOLEAN
  PROVE  PagesInv'
<1>1. Mounted(v, {}) /\ ready' \in BOOLEAN /\ nodes' \subseteq Values.order
  BY DEF Opened
<1>2. todo' \subseteq Things \cup {"status"}
  BY ThingNames DEF Opened, Wants
<1> QED BY <1>1, <1>2, Mounts

LEMMA OpensAt ==
  ASSUME PagesInv, NEW v \in Views, Opened(v), NEW s \in Slots,
         net' = [Unheard({}) EXCEPT ![s] = NoCall],
         UNCHANGED <<stored, faults, scope>>, session' \in BOOLEAN
  PROVE  PagesInv'
<1>1. net' = [x \in Slots |-> IF x \in {s} THEN NoCall ELSE Unheard({})[x]]
  BY DEF Unheard
<1> QED BY <1>1, Opens

LEMMA MovesInv ==
  ASSUME PagesInv,
         \/ \E v \in scope : Navigate(v) \/ ChangeTab(v)
         \/ Logout \/ \E s \in Slots : Unauthorized(s) \/ SignedIn(s) \/ SignedOut(s)
  PROVE  PagesInv'
<1>1. scope \subseteq Views /\ session \in BOOLEAN /\ ready \in BOOLEAN /\ "login" \in Views
      /\ nodes \subseteq Values.order /\ todo \subseteq Things \cup {"status"}
  BY DEF PagesInv, Shapes, Views
<1>2. net' = Unheard({}) => net' = [x \in Slots |-> IF x \in {} THEN NoCall ELSE Unheard({})[x]]
  BY DEF Unheard
<1>3. ASSUME NEW v \in scope, Navigate(v) PROVE PagesInv'
  BY <1>1, <1>2, <1>3, Opens DEF Navigate
<1>4. ASSUME NEW v \in scope, ChangeTab(v) PROVE PagesInv'
  <2>1. /\ Mounted(v, nodes) /\ v \in Views /\ net' = Unheard({"order"})
        /\ todo' = (todo \cap {"order"}) \cup Wants(v) /\ v \in Tabs
        /\ UNCHANGED <<stored, session, ready, nodes, faults, scope>>
    BY <1>1, <1>4 DEF ChangeTab
  <2>2. Wants(v) \subseteq Things /\ "order" \notin Wants(v)
    BY ThingNames DEF Wants
  <2>3. net' = [x \in Slots |-> IF x \in {} THEN NoCall ELSE Unheard({"order"})[x]]
    BY <2>1 DEF Unheard
  <2>4. todo' \subseteq Things \cup {"status"} /\ ("order" \in todo' => "order" \in todo)
    BY <2>1, <2>2, ThingNames
  <2>5. nodes \in SUBSET Values.order /\ nodes' \subseteq Values.order
        /\ session' \in BOOLEAN /\ ready' \in BOOLEAN
    BY <1>1, <2>1
  <2> HIDE DEF Values
  <2> QED BY <2>1, <2>3, <2>4, <2>5, Mounts
<1>5. CASE Logout
  <2>1. /\ Opened("login") /\ UNCHANGED <<stored, faults, scope>>
        /\ net' = [x \in Slots |-> IF x \in {} THEN NoCall ELSE Unheard({})[x]]
    BY <1>2, <1>5 DEF Logout
  <2>2. session' \in BOOLEAN
    BY <1>1, <1>5 DEF Logout
  <2> QED BY <1>1, <2>1, <2>2, Opens
<1>6. ASSUME NEW s \in Slots, Unauthorized(s) \/ SignedIn(s) \/ SignedOut(s) PROVE PagesInv'
  <2>1. PICK v \in Views : Opened(v)
    <3>1. CASE Unauthorized(s) \/ SignedOut(s)
      BY <1>1, <3>1 DEF Unauthorized, SignedOut
    <3>2. CASE SignedIn(s)
      BY <1>1, <3>2, Zenon DEF SignedIn
    <3> QED BY <1>6, <3>1, <3>2
  <2> QED BY <1>1, <1>6, <2>1, OpensAt DEF Unauthorized, SignedIn, SignedOut
<1> QED BY <1>3, <1>4, <1>5, <1>6

-----------------------------------------------------------------------------
(* What a step leaves alone *)

Aside(t) ==
  /\ On(t)' = On(t) /\ \A x \in On(t) : Stays(x)
  /\ t \in stale => t \in stale'

LEMMA CertainAside ==
  ASSUME NEW t, Aside(t), Certain(t)' PROVE Certain(t)
BY DEF Aside, Certain, Stays, Lasts

LEMMA SwitchAside ==
  ASSUME NEW w, Aside(w), Certain(w) => Shown(w),
         stored'[w] = stored[w], shown'[w] = shown[w]
  PROVE  Certain(w)' => Shown(w)'
<1> SUFFICES ASSUME Certain(w)' PROVE Shown(w)'
  OBVIOUS
<1>1. Shown(w)
  BY CertainAside
<1> QED BY <1>1 DEF Shown, Aside, Stays, Lasts

LEMMA OneLoadAside ==
  ASSUME OneLoad, Aside("order"), "order" \in todo' => "order" \in todo
  PROVE  OneLoad'
BY DEF OneLoad, Aside, Stays, Lasts

LEMMA RulesAside ==
  ASSUME RulesGone, Aside("rules"), stored'["rules"] = stored["rules"],
         UNCHANGED <<form, gone, reopened>>
  PROVE  RulesGone'
<1>1. form' \cap gone' \subseteq reopened'
  BY DEF RulesGone
<1>2. \A s \in On("rules")' :
        net'[s].op = "remove" /\ net'[s].live /\ form' = net'[s].arg /\ net'[s].form # net'[s].arg =>
          form' \subseteq reopened'
  BY DEF RulesGone, Aside, Stays, Lasts
<1>3. Certain("rules")' =>
        /\ gone' \cap stored'.rules \subseteq reopened'
        /\ \A s \in On("rules")' : net'[s].op = "save" => net'[s].arg \cap gone' \subseteq reopened'
  <2> SUFFICES ASSUME Certain("rules")'
               PROVE  /\ gone' \cap stored'.rules \subseteq reopened'
                      /\ \A s \in On("rules")' : net'[s].op = "save" =>
                           net'[s].arg \cap gone' \subseteq reopened'
    OBVIOUS
  <2>1. Certain("rules")
    BY CertainAside
  <2> QED BY <2>1 DEF RulesGone, Aside, Stays, Lasts
<1> QED BY <1>1, <1>2, <1>3 DEF RulesGone

LEMMA TargetsAside ==
  ASSUME TargetsKept, Aside("targets"), stored'["targets"] = stored["targets"],
         shown'["targets"] = shown["targets"], added' = added
  PROVE  TargetsKept'
<1>1. "targets" \notin stale' =>
        added' \subseteq shown'.targets \/ \E s \in On("targets")' : net'[s].op = "load"
  BY DEF TargetsKept, Aside, Stays, Lasts
<1>2. Certain("targets")' =>
        /\ added' \subseteq stored'.targets
        /\ \A s \in On("targets")' : net'[s].op = "replace" => added' \subseteq net'[s].arg
  <2> SUFFICES ASSUME Certain("targets")'
               PROVE  /\ added' \subseteq stored'.targets
                      /\ \A s \in On("targets")' : net'[s].op = "replace" => added' \subseteq net'[s].arg
    OBVIOUS
  <2>1. Certain("targets")
    BY CertainAside
  <2> QED BY <2>1 DEF TargetsKept, Aside, Stays, Lasts
<1> QED BY <1>1, <1>2 DEF TargetsKept

LEMMA ChartAside ==
  ASSUME ChartFits, Aside("chart"), shown'["chart"] = shown["chart"], UNCHANGED <<view, range>>
  PROVE  ChartFits'
BY DEF ChartFits, Aside, Stays, Lasts

\* A call that leaves touches what it is about and nothing else.
LEMMA SendsAside ==
  ASSUME NetOk, NEW s \in Slots \ Busy, NEW c \in CallShape, c.op # "free", Fits(c), c.clean,
         net' = Sending(s, c), stale' = stale, NEW t, c.on # t
  PROVE  Aside(t)
<1>1. /\ Busy' = Busy \cup {s} /\ \A x \in Busy' \ {s} : Stays(x)
      /\ net'[s].on = c.on
  <2>1. net'[s] = [c EXCEPT !.clean = \A y \in Busy \ {s} : ~Clash(c, net[y])]
    BY Sends
  <2> QED BY <2>1, Sends DEF CallShape
<1> QED BY <1>1 DEF Aside, On, Stays, Lasts

LEMMA SendsAbout ==
  ASSUME NetOk, NEW s \in Slots \ Busy, NEW c \in CallShape, c.op # "free", Fits(c), c.clean,
         net' = Sending(s, c), stale' = stale
  PROVE  /\ On(c.on)' = On(c.on) \cup {s} /\ s \notin On(c.on) /\ \A x \in On(c.on) : Stays(x)
         /\ net'[s].op = c.op /\ net'[s].on = c.on /\ net'[s].arg = c.arg /\ net'[s].st = c.st
         /\ net'[s].form = c.form /\ net'[s].live = c.live
         /\ Certain(c.on)' => Certain(c.on)
         /\ net'[s].clean => \A x \in On(c.on) : c.op = "load" /\ net[x].op = "load"
         /\ \A x \in On(c.on) : net'[x].clean => c.op = "load" /\ net[x].op = "load"
<1>1. /\ Busy' = Busy \cup {s} /\ \A x \in Busy' \ {s} : Stays(x) /\ (net'[x].clean => ~Clash(c, net[x]))
      /\ net'[s].clean => \A y \in Busy \ {s} : ~Clash(c, net[y])
  BY Sends
<1>2. /\ net'[s].op = c.op /\ net'[s].on = c.on /\ net'[s].arg = c.arg /\ net'[s].st = c.st
      /\ net'[s].form = c.form /\ net'[s].live = c.live
  <2>1. net'[s] = [c EXCEPT !.clean = \A y \in Busy \ {s} : ~Clash(c, net[y])]
    BY Sends
  <2> QED BY <2>1 DEF CallShape
<1>3. On(c.on)' = On(c.on) \cup {s} /\ s \notin On(c.on) /\ \A x \in On(c.on) : Stays(x)
  BY <1>1, <1>2 DEF On, Stays, Lasts
<1>4. Certain(c.on)' => Certain(c.on)
  BY <1>3 DEF Certain, Stays, Lasts
<1>5. net'[s].clean => \A x \in On(c.on) : c.op = "load" /\ net[x].op = "load"
  BY <1>1 DEF On, Clash
<1>6. \A x \in On(c.on) : net'[x].clean => c.op = "load" /\ net[x].op = "load"
  BY <1>1 DEF On, Clash
<1> QED BY <1>2, <1>3, <1>4, <1>5, <1>6

LEMMA TellsOn ==
  ASSUME Told, stored' = stored, \A x \in Busy' : Lasts(x) \/ net'[x].st # "ok"
  PROVE  Told'
BY DEF Told, Done, Lasts

-----------------------------------------------------------------------------
(* Calls leave *)

\* What the page changes as it calls, by what it calls for.
Prepared(c) ==
  /\ "order" \in todo' => "order" \in todo
  /\ c.on = "order" /\ c.op = "load" => "order" \in todo /\ "order" \notin todo'
  /\ \A w \in Switches : IF c.on = w /\ c.op # "load"
                         THEN c.live /\ shown'[w] = c.arg /\ c.arg = Positions[w] \ shown[w]
                         ELSE shown'[w] = shown[w]
  /\ UNCHANGED <<form, gone, reopened>>
  /\ c.op = "save" => c.arg \cap gone \subseteq reopened
  /\ c.op = "remove" => c.form = form
  /\ shown'["targets"] = shown["targets"]
  /\ added' = IF c.op = "replace" THEN added \cap (c.arg \cup (added \ shown["targets"])) ELSE added
  /\ IF c.on = "chart"
     THEN c.arg = range' /\ (shown'["chart"] = {} \/ (UNCHANGED range /\ shown'["chart"] = shown["chart"]))
     ELSE UNCHANGED range /\ shown'["chart"] = shown["chart"]

LEMMA SendInv ==
  ASSUME PagesInv, NEW s \in Slots \ Busy, NEW c \in CallShape, c.op # "free", Fits(c), c.clean,
         c.st = "sent", net' = Sending(s, c), UNCHANGED <<stored, view, stale>>, Shapes', Prepared(c)
  PROVE  PagesInv'
<1>1. NetOk /\ NetOk' /\ Told'
  <2>1. NetOk /\ NetOk' /\ \A x \in Busy' \ {s} : Lasts(x)
    BY Sends DEF PagesInv, Stays
  <2>2. net'[s].st = "sent"
    BY <2>1, SendsAbout
  <2> QED BY <2>1, <2>2, TellsOn DEF PagesInv
<1> DEFINE new == net'[s]
<1>2. /\ On(c.on)' = On(c.on) \cup {s} /\ s \notin On(c.on) /\ \A x \in On(c.on) : Stays(x)
      /\ new.op = c.op /\ new.on = c.on /\ new.arg = c.arg /\ new.st = c.st
      /\ new.form = c.form /\ new.live = c.live
      /\ Certain(c.on)' => Certain(c.on)
      /\ new.clean => \A x \in On(c.on) : c.op = "load" /\ net[x].op = "load"
      /\ \A x \in On(c.on) : net'[x].clean => c.op = "load" /\ net[x].op = "load"
  BY <1>1, SendsAbout
<1> HIDE DEF new
<1>3. \A t : c.on # t => Aside(t)
  BY <1>1, SendsAside
<1>4. OneLoad'
  <2>1. CASE c.on # "order"
    BY <1>3, <2>1, OneLoadAside DEF PagesInv, Prepared
  <2>2. CASE c.on = "order" /\ c.op = "load"
    BY <1>2, <2>2 DEF PagesInv, Prepared, OneLoad, new, Stays, Lasts
  <2>3. CASE c.on = "order" /\ c.op # "load"
    BY <1>2, <2>3 DEF PagesInv, Prepared, OneLoad, new, Stays, Lasts
  <2> QED BY <2>1, <2>2, <2>3
<1>5. SwitchesShow'
  <2> SUFFICES ASSUME view = "servers", NEW w \in Switches, Certain(w)' PROVE Shown(w)'
    BY DEF SwitchesShow
  <2>1. Certain(w) => Shown(w)
    BY DEF PagesInv, SwitchesShow
  <2>2. CASE c.on # w
    BY <1>3, <2>1, <2>2, SwitchAside DEF Prepared
  <2>3. CASE c.on = w /\ c.op = "load"
    <3>1. Shown(w) /\ shown'[w] = shown[w]
      BY <1>2, <2>1, <2>3 DEF Prepared
    <3> QED BY <1>2, <2>3, <3>1 DEF Shown, new, Stays, Lasts
  <2>4. CASE c.on = w /\ c.op # "load"
    <3>1. Shown(w) /\ c.live /\ shown'[w] = c.arg /\ c.arg = Positions[w] \ shown[w]
      BY <1>2, <2>1, <2>4 DEF Prepared
    <3>2. new.clean
      BY <1>2, <2>4 DEF Certain, new
    <3>3. On(w) = {}
      BY <1>2, <2>4, <3>2
    <3>4. shown[w] = stored[w] /\ On(w)' = {s}
      BY <1>2, <2>4, <3>1, <3>3 DEF Shown
    <3>5. stored[w] \subseteq Positions[w]
      BY ThingNames DEF PagesInv, Shapes
    <3>6. stored[w] = Positions[w] \ c.arg
      BY <3>1, <3>4, <3>5
    <3>7. /\ net'[s].op # "load" /\ net'[s].live /\ net'[s].arg = shown'[w]
          /\ stored'[w] = Positions[w] \ net'[s].arg
      BY <1>2, <2>4, <3>1, <3>6 DEF new
    <3> QED BY <3>4, <3>7 DEF Shown
  <2> QED BY <2>2, <2>3, <2>4
<1>6. RulesGone'
  <2>1. CASE c.on # "rules"
    BY <1>3, <2>1, RulesAside DEF PagesInv, Prepared
  <2>2. CASE c.on = "rules"
    <3>1. /\ RulesGone /\ UNCHANGED <<form, gone, reopened>> /\ stored' = stored
          /\ c.op = "save" => c.arg \cap gone \subseteq reopened
          /\ c.op = "remove" => c.form = form
      BY DEF PagesInv, Prepared
    <3>2. \A x \in On("rules")' :
            net'[x].op = "remove" /\ net'[x].live /\ form = net'[x].arg /\ net'[x].form # net'[x].arg =>
              form \subseteq reopened
      BY <1>2, <2>2, <3>1 DEF RulesGone, new, Stays, Lasts
    <3>3. Certain("rules")' =>
            /\ gone \cap stored.rules \subseteq reopened
            /\ \A x \in On("rules")' : net'[x].op = "save" => net'[x].arg \cap gone \subseteq reopened
      BY <1>2, <2>2, <3>1 DEF RulesGone, new, Stays, Lasts
    <3> QED BY <3>1, <3>2, <3>3 DEF RulesGone
  <2> QED BY <2>1, <2>2
<1>7. TargetsKept'
  <2>1. CASE c.on # "targets"
    <3>1. c.op # "replace"
      BY <2>1 DEF Fits
    <3> QED BY <1>3, <2>1, <3>1, TargetsAside DEF PagesInv, Prepared
  <2>2. CASE c.on = "targets"
    <3>1. /\ TargetsKept /\ shown'["targets"] = shown["targets"] /\ stored' = stored /\ stale' = stale
          /\ added' \subseteq added
          /\ c.op = "replace" => added' = added \cap (c.arg \cup (added \ shown["targets"]))
      BY DEF PagesInv, Prepared
    <3>2. "targets" \notin stale' =>
            added' \subseteq shown'.targets \/ \E x \in On("targets")' : net'[x].op = "load"
      BY <1>2, <2>2, <3>1 DEF TargetsKept, Stays, Lasts
    <3>3. ASSUME Certain("targets")'
          PROVE  /\ added' \subseteq stored.targets
                 /\ \A x \in On("targets")' : net'[x].op = "replace" => added' \subseteq net'[x].arg
      <4>1. Certain("targets") /\ new.clean
        BY <1>2, <2>2, <3>3 DEF Certain, new
      <4>2. added' \subseteq stored.targets
        BY <3>1, <4>1 DEF TargetsKept
      <4>3. ASSUME c.op = "replace" PROVE added' \subseteq c.arg
        <5>1. On("targets") = {}
          BY <1>2, <2>2, <4>1, <4>3
        <5>2. added \subseteq shown["targets"]
          BY <3>1, <4>1, <5>1 DEF TargetsKept, Certain
        <5> QED BY <3>1, <4>3, <5>2
      <4> QED BY <1>2, <2>2, <3>1, <4>1, <4>2, <4>3 DEF TargetsKept, new, Stays, Lasts
    <3> QED BY <3>1, <3>2, <3>3 DEF TargetsKept
  <2> QED BY <2>1, <2>2
<1>8. ChartFits'
  <2>1. CASE c.on # "chart"
    BY <1>3, <2>1, ChartAside DEF PagesInv, Prepared
  <2>2. CASE c.on = "chart"
    <3>1. \A x \in On("chart") : net'[x].clean => net[x].arg = c.arg
      <4>1. \A x \in Busy' \ {s} : net'[x].clean => ~Clash(c, net[x])
        BY <1>1, Sends
      <4>2. \A x \in On("chart") : x \in Busy' \ {s} /\ net[x].on = c.on
        BY <1>2, <2>2 DEF On
      <4> QED BY <2>2, <4>1, <4>2 DEF Clash
    <3>2. ChartFits /\ c.arg = range' /\ view' = view /\ stale' = stale
          /\ (shown'["chart"] = {} \/ (UNCHANGED range /\ shown'["chart"] = shown["chart"]))
      BY <2>2 DEF PagesInv, Prepared
    <3> QED BY <1>2, <2>2, <3>1, <3>2 DEF ChartFits, new, Stays, Lasts
  <2> QED BY <2>1, <2>2
<1> QED BY <1>1, <1>4, <1>5, <1>6, <1>7, <1>8 DEF PagesInv

LEMMA CallsShape ==
  ASSUME PagesInv, NEW op \in Ops, NEW on \in Things \cup {"status", "poll"}, NEW arg \in SUBSET Carried
  PROVE  /\ Call(op, on, arg) \in CallShape
         /\ LET c == Call(op, on, arg)
            IN  /\ c.op = op /\ c.on = on /\ c.arg = arg /\ c.st = "sent" /\ c.live /\ c.clean
                /\ op = "remove" => c.form = form
<1>1. form \subseteq Rules
  BY DEF PagesInv, Shapes
<1> QED BY <1>1 DEF Call, CallShape

\* Every action that calls leaves from a free slot with a call that fits.
LEMMA CallsSend ==
  ASSUME PagesInv, NEW op \in Ops, NEW on \in Things \cup {"status", "poll"}, NEW arg \in SUBSET Carried,
         Calls(op, on, arg), Fits(Call(op, on, arg)), UNCHANGED <<stored, view, stale>>, Shapes',
         Prepared(Call(op, on, arg))
  PROVE  PagesInv'
<1> DEFINE c == Call(op, on, arg)
<1>1. PICK s \in Slots \ Busy : net' = Sending(s, c)
  BY DEF Calls
<1>2. c \in CallShape /\ c.op # "free" /\ c.clean /\ c.st = "sent"
  BY CallsShape DEF Ops
<1> HIDE DEF c
<1>3. Fits(c) /\ Prepared(c)
  BY DEF c
<1> QED BY <1>1, <1>2, <1>3, SendInv

LEMMA EffectsInv ==
  ASSUME PagesInv, NEW what \in Things \cup {"status"}, Effects(what)
  PROVE  PagesInv'
<1>1. /\ what \in todo /\ todo' = todo \ {what}
      /\ UNCHANGED <<stored, session, view, ready, nodes, shown, form, range, faults, scope>>
      /\ UNCHANGED <<stale, gone, reopened, added>>
  BY DEF Effects, seen
<1>2. Shapes'
  BY <1>1 DEF PagesInv, Shapes
<1>3. CASE what = "status"
  <2>1. Calls("status", "status", {})
    BY <1>3 DEF Effects
  <2>2. Fits(Call("status", "status", {})) /\ Prepared(Call("status", "status", {}))
    BY <1>1, ThingNames DEF Fits, Call, Prepared
  <2> QED BY <1>1, <1>2, <2>1, <2>2, CallsSend DEF Ops
<1>4. CASE what # "status"
  <2> DEFINE arg == IF what = "chart" THEN range ELSE {}
  <2>1. Calls("load", what, arg) /\ what \in Things
    BY <1>4 DEF Effects
  <2>2. arg \subseteq Values[what] /\ arg \subseteq Carried
    BY <2>1, ThingNames DEF PagesInv, Shapes, Carried
  <2>3. what = "chart" => arg = range
    OBVIOUS
  <2> HIDE DEF arg
  <2>4. Fits(Call("load", what, arg))
    BY <2>1, <2>2 DEF Fits, Call
  <2>5. Prepared(Call("load", what, arg))
    BY <1>1, <2>3 DEF Call, Prepared
  <2> QED BY <1>1, <1>2, <2>1, <2>2, <2>4, <2>5, CallsSend DEF Ops
<1> QED BY <1>3, <1>4

LEMMA PollsInv ==
  ASSUME PagesInv, Poll \/ PollHistory \/ SignIn
  PROVE  PagesInv'
<1>1. /\ UNCHANGED <<stored, session, view, ready, todo, nodes, shown, form, range, faults, scope>>
      /\ UNCHANGED <<stale, gone, reopened, added>>
  BY DEF Poll, PollHistory, SignIn, seen, page
<1>2. Shapes'
  BY <1>1 DEF PagesInv, Shapes
<1>3. CASE Poll
  <2>1. Fits(Call("poll", "poll", {})) /\ Prepared(Call("poll", "poll", {}))
    BY <1>1, ThingNames DEF Fits, Call, Prepared
  <2> QED BY <1>1, <1>2, <1>3, <2>1, CallsSend DEF Ops, Poll
<1>4. CASE PollHistory
  <2>1. range \subseteq Values["chart"] /\ range \subseteq Carried
    BY ThingNames DEF PagesInv, Shapes, Carried
  <2>2. Fits(Call("load", "chart", range)) /\ Prepared(Call("load", "chart", range))
    BY <1>1, <2>1, ThingNames DEF Fits, Call, Prepared
  <2> QED BY <1>1, <1>2, <1>4, <2>1, <2>2, ThingNames, CallsSend DEF Ops, PollHistory
<1>5. CASE SignIn
  <2>1. Fits(Call("login", "status", {})) /\ Prepared(Call("login", "status", {}))
    BY <1>1, ThingNames DEF Fits, Call, Prepared
  <2> QED BY <1>1, <1>2, <1>5, <2>1, CallsSend DEF Ops, SignIn
<1> QED BY <1>3, <1>4, <1>5

LEMMA FlipInv ==
  ASSUME PagesInv, NEW w \in Switches, Flip(w)
  PROVE  PagesInv'
<1> DEFINE arg == Positions[w] \ shown[w]
<1>1. /\ Calls("write", w, arg) /\ shown' = [shown EXCEPT ![w] = arg] /\ w \in Things
      /\ UNCHANGED <<stored, session, view, ready, todo, nodes, form, range, faults, scope>>
      /\ UNCHANGED <<stale, gone, reopened, added>>
  BY ThingNames DEF Flip, seen
<1>2. arg \subseteq Values[w] /\ arg \subseteq Carried /\ arg = Positions[w] \ shown[w]
  BY ThingNames DEF Carried
<1> HIDE DEF arg
<1>3. DOMAIN shown = Things /\ DOMAIN shown' = Things /\ shown'[w] = arg /\ \A t \in Things \ {w} : shown'[t] = shown[t]
  BY <1>1 DEF PagesInv, Shapes
<1>4. Shapes'
  BY <1>1, <1>2, <1>3 DEF PagesInv, Shapes
<1>5. Fits(Call("write", w, arg))
  BY <1>1, <1>2 DEF Fits, Call
<1>6. Prepared(Call("write", w, arg))
  BY <1>1, <1>2, <1>3, ThingNames DEF Prepared, Call
<1> QED BY <1>1, <1>2, <1>4, <1>5, <1>6, CallsSend DEF Ops

LEMMA RulesInv ==
  ASSUME PagesInv, Submit \/ \E id \in Rules : Remove(id)
  PROVE  PagesInv'
<1>1. /\ UNCHANGED <<stored, session, view, ready, todo, nodes, shown, form, range, faults, scope>>
      /\ UNCHANGED <<stale, gone, reopened, added>>
  BY DEF Submit, Remove, seen, page
<1>2. Shapes'
  BY <1>1 DEF PagesInv, Shapes
<1>3. \A id \in Rules : {id} \subseteq Values["rules"] /\ {id} \subseteq Carried
  BY ThingNames DEF Carried
<1>4. CASE Submit
  <2>1. PICK id \in IF form = {} THEN Rules \ (stored.rules \cup gone) ELSE form : Calls("save", "rules", {id})
    BY <1>4, Zenon DEF Submit
  <2>2. id \in Rules /\ {id} \cap gone \subseteq reopened
    BY <2>1 DEF PagesInv, Shapes, RulesGone
  <2>3. Fits(Call("save", "rules", {id})) /\ Prepared(Call("save", "rules", {id}))
    BY <1>1, <1>3, <2>2, ThingNames DEF Fits, Call, Prepared
  <2> QED BY <1>1, <1>2, <1>3, <2>1, <2>2, <2>3, ThingNames, CallsSend DEF Ops
<1>5. ASSUME NEW id \in Rules, Remove(id) PROVE PagesInv'
  <2>1. Fits(Call("remove", "rules", {id})) /\ Prepared(Call("remove", "rules", {id}))
    BY <1>1, <1>3, <1>5, ThingNames DEF Fits, Call, Prepared
  <2> QED BY <1>1, <1>2, <1>3, <1>5, <2>1, ThingNames, CallsSend DEF Ops, Remove
<1> QED BY <1>4, <1>5

LEMMA SaveTargetsInv ==
  ASSUME PagesInv, NEW next \in SUBSET Urls, SaveTargets(next)
  PROVE  PagesInv'
<1>1. /\ UNCHANGED <<stored, session, view, ready, todo, nodes, shown, form, range, faults, scope>>
      /\ UNCHANGED <<stale, gone, reopened>> /\ Calls("replace", "targets", next)
      /\ added' = added \cap (next \cup (added \ shown["targets"]))
  BY DEF SaveTargets, page
<1>2. Shapes'
  BY <1>1 DEF PagesInv, Shapes
<1>3. next \subseteq Values["targets"] /\ next \subseteq Carried
  BY ThingNames DEF Carried
<1>4. Fits(Call("replace", "targets", next)) /\ Prepared(Call("replace", "targets", next))
  BY <1>1, <1>3, ThingNames DEF Fits, Call, Prepared
<1> QED BY <1>1, <1>2, <1>3, <1>4, ThingNames, CallsSend DEF Ops

LEMMA SetRangeInv ==
  ASSUME PagesInv, NEW r \in Ranges, SetRange(r)
  PROVE  PagesInv'
<1>1. /\ UNCHANGED <<stored, session, view, ready, todo, nodes, form, faults, scope>>
      /\ UNCHANGED <<stale, gone, reopened, added>> /\ Calls("load", "chart", {r})
      /\ range' = {r} /\ shown' = [shown EXCEPT !["chart"] = {}]
  BY DEF SetRange, seen, Cleared
<1>2. /\ DOMAIN shown = Things /\ DOMAIN shown' = Things /\ shown'["chart"] = {}
      /\ \A t \in Things \ {"chart"} : shown'[t] = shown[t]
  BY <1>1, ThingNames DEF PagesInv, Shapes
<1>3. Shapes'
  BY <1>1, <1>2 DEF PagesInv, Shapes
<1>4. {r} \subseteq Values["chart"] /\ {r} \subseteq Carried
  BY ThingNames DEF Carried
<1>5. Fits(Call("load", "chart", {r})) /\ Prepared(Call("load", "chart", {r}))
  BY <1>1, <1>2, <1>4, ThingNames DEF Fits, Call, Prepared
<1> QED BY <1>1, <1>3, <1>4, <1>5, ThingNames, CallsSend DEF Ops

-----------------------------------------------------------------------------
(* The server handles a call *)

Handled(s, st, arg) ==
  /\ Busy' = Busy /\ net'[s].st = st /\ net'[s].arg = arg
  /\ \A x \in Slots : /\ net'[x].op = net[x].op /\ net'[x].on = net[x].on
                      /\ net'[x].form = net[x].form /\ net'[x].live = net[x].live
                      /\ net'[x].clean = net[x].clean
                      /\ x # s => net'[x] = net[x]

LEMMA HandledShape ==
  ASSUME NetOk, NEW s \in Busy, NEW st \in {"ok", "401", "500"}, NEW arg \in SUBSET Carried,
         net' = [net EXCEPT ![s].st = st, ![s].arg = arg],
         net[s].on \in Things => arg \subseteq Values[net[s].on],
         net[s].on \in {"chart", "rules"} => arg = net[s].arg \/ (net[s].op = "load" /\ net[s].on = "rules")
  PROVE  NetOk' /\ Handled(s, st, arg)
<1>1. net \in [Slots -> CallShape] /\ s \in Slots /\ net[s].op # "free"
  BY DEF NetOk, Busy
<1>2. \A x \in Slots \ {s} : net'[x] = net[x]
  BY <1>1
<1>3. net'[s] = [net[s] EXCEPT !.st = st, !.arg = arg] /\ net[s] \in CallShape
  BY <1>1
<1>4. /\ net'[s].op = net[s].op /\ net'[s].on = net[s].on /\ net'[s].form = net[s].form
      /\ net'[s].live = net[s].live /\ net'[s].clean = net[s].clean
      /\ net'[s].st = st /\ net'[s].arg = arg /\ net'[s] \in CallShape
  <2> DEFINE d == [net[s] EXCEPT !.st = st, !.arg = arg]
  <2>1. /\ d.op = net[s].op /\ d.on = net[s].on /\ d.form = net[s].form
        /\ d.live = net[s].live /\ d.clean = net[s].clean /\ d.st = st /\ d.arg = arg
    BY <1>3 DEF CallShape
  <2>2. d \in CallShape
    BY <1>3 DEF CallShape
  <2> QED BY <1>3, <2>1, <2>2
<1>5. net' \in [Slots -> CallShape]
  <2>1. net' = [x \in Slots |-> net'[x]]
    BY <1>1
  <2> QED BY <1>1, <1>2, <1>4, <2>1
<1>6. Busy' = Busy
  BY <1>2, <1>4 DEF Busy
<1>7. \A x \in Slots : net'[x].op = "free" => net'[x] = NoCall
  BY <1>1, <1>2, <1>4 DEF NetOk
<1>8. Fits(net'[s])
  BY <1>1, <1>4 DEF NetOk, Fits
<1>9. \A x \in Busy' : Fits(net'[x])
  BY <1>2, <1>6, <1>8 DEF NetOk, Busy
<1>10. Apart'
  <2> SUFFICES ASSUME NEW x \in Busy', NEW y \in Busy', x # y, Clash(net'[x], net'[y])
               PROVE  ~net'[x].clean /\ ~net'[y].clean
    BY DEF Apart
  <2>1. x \in Slots /\ y \in Slots
    BY DEF Busy
  <2>2. \A z \in Slots : net'[z].on = "chart" => net'[z].arg = net[z].arg
    BY <1>2, <1>4
  <2>3. \A z \in Slots : net'[z].on = net[z].on /\ net'[z].op = net[z].op
    BY <1>2, <1>4
  <2>4. /\ net'[x].on = net[x].on /\ net'[x].op = net[x].op
        /\ net'[y].on = net[y].on /\ net'[y].op = net[y].op
        /\ net[x].on = "chart" => net'[x].arg = net[x].arg
        /\ net[y].on = "chart" => net'[y].arg = net[y].arg
    BY <2>1, <2>2, <2>3
  <2>5. Clash(net[x], net[y])
    BY <2>4 DEF Clash
  <2> QED BY <1>2, <1>4, <1>6, <2>1, <2>5 DEF NetOk, Apart
<1> QED BY <1>1, <1>2, <1>4, <1>5, <1>6, <1>7, <1>9, <1>10 DEF NetOk, Handled

\* A call that failed, or was refused, and has done nothing.
LEMMA HandleFails ==
  ASSUME PagesInv, NEW s \in Busy, net[s].st = "sent", NEW st \in {"401", "500"},
         net' = [net EXCEPT ![s].st = st], UNCHANGED <<stored, session, scope, page, seen>>,
         faults' \in 0 .. MaxFaults
  PROVE  PagesInv'
<1>1. NetOk /\ net \in [Slots -> CallShape] /\ s \in Slots /\ Fits(net[s])
  BY DEF PagesInv, NetOk, Busy
<1>2. net' = [net EXCEPT ![s].st = st, ![s].arg = net[s].arg]
  BY <1>1 DEF CallShape
<1>3. net[s].arg \in SUBSET Carried /\ (net[s].on \in Things => net[s].arg \subseteq Values[net[s].on])
  BY <1>1 DEF Fits, CallShape
<1>4. /\ NetOk' /\ Busy' = Busy /\ net'[s].st = st /\ net'[s].arg = net[s].arg
      /\ \A x \in Slots : /\ net'[x].op = net[x].op /\ net'[x].on = net[x].on
                          /\ net'[x].form = net[x].form /\ net'[x].live = net[x].live
                          /\ net'[x].clean = net[x].clean
                          /\ x # s => net'[x] = net[x]
  <2> DEFINE arg == net[s].arg
  <2>1. /\ net' = [net EXCEPT ![s].st = st, ![s].arg = arg] /\ arg \in SUBSET Carried
        /\ net[s].on \in Things => arg \subseteq Values[net[s].on]
        /\ net[s].on \in {"chart", "rules"} => arg = net[s].arg
    BY <1>2, <1>3
  <2>2. st \in {"ok", "401", "500"}
    OBVIOUS
  <2> HIDE DEF arg
  <2>3. /\ NetOk' /\ Busy' = Busy /\ net'[s].st = st /\ net'[s].arg = arg
        /\ \A x \in Slots : /\ net'[x].op = net[x].op /\ net'[x].on = net[x].on
                            /\ net'[x].form = net[x].form /\ net'[x].live = net[x].live
                            /\ net'[x].clean = net[x].clean
                            /\ x # s => net'[x] = net[x]
    BY <1>1, <2>1, <2>2, HandledShape, ZenonT(60) DEF Handled
  <2> QED BY <2>3 DEF arg
<1>5. \A x \in Busy : net'[x].arg = net[x].arg /\ x \in Slots
  BY <1>4 DEF Busy
<1>6. /\ \A t : On(t)' = On(t) /\ \A x \in On(t) : x \in Busy
      /\ \A t : Certain(t)' <=> Certain(t)
  BY <1>4, <1>5 DEF On, Certain, seen
<1>7. Shapes'
  BY DEF PagesInv, Shapes, page, seen
<1>8. Told'
  BY <1>4, <1>5 DEF PagesInv, Told, Done
<1>9. OneLoad'
  BY <1>4, <1>5, <1>6 DEF PagesInv, OneLoad, page, seen
<1>10. SwitchesShow'
  <2>1. \A w : Shown(w) => Shown(w)'
    BY <1>4, <1>5, <1>6 DEF Shown, page
  <2> QED BY <1>6, <2>1 DEF PagesInv, SwitchesShow, page
<1>11. RulesGone'
  BY <1>4, <1>5, <1>6 DEF PagesInv, RulesGone, page, seen
<1>12. TargetsKept'
  BY <1>4, <1>5, <1>6 DEF PagesInv, TargetsKept, page, seen
<1>13. ChartFits'
  BY <1>4, <1>5, <1>6 DEF PagesInv, ChartFits, page, seen
<1> QED BY <1>4, <1>7, <1>8, <1>9, <1>10, <1>11, <1>12, <1>13 DEF PagesInv

\* A call that is done: what is clean about the same thing is a load of it, or
\* the only call about it.  When it is answered as failed all the same, the
\* switch it is about is in doubt.
LEMMA HandleDone ==
  ASSUME PagesInv, NEW s \in Busy, NEW arg, NEW st \in {"ok", "500"}, NetOk', Handled(s, st, arg),
         net[s].op = "load" /\ net[s].on \in Stored => arg = stored[net[s].on],
         net[s].op \notin {"load", "status"} => arg = net[s].arg,
         net[s].on = "chart" => arg = net[s].arg,
         net[s].st = "sent", Shapes', UNCHANGED <<page, gone, reopened, added>>,
         stale' = IF st = "ok" THEN stale ELSE stale \cup ({net[s].on} \cap Switches),
         \A t \in Stored : t # net[s].on \/ net[s].op \notin Written => stored'[t] = stored[t],
         net[s].op \in {"write", "replace"} => stored'[net[s].on] = net[s].arg,
         net[s].op = "save" => stored'["rules"] = stored["rules"] \cup net[s].arg,
         net[s].op = "remove" => stored'["rules"] = stored["rules"] \ net[s].arg
  PROVE  PagesInv'
<1> DEFINE c == net[s]
           on == c.on
<1>1. NetOk /\ net \in [Slots -> CallShape] /\ s \in Slots /\ Fits(c) /\ c \in CallShape /\ c.op # "free"
  BY DEF PagesInv, NetOk, Busy
<1>2. /\ c.op = "load" /\ on \in Stored => arg = stored[on]
      /\ c.op \notin {"load", "status"} => arg = c.arg
      /\ on = "chart" => arg = c.arg
  OBVIOUS
<1>5. /\ Busy' = Busy /\ net'[s].st = st /\ net'[s].arg = arg
      /\ \A x \in Slots : /\ net'[x].op = net[x].op /\ net'[x].on = net[x].on
                          /\ net'[x].form = net[x].form /\ net'[x].live = net[x].live
                          /\ net'[x].clean = net[x].clean
                          /\ x # s => net'[x] = net[x]
  BY DEF Handled
<1>6. /\ \A t : On(t)' = On(t) /\ \A x \in On(t) : x \in Busy
      /\ \A t : Certain(t)' => Certain(t) /\ (t = on /\ t \in Switches => st = "ok")
      /\ \A x \in Busy : x \in Slots
  BY <1>5 DEF On, Certain, Busy
<1>7. /\ \A t \in Stored : t # on \/ c.op \notin Written => stored'[t] = stored[t]
      /\ c.op \in {"write", "replace"} => stored'[on] = c.arg
      /\ c.op = "save" => stored'["rules"] = stored["rules"] \cup c.arg
      /\ c.op = "remove" => stored'["rules"] = stored["rules"] \ c.arg
  OBVIOUS
<1>8. \A x \in On(on) : x # s /\ net[x].clean => c.op = "load" /\ net[x].op = "load"
  <2> SUFFICES ASSUME NEW x \in On(on), x # s, net[x].clean PROVE c.op = "load" /\ net[x].op = "load"
    OBVIOUS
  <2>1. ~Clash(net[s], net[x]) /\ net[x].on = on
    BY <1>1 DEF NetOk, Apart, On
  <2> QED BY <2>1 DEF Clash
<1>10. Told'
  <2> SUFFICES ASSUME NEW x \in Busy PROVE Done(net[x])'
    BY <1>5 DEF Told
  <2>1. CASE x = s
    <3>1. net'[s].op = c.op /\ net'[s].on = on /\ net'[s].arg = arg
      BY <1>1, <1>5
    <3>2. on \in Stored /\ c.op = "load" => stored'[on] = arg
      BY <1>2, <1>7 DEF Written
    <3>3. c.op \in {"write", "replace"} => stored'[on] = arg
      BY <1>2, <1>7
    <3>4. c.op = "remove" => on = "rules" /\ stored'[on] \cap arg = {}
      BY <1>1, <1>2, <1>7 DEF Fits
    <3> QED BY <2>1, <3>1, <3>2, <3>3, <3>4 DEF Done
  <2>2. CASE x # s /\ net[x].on # on
    BY <1>5, <1>6, <1>7, <2>2 DEF Done, PagesInv, Told
  <2>3. CASE x # s /\ net[x].on = on
    <3>1. net[x].clean => c.op = "load"
      BY <1>8, <2>3 DEF On
    <3> QED BY <1>5, <1>6, <1>7, <2>3, <3>1 DEF Done, PagesInv, Told, Written
  <2> QED BY <2>1, <2>2, <2>3
<1>11. OneLoad'
  BY <1>5, <1>6 DEF PagesInv, OneLoad, page
<1>12. SwitchesShow'
  <2> SUFFICES ASSUME view = "servers", NEW w \in Switches, Certain(w)' PROVE Shown(w)'
    BY <1>6 DEF SwitchesShow, page
  <2>0. Certain(w) /\ (w = on => st = "ok")
    BY <1>6
  <2>1. Shown(w) /\ shown' = shown /\ w \in Stored
    BY <2>0, ThingNames DEF PagesInv, SwitchesShow, page
  <2>2. CASE w # on
    <3>1. \A x \in On(w) : x # s /\ net'[x] = net[x]
      BY <1>5, <1>6, <2>2 DEF On
    <3> QED BY <1>6, <1>7, <2>1, <2>2, <3>1 DEF Shown
  <2>3. CASE w = on /\ c.op = "load"
    <3>1. stored'[w] = stored[w]
      BY <1>7, <2>1, <2>3 DEF Written
    <3>2. \A x \in On(w) : net'[x].op = net[x].op /\ (net[x].op # "load" => net'[x] = net[x])
      BY <1>5, <1>6, <2>3
    <3> QED BY <1>6, <2>1, <3>1, <3>2 DEF Shown
  <2>4. CASE w = on /\ c.op # "load"
    <3>1. On(w) = {s} /\ c.clean
      BY <2>0, <1>1, <1>8, <2>4 DEF Certain, On
    <3>2. c.op = "write"
      BY <1>1, <2>4, ThingNames DEF Fits, CallShape, Ops
    <3>3. c.live /\ shown[w] = c.arg /\ stored'[w] = c.arg
      BY <1>7, <2>1, <2>4, <3>1, <3>2 DEF Shown
    <3> QED BY <1>2, <1>5, <1>6, <1>1, <2>0, <2>1, <2>4, <3>1, <3>2, <3>3 DEF Shown
  <2> QED BY <2>2, <2>3, <2>4
<1>13. RulesGone'
  <2>1. RulesGone /\ UNCHANGED <<form, gone, reopened>>
    BY DEF PagesInv, page
  <2>2. \A x \in On("rules") : net[x].op \in {"save", "remove"} => net'[x].arg = net[x].arg
    BY <1>2, <1>5, <1>6
  <2>3. Certain("rules") => gone \cap stored'["rules"] \subseteq reopened
    <3>1. CASE on # "rules" \/ c.op \notin Written
      BY <1>7, <2>1, <3>1, ThingNames DEF RulesGone
    <3>2. CASE on = "rules" /\ c.op \in Written
      <4>1. s \in On("rules") /\ c.op \in {"save", "remove"}
        BY <1>1, <3>2, ThingNames DEF On, Written, Fits
      <4> QED BY <1>7, <2>1, <4>1 DEF RulesGone
    <3> QED BY <3>1, <3>2
  <2> QED BY <1>5, <1>6, <2>1, <2>2, <2>3 DEF RulesGone
<1>14. TargetsKept'
  <2>1. TargetsKept /\ UNCHANGED <<shown, added>> /\ stale \subseteq stale'
    BY DEF PagesInv, page
  <2>2. \A x \in On("targets") : net[x].op = "replace" => net'[x].arg = net[x].arg
    BY <1>2, <1>5, <1>6
  <2>3. Certain("targets") => added \subseteq stored'["targets"]
    <3>1. CASE on # "targets" \/ c.op \notin Written
      BY <1>7, <2>1, <3>1, ThingNames DEF TargetsKept
    <3>2. CASE on = "targets" /\ c.op \in Written
      <4>1. s \in On("targets") /\ c.op = "replace"
        BY <1>1, <3>2, ThingNames DEF On, Written, Fits
      <4> QED BY <1>7, <2>1, <3>2, <4>1 DEF TargetsKept
    <3> QED BY <3>1, <3>2
  <2> QED BY <1>5, <1>6, <2>1, <2>2, <2>3 DEF TargetsKept
<1>15. ChartFits'
  <2>1. \A x \in On("chart") : net'[x].arg = net[x].arg
    BY <1>2, <1>5, <1>6 DEF On
  <2> QED BY <1>5, <1>6, <2>1 DEF PagesInv, ChartFits, page
<1> QED BY <1>10, <1>11, <1>12, <1>13, <1>14, <1>15 DEF PagesInv

LEMMA HandleEffect ==
  ASSUME PagesInv, NEW s \in Busy, net[s].st = "sent", NEW st \in {"ok", "500"},
         net' = [net EXCEPT ![s].st = st, ![s].arg = Answer(net[s])],
         stored' = Effect(net[s]), session' \in BOOLEAN, faults' \in 0 .. MaxFaults,
         UNCHANGED <<scope, page, gone, reopened, added>>,
         stale' = IF st = "ok" THEN stale ELSE stale \cup ({net[s].on} \cap Switches)
  PROVE  PagesInv'
<1> DEFINE c == net[s]
           arg == Answer(c)
           on == c.on
<1>1. NetOk /\ net \in [Slots -> CallShape] /\ s \in Slots /\ Fits(c) /\ c \in CallShape /\ c.op # "free"
      /\ c.st = "sent"
  BY DEF PagesInv, NetOk, Busy
<1>2. /\ c.op = "load" /\ on \in Stored => arg = stored[on]
      /\ c.op # "load" /\ c.op # "status" => arg = c.arg
      /\ c.op = "status" => arg \subseteq {"authenticated"} /\ on \notin Things
      /\ on = "chart" => arg = c.arg
      /\ on = "rules" => arg = c.arg \/ c.op = "load"
  BY <1>1, ThingNames DEF Answer, Fits
<1>3. DOMAIN stored = Stored /\ stored = [t \in Stored |-> stored[t]] /\ \A t \in Stored : stored[t] \subseteq Values[t]
  BY DEF PagesInv, Shapes
<1>4. arg \in SUBSET Carried /\ (on \in Things => arg \subseteq Values[on])
  <2>1. c.arg \subseteq Carried /\ (on \in Things => c.arg \subseteq Values[on])
    BY <1>1 DEF CallShape, Fits
  <2>2. \A t \in Stored : Values[t] \subseteq Carried /\ t \in Things
    BY ThingNames DEF Carried
  <2>3. CASE c.op = "load"
    <3>1. on \in Stored \/ on = "chart"
      BY <1>1, <2>3, ThingNames DEF Fits
    <3> QED BY <1>2, <1>3, <2>1, <2>2, <2>3, <3>1
  <2>4. CASE c.op = "status"
    BY <1>2, <2>4 DEF Carried
  <2>5. CASE c.op # "load" /\ c.op # "status"
    BY <1>2, <2>1, <2>5
  <2> QED BY <2>3, <2>4, <2>5
<1>5. NetOk' /\ Handled(s, st, arg)
  <2>1. net[s].on \in {"chart", "rules"} => arg = net[s].arg \/ (net[s].op = "load" /\ net[s].on = "rules")
    BY <1>2, ThingNames
  <2>2. net' = [net EXCEPT ![s].st = st, ![s].arg = arg] /\ st \in {"ok", "401", "500"}
    OBVIOUS
  <2>3. net[s].on \in Things => arg \subseteq Values[net[s].on]
    BY <1>4
  <2> HIDE DEF arg
  <2> QED BY <1>1, <1>4, <2>1, <2>2, <2>3, HandledShape
\* What is stored, by the call.
<1>7. /\ DOMAIN stored' = Stored /\ stored' = [t \in Stored |-> stored'[t]]
      /\ \A t \in Stored : t # on \/ c.op \notin Written => stored'[t] = stored[t]
      /\ c.op \in {"write", "replace"} => on \in Stored /\ stored'[on] = c.arg
      /\ c.op = "save" => on = "rules" /\ stored'["rules"] = stored["rules"] \cup c.arg
      /\ c.op = "remove" => on = "rules" /\ stored'["rules"] = stored["rules"] \ c.arg
  <2>1. CASE c.op \in {"write", "replace"}
    <3>1. on \in Stored /\ stored' = [stored EXCEPT ![on] = c.arg]
      BY <1>1, <2>1, ThingNames DEF Effect, Fits
    <3> QED BY <1>3, <2>1, <3>1 DEF Written
  <2>2. CASE c.op = "save"
    <3>1. on = "rules" /\ stored' = [stored EXCEPT !["rules"] = stored["rules"] \cup c.arg] /\ "rules" \in Stored
      BY <1>1, <2>2, ThingNames DEF Effect, Fits
    <3> QED BY <1>3, <2>2, <3>1, ThingNames DEF Written
  <2>3. CASE c.op = "remove"
    <3>1. on = "rules" /\ stored' = [stored EXCEPT !["rules"] = stored["rules"] \ c.arg] /\ "rules" \in Stored
      BY <1>1, <2>3, ThingNames DEF Effect, Fits
    <3> QED BY <1>3, <2>3, <3>1, ThingNames DEF Written
  <2>4. CASE c.op \notin Written
    <3>1. stored' = stored
      BY <2>4 DEF Effect, Written
    <3> QED BY <1>3, <2>4, <3>1 DEF Written
  <2> QED BY <2>1, <2>2, <2>3, <2>4 DEF Written
<1> HIDE DEF arg
<1>9. Shapes'
  <2>1. \A t \in Stored : stored'[t] \subseteq Values[t]
    <3> TAKE t \in Stored
    <3>1. CASE t # on \/ c.op \notin Written
      BY <1>3, <1>7, <3>1
    <3>2. CASE t = on /\ c.op \in Written
      <4>1. c.arg \subseteq Values[t]
        BY <1>1, <3>2, ThingNames DEF Fits
      <4> QED BY <1>3, <1>7, <3>2, <4>1 DEF Written
    <3> QED BY <3>1, <3>2
  <2>2. stored' \in [Stored -> SUBSET Settings]
    <3>1. \A t \in Stored : Values[t] \subseteq Settings
      BY ThingNames DEF Settings
    <3> QED BY <1>7, <2>1, <3>1
  <2>3. stale' \subseteq Things
    BY ThingNames DEF PagesInv, Shapes
  <2> QED BY <2>1, <2>2, <2>3 DEF PagesInv, Shapes, page
<1> QED BY <1>1, <1>2, <1>5, <1>7, <1>9, HandleDone

LEMMA HandleInv ==
  ASSUME PagesInv, NEW s \in Slots, Handle(s)
  PROVE  PagesInv'
<1>1. s \in Busy /\ net[s].st = "sent"
  BY DEF Handle, PagesInv, NetOk, NoCall, Busy
<1>2. faults \in 0 .. MaxFaults /\ session \in BOOLEAN /\ (Fault => faults' \in 0 .. MaxFaults)
  BY PagesAssumption DEF PagesInv, Shapes, Fault
<1>3. CASE net' = [net EXCEPT ![s].st = "ok", ![s].arg = Answer(net[s])] /\ stored' = Effect(net[s])
           /\ session' = (session \/ net[s].op = "login") /\ UNCHANGED <<faults, stale>>
  BY <1>1, <1>2, <1>3, HandleEffect DEF Handle
<1>4. CASE net' = [net EXCEPT ![s].st = "401"] /\ UNCHANGED <<stored, session, faults, stale>>
  BY <1>1, <1>2, <1>4, HandleFails DEF Handle, seen
<1>5. CASE /\ Fault /\ net' = [net EXCEPT ![s].st = "500"] /\ UNCHANGED session
           /\ stored' = stored \/ stored' = Effect(net[s])
           /\ stale' = IF stored' = stored THEN stale ELSE stale \cup ({net[s].on} \cap Switches)
  <2>1. CASE stored' = stored
    BY <1>1, <1>2, <1>5, <2>1, HandleFails DEF Handle, seen
  <2>2. CASE stored' # stored
    <3>1. net[s].op \in Written
      BY <1>5, <2>2 DEF Effect, Written
    <3>2. Answer(net[s]) = net[s].arg
      BY <3>1 DEF Answer, Written
    <3>3. net' = [net EXCEPT ![s].st = "500", ![s].arg = Answer(net[s])]
      BY <1>1, <1>5, <3>2 DEF PagesInv, NetOk, CallShape
    <3>4. stored' = Effect(net[s]) /\ stale' = stale \cup ({net[s].on} \cap Switches)
      BY <1>5, <2>2
    <3> QED BY <1>1, <1>2, <1>5, <3>3, <3>4, HandleEffect DEF Handle
  <2> QED BY <2>1, <2>2
<1> QED BY <1>3, <1>4, <1>5 DEF Handle

-----------------------------------------------------------------------------
(* Answers *)

\* Whatever is not about the thing answered for is left alone.
OnlyAbout(on) ==
  /\ \A t : t # on => Aside(t) /\ (t \in Things => shown'[t] = shown[t])
  /\ UNCHANGED <<stored, view, range, todo>>
  /\ on # "rules" => UNCHANGED <<form, gone, reopened>>
  /\ on # "targets" => added' = added

LEMMA Rest ==
  ASSUME PagesInv, NEW on, OnlyAbout(on)
  PROVE  /\ on # "order" => OneLoad'
         /\ on \notin Switches => SwitchesShow'
         /\ on \in Switches /\ (view = "servers" /\ Certain(on)' => Shown(on)') => SwitchesShow'
         /\ on # "rules" => RulesGone'
         /\ on # "targets" => TargetsKept'
         /\ on # "chart" => ChartFits'
<1>1. on # "order" => OneLoad'
  BY OneLoadAside DEF PagesInv, OnlyAbout
<1>2. ASSUME view = "servers", NEW w \in Switches, w # on PROVE Certain(w)' => Shown(w)'
  <2>1. Aside(w) /\ stored'[w] = stored[w] /\ shown'[w] = shown[w]
    BY <1>2, ThingNames DEF OnlyAbout
  <2>2. Certain(w) => Shown(w)
    BY <1>2 DEF PagesInv, SwitchesShow
  <2> QED BY <2>1, <2>2, SwitchAside
<1>3. /\ on \notin Switches => SwitchesShow'
      /\ on \in Switches /\ (view = "servers" /\ Certain(on)' => Shown(on)') => SwitchesShow'
  BY <1>2 DEF SwitchesShow, OnlyAbout
<1>4. on # "rules" => RulesGone'
  BY RulesAside DEF PagesInv, OnlyAbout
<1>5. on # "targets" => TargetsKept'
  BY TargetsAside, ThingNames DEF PagesInv, OnlyAbout
<1>6. on # "chart" => ChartFits'
  BY ChartAside, ThingNames DEF PagesInv, OnlyAbout
<1> QED BY <1>1, <1>3, <1>4, <1>5, <1>6

\* The call of slot s is over; nothing, or a load of the same thing, follows.
Ends(s, on, again) ==
  /\ On(on)' = IF again THEN On(on) ELSE On(on) \ {s}
  /\ \A x \in On(on) \ {s} : Stays(x)
  /\ again => net'[s].op = "load"
  /\ \A t : t # on => On(t)' = On(t) /\ \A x \in On(t) : Stays(x)

LEMMA FreedEnds ==
  ASSUME PagesInv, NEW s \in Busy, NEW on, net[s].on = on, Freed(s)
  PROVE  NetOk' /\ Ends(s, on, FALSE) /\ (stored' = stored => Told')
<1>1. s \in Slots /\ NetOk
  BY DEF Busy, PagesInv
<1>2. NetOk' /\ Busy' = Busy \ {s} /\ \A x \in Busy' : Stays(x) /\ net'[x] = net[x]
  BY <1>1, Frees
<1>3. Ends(s, on, FALSE)
  <2>1. \A x \in Busy \ {s} : Stays(x) /\ net'[x].on = net[x].on /\ x \in Busy'
    BY <1>2 DEF Stays, Lasts
  <2>2. \A t : On(t)' = On(t) \ {s} /\ \A x \in On(t) \ {s} : Stays(x)
    BY <1>2, <2>1 DEF On
  <2>3. \A t : t # on => s \notin On(t)
    BY DEF On
  <2>4. \A t : t # on => On(t)' = On(t) /\ \A x \in On(t) : Stays(x)
    BY <2>2, <2>3
  <2> QED BY <2>2, <2>4 DEF Ends
<1>4. stored' = stored => Told'
  BY <1>2, TellsOn DEF PagesInv, Stays
<1> QED BY <1>2, <1>3, <1>4

LEMMA AgainEnds ==
  ASSUME PagesInv, NEW s \in Busy, NEW thing \in {"rules", "targets"}, net[s].on = thing, Again(s, thing)
  PROVE  NetOk' /\ Ends(s, thing, TRUE) /\ (stored' = stored => Told')
<1> DEFINE c == Call("load", thing, {})
<1>1. s \in Slots /\ NetOk /\ net' = Sending(s, c)
  BY DEF Busy, PagesInv, Again
<1>2. c \in CallShape /\ c.op = "load" /\ c.on = thing /\ c.clean /\ c.st = "sent" /\ Fits(c)
  <2>1. {} \in SUBSET Carried /\ "load" \in Ops /\ thing \in Things \cup {"status", "poll"}
    BY ThingNames DEF Ops
  <2>2. c \in CallShape /\ c.op = "load" /\ c.on = thing /\ c.arg = {} /\ c.clean /\ c.st = "sent"
    BY <2>1, CallsShape
  <2> QED BY <2>2, ThingNames DEF Fits
<1> HIDE DEF c
<1>3. /\ NetOk' /\ Busy' = Busy \cup {s} /\ \A x \in Busy' \ {s} : Stays(x)
      /\ net'[s] = [c EXCEPT !.clean = \A y \in Busy \ {s} : ~Clash(c, net[y])]
  BY <1>1, <1>2, Sends
<1>4. net'[s].op = "load" /\ net'[s].on = thing /\ net'[s].st = "sent"
  BY <1>2, <1>3 DEF CallShape
<1>5. Ends(s, thing, TRUE)
  <2>1. Busy' = Busy
    BY <1>3
  <2>2. \A x \in Busy \ {s} : Stays(x) /\ net'[x].on = net[x].on
    BY <1>3, <2>1 DEF Stays, Lasts
  <2> QED BY <1>4, <2>1, <2>2 DEF Ends, On
<1>6. stored' = stored => Told'
  BY <1>3, <1>4, TellsOn DEF PagesInv, Stays
<1> QED BY <1>3, <1>5, <1>6

LEMMA EndsAside ==
  ASSUME NEW s \in Busy, NEW on, NEW again \in BOOLEAN, Ends(s, on, again),
         \A t : t # on /\ t \in stale => t \in stale'
  PROVE  \A t : t # on => Aside(t)
BY DEF Ends, Aside

\* What is certain once the call is over was so before.
LEMMA EndsCertain ==
  ASSUME NEW s \in Busy, NEW on, net[s].on = on, NEW again \in BOOLEAN, Ends(s, on, again),
         stale' = Doubted(net[s]), Certain(on)'
  PROVE  Certain(on) /\ net[s].clean
<1>1. on \notin stale' /\ \A x \in On(on)' : net'[x].clean
  BY DEF Certain
<1>2. net[s].clean /\ on \notin stale
  BY <1>1 DEF Doubted
<1>3. \A x \in On(on) \ {s} : Stays(x) /\ x \in On(on)'
  BY DEF Ends
<1>4. \A x \in On(on) : net[x].clean
  BY <1>1, <1>2, <1>3 DEF Stays, Lasts
<1> QED BY <1>2, <1>4 DEF Certain

LEMMA BusyAt ==
  ASSUME PagesInv, NEW s \in Slots, net[s].st # "free" PROVE s \in Busy /\ Fits(net[s]) /\ net[s] \in CallShape
BY DEF PagesInv, NetOk, NoCall, Busy

LEMMA UnnoticedInv ==
  ASSUME PagesInv, NEW s \in Slots, Unnoticed(s) \/ StaysHere(s)
  PROVE  PagesInv'
<1>1. /\ s \in Busy /\ Freed(s) /\ net[s].op \in {"poll", "login", "status"} /\ Fits(net[s])
      /\ UNCHANGED <<stored, session, view, todo, nodes, shown, form, range, faults, scope>>
      /\ UNCHANGED <<stale, gone, reopened, added>> /\ ready' \in BOOLEAN
  <2>1. net[s].st # "free" /\ net[s].op \in {"poll", "login", "status"} /\ Freed(s)
    BY DEF Unnoticed, StaysHere, Answered
  <2>2. /\ UNCHANGED <<stored, session, view, todo, nodes, shown, form, range, faults, scope>>
        /\ UNCHANGED <<stale, gone, reopened, added>>
    BY DEF Unnoticed, StaysHere, page, seen
  <2>3. ready' \in BOOLEAN
    <3>1. CASE Unnoticed(s)
      BY <3>1 DEF Unnoticed, page, PagesInv, Shapes
    <3>2. CASE StaysHere(s)
      BY <3>2 DEF StaysHere
    <3> QED BY <3>1, <3>2
  <2> QED BY <2>1, <2>2, <2>3, BusyAt
<1>2. PICK on : on = net[s].on /\ on \notin Things
  BY <1>1, ThingNames DEF Fits
<1>3. NetOk' /\ Ends(s, on, FALSE) /\ Told'
  BY <1>1, <1>2, FreedEnds
<1>4. OnlyAbout(on)
  BY <1>1, <1>3, EndsAside DEF OnlyAbout
<1>5. Shapes'
  BY <1>1 DEF PagesInv, Shapes
<1> QED BY <1>2, <1>3, <1>4, <1>5, Rest, ThingNames DEF PagesInv

LEMMA LateInv ==
  ASSUME PagesInv, NEW s \in Slots, Late(s)
  PROVE  PagesInv'
<1>1. /\ s \in Busy /\ Freed(s) /\ net[s].op \in Written /\ Fits(net[s]) /\ ~net[s].live
      /\ UNCHANGED <<stored, session, view, ready, todo, nodes, shown, form, range, faults, scope>>
      /\ UNCHANGED <<gone, reopened, added>> /\ stale' = Doubted(net[s])
  BY BusyAt DEF Late, Answered, page, Written
<1>2. PICK on : on = net[s].on /\ on \in Stored
  BY <1>1, ThingNames DEF Fits, Written
<1>3. NetOk' /\ Ends(s, on, FALSE) /\ Told' /\ (Certain(on)' => Certain(on))
  BY <1>1, <1>2, FreedEnds, EndsCertain
<1>4. stale \subseteq stale' /\ stale' \subseteq Things
  BY <1>1, <1>2, ThingNames DEF Doubted, PagesInv, Shapes
<1>5. OnlyAbout(on)
  BY <1>1, <1>3, <1>4, EndsAside DEF OnlyAbout
<1>6. Shapes'
  BY <1>1, <1>4 DEF PagesInv, Shapes
<1>7. s \in On(on) /\ net[s].op # "load"
  BY <1>1, <1>2 DEF On, Written
<1>8. OneLoad'
  <2>1. CASE on = "order"
    BY <1>1, <1>3, <1>4, <2>1 DEF Ends, OneLoad, PagesInv, Stays, Lasts
  <2> QED BY <1>5, <2>1, Rest
<1>9. SwitchesShow'
  <2>1. ASSUME on \in Switches, view = "servers", Certain(on)' PROVE FALSE
    <3>1. net[s].op = "write"
      BY <1>1, <1>2, <2>1, ThingNames DEF Fits, Written
    <3>2. Shown(on)
      BY <1>3, <2>1 DEF PagesInv, SwitchesShow
    <3> QED BY <1>1, <1>7, <3>1, <3>2 DEF Shown
  <2> QED BY <1>5, <2>1, Rest
<1>10. RulesGone'
  <2>1. CASE on = "rules"
    BY <1>1, <1>3, <1>4, <2>1 DEF Ends, RulesGone, PagesInv, Stays, Lasts
  <2> QED BY <1>5, <2>1, Rest
<1>11. TargetsKept'
  <2>1. CASE on = "targets"
    BY <1>1, <1>3, <1>4, <1>7, <2>1 DEF Ends, TargetsKept, PagesInv, Stays, Lasts
  <2> QED BY <1>5, <2>1, Rest
<1>12. ChartFits'
  BY <1>2, <1>5, Rest, ThingNames
<1> QED BY <1>3, <1>6, <1>8, <1>9, <1>10, <1>11, <1>12 DEF PagesInv

LEMMA LoseInv ==
  ASSUME PagesInv, NEW s \in Slots, Lose(s)
  PROVE  PagesInv'
<1>1. /\ s \in Busy /\ Freed(s) /\ faults' \in 0 .. MaxFaults /\ ready' \in BOOLEAN
      /\ stale' = IF net[s].on \in Stored THEN stale \cup {net[s].on} ELSE stale
      /\ UNCHANGED <<stored, session, view, todo, nodes, shown, form, range, scope>>
      /\ UNCHANGED <<gone, reopened, added>>
  BY PagesAssumption DEF Lose, Fault, PagesInv, Shapes
<1>2. PICK on : on = net[s].on
  OBVIOUS
<1>3. NetOk' /\ Ends(s, on, FALSE) /\ Told'
  BY <1>1, <1>2, FreedEnds
<1>4. /\ stale \subseteq stale' /\ stale' \subseteq Things /\ (on \in Stored => on \in stale')
  BY <1>1, <1>2, ThingNames DEF PagesInv, Shapes
<1>5. OnlyAbout(on)
  BY <1>1, <1>3, <1>4, EndsAside DEF OnlyAbout
<1>6. Shapes'
  BY <1>1, <1>4 DEF PagesInv, Shapes
<1>7. on \in Stored => ~Certain(on)'
  BY <1>4 DEF Certain
<1>8. OneLoad'
  <2>1. CASE on = "order"
    BY <1>1, <1>3, <1>4, <2>1 DEF Ends, OneLoad, PagesInv, Stays, Lasts
  <2> QED BY <1>5, <2>1, Rest
<1>9. SwitchesShow'
  BY <1>5, <1>7, Rest, ThingNames
<1>10. RulesGone'
  <2>1. CASE on = "rules"
    BY <1>1, <1>3, <1>7, <2>1, ThingNames DEF Ends, RulesGone, PagesInv, Stays, Lasts
  <2> QED BY <1>5, <2>1, Rest
<1>11. TargetsKept'
  <2>1. CASE on = "targets"
    BY <1>4, <1>7, <2>1, ThingNames DEF TargetsKept
  <2> QED BY <1>5, <2>1, Rest
<1>12. ChartFits'
  <2>1. CASE on = "chart"
    BY <1>1, <1>2, <1>3, <1>4, <2>1 DEF Ends, ChartFits, PagesInv, Stays, Lasts
  <2> QED BY <1>5, <2>1, Rest
<1> QED BY <1>3, <1>6, <1>8, <1>9, <1>10, <1>11, <1>12 DEF PagesInv

LEMMA FlippedInv ==
  ASSUME PagesInv, NEW s \in Slots, Flipped(s)
  PROVE  PagesInv'
<1>1. /\ s \in Busy /\ Freed(s) /\ net[s].op = "write" /\ Fits(net[s])
      /\ UNCHANGED <<stored, session, view, ready, todo, nodes, form, range, faults, scope>>
      /\ UNCHANGED <<gone, reopened, added>> /\ stale' = Doubted(net[s])
      /\ shown' = IF Ok(s) THEN shown ELSE [shown EXCEPT ![net[s].on] = RolledBack(net[s])]
      /\ net[s].st \in {"ok", "401", "500"}
  BY BusyAt DEF Flipped, Answered
<1>2. PICK on : on = net[s].on /\ on \in Switches
  BY <1>1, ThingNames DEF Fits
<1>3. NetOk' /\ Ends(s, on, FALSE) /\ Told' /\ (Certain(on)' => Certain(on) /\ net[s].clean)
  BY <1>1, <1>2, FreedEnds, EndsCertain
<1>4. stale \subseteq stale' /\ stale' \subseteq Things
  BY <1>1, <1>2, ThingNames DEF Doubted, PagesInv, Shapes
<1>5. /\ DOMAIN shown' = Things /\ \A t \in Things \ {on} : shown'[t] = shown[t]
      /\ shown'[on] = IF Ok(s) THEN shown[on] ELSE Positions[on] \ net[s].arg
  BY <1>1, <1>2, ThingNames DEF PagesInv, Shapes, RolledBack
<1>6. OnlyAbout(on)
  <2>1. \A t : t # on => Aside(t)
    BY <1>1, <1>3, <1>4, EndsAside
  <2>2. \A t : t # on /\ t \in Things => shown'[t] = shown[t]
    BY <1>5
  <2> QED BY <1>1, <2>1, <2>2 DEF OnlyAbout
<1>7. Shapes'
  <2>1. shown'[on] \subseteq Values[on]
    BY <1>2, <1>5, ThingNames DEF PagesInv, Shapes
  <2> QED BY <1>1, <1>4, <1>5, <2>1 DEF PagesInv, Shapes
<1>8. OneLoad'
  <2>1. CASE on = "order"
    BY <1>1, <1>3, <1>4, <2>1 DEF Ends, OneLoad, PagesInv, Stays, Lasts
  <2> QED BY <1>6, <2>1, Rest
<1>9. SwitchesShow'
  <2>1. ASSUME view = "servers", Certain(on)' PROVE Shown(on)'
    <3>1. Shown(on) /\ s \in On(on) /\ net[s].clean /\ NetOk
      BY <1>1, <1>2, <1>3, <2>1 DEF PagesInv, SwitchesShow, On
    <3>2. \A x \in On(on) : x # s => Clash(net[s], net[x])
      BY <1>1, <1>2 DEF Clash, On
    <3>3. On(on) = {s}
      BY <3>1, <3>2 DEF NetOk, Apart, On
    <3>4. On(on)' = {}
      BY <1>3, <3>3 DEF Ends
    <3>5. /\ shown[on] = net[s].arg
          /\ net[s].st # "ok" => stored[on] = Positions[on] \ net[s].arg
      BY <1>1, <3>1 DEF Shown
    <3>6. net[s].st = "ok" => stored[on] = net[s].arg
      BY <1>1, <1>2, <3>1, ThingNames DEF PagesInv, Told, Done
    <3>7. shown'[on] = stored'[on]
      BY <1>1, <1>5, <3>5, <3>6 DEF Ok
    <3> QED BY <3>4, <3>7 DEF Shown
  <2> QED BY <1>6, <2>1, Rest
<1> QED BY <1>2, <1>3, <1>6, <1>7, <1>8, <1>9, Rest, ThingNames DEF PagesInv

\* A clean load is not crossed by anything but loads.
LEMMA LoadsOnly ==
  ASSUME PagesInv, NEW s \in Busy, net[s].op = "load", net[s].clean, NEW on, net[s].on = on
  PROVE  \A x \in On(on) : net[x].clean => net[x].op = "load"
<1> SUFFICES ASSUME NEW x \in On(on), net[x].clean, net[x].op # "load" PROVE FALSE
  OBVIOUS
<1>1. Clash(net[s], net[x]) /\ x \in Busy /\ x # s
  BY DEF On, Clash
<1> QED BY <1>1 DEF PagesInv, NetOk, Apart

LEMMA LoadedInv ==
  ASSUME PagesInv, NEW s \in Slots, Loaded(s)
  PROVE  PagesInv'
<1> DEFINE c == net[s]
           fresh == Ok(s) /\ c.clean /\ Shows(c)
<1>1. /\ s \in Busy /\ Freed(s) /\ c.op = "load" /\ Fits(c) /\ c.st \in {"ok", "401", "500"}
      /\ UNCHANGED <<stored, session, view, ready, todo, form, range, faults, scope, reopened>>
  BY BusyAt DEF Loaded, Answered
<1>2. PICK on : on = c.on /\ on \in Things
  BY <1>1 DEF Fits
<1>3. /\ nodes' = IF on = "order" THEN Read(c) ELSE nodes
      /\ shown' = IF Shows(c) THEN [shown EXCEPT ![on] = Read(c)] ELSE shown
      /\ stale' = IF fresh THEN stale \ {on} ELSE Doubted(c)
      /\ added' = IF on = "targets" THEN added \cap Read(c) ELSE added
      /\ gone' = IF on = "rules" THEN gone \ Read(c) ELSE gone
  BY <1>2 DEF Loaded
<1>4. /\ Read(c) \subseteq Values[on]
      /\ c.st = "ok" => Read(c) = c.arg
      /\ c.st # "ok" /\ on \in {"public", "chart"} => Read(c) = shown[on]
      /\ Shows(c) <=> on # "order" \/ view = "servers"
  BY <1>1, <1>2, ThingNames DEF Read, Shows, Fits, PagesInv, Shapes
<1>5. c.st = "ok" /\ c.clean /\ on \in Stored => c.arg = stored[on]
  BY <1>1, <1>2 DEF PagesInv, Told, Done
<1>6. fresh <=> c.st = "ok" /\ c.clean /\ (on # "order" \/ view = "servers")
  BY <1>4 DEF Ok
<1>7. /\ NetOk' /\ Ends(s, on, FALSE) /\ Told'
      /\ ~fresh /\ Certain(on)' => Certain(on) /\ c.clean
  BY <1>1, <1>2, <1>3, FreedEnds, EndsCertain
<1>8. /\ \A t : t # on /\ t \in stale => t \in stale'
      /\ stale' \subseteq Things
  BY <1>2, <1>3 DEF Doubted, PagesInv, Shapes
<1> HIDE DEF c, fresh
<1>9. /\ DOMAIN shown' = Things /\ \A t \in Things \ {on} : shown'[t] = shown[t]
      /\ shown'[on] = IF on # "order" \/ view = "servers" THEN Read(c) ELSE shown[on]
  BY <1>2, <1>3, <1>4 DEF PagesInv, Shapes
<1>10. OnlyAbout(on)
  <2>1. \A t : t # on => Aside(t)
    BY <1>1, <1>7, <1>8, EndsAside
  <2>2. \A t : t # on /\ t \in Things => shown'[t] = shown[t]
    BY <1>9
  <2> QED BY <1>1, <1>3, <2>1, <2>2 DEF OnlyAbout
<1>11. Shapes'
  <2>1. \A t \in Things : shown'[t] \subseteq Values[t]
    BY <1>2, <1>4, <1>9 DEF PagesInv, Shapes
  <2>2. nodes' \subseteq Values["order"] /\ gone' \subseteq Rules
    BY <1>3, <1>4 DEF PagesInv, Shapes
  <2> QED BY <1>1, <1>8, <1>9, <2>1, <2>2 DEF PagesInv, Shapes
<1>12. /\ On(on)' = On(on) \ {s} /\ \A x \in On(on)' : Stays(x) /\ x \in On(on)
       /\ s \in On(on) /\ net[s] = c
       /\ c.clean => \A x \in On(on)' : net'[x].clean => net'[x].op = "load"
  <2>1. On(on)' = On(on) \ {s} /\ \A x \in On(on)' : Stays(x) /\ x \in On(on)
    BY <1>7 DEF Ends
  <2>2. s \in On(on) /\ net[s] = c
    BY <1>1, <1>2 DEF On, c
  <2>3. c.clean => \A x \in On(on) : net[x].clean => net[x].op = "load"
    BY <1>1, <1>2, <2>2, LoadsOnly
  <2> QED BY <2>1, <2>2, <2>3 DEF Stays, Lasts
<1>13. OneLoad'
  <2>1. CASE on = "order"
    <3>1. \A x \in On("order")' : net'[x].op # "load"
      BY <1>1, <1>12, <2>1 DEF OneLoad, PagesInv, Stays, Lasts
    <3>2. "order" \notin todo'
      BY <1>1, <1>12, <2>1 DEF OneLoad, PagesInv
    <3> QED BY <3>1, <3>2 DEF OneLoad
  <2> QED BY <1>10, <2>1, Rest
<1>14. SwitchesShow'
  <2>1. ASSUME on \in Switches, view = "servers", Certain(on)' PROVE Shown(on)'
    <3>1. CASE fresh
      <4>1. \A x \in On(on)' : net'[x].op = "load"
        BY <1>6, <1>12, <2>1, <3>1 DEF Certain
      <4>2. shown'[on] = stored'[on]
        BY <1>1, <1>4, <1>5, <1>6, <1>9, <2>1, <3>1, ThingNames
      <4> QED BY <4>1, <4>2 DEF Shown
    <3>2. CASE ~fresh
      <4>1. Certain(on) /\ c.clean
        BY <1>7, <2>1, <3>2
      <4>2. on = "public"
        BY <1>1, <1>12, <2>1, <4>1, ThingNames DEF Certain, OneLoad, PagesInv
      <4>3. Shown(on) /\ \A x \in On(on)' : net'[x].op = "load"
        BY <1>12, <2>1, <4>1 DEF SwitchesShow, PagesInv, Certain, Stays, Lasts
      <4>4. \A x \in On(on) : net[x].op = "load"
        BY <1>1, <1>12, <4>3 DEF Stays, Lasts
      <4>5. shown[on] = stored[on]
        BY <4>3, <4>4 DEF Shown
      <4>6. shown'[on] = shown[on]
        BY <1>1, <1>4, <1>6, <1>9, <3>2, <4>1, <4>2
      <4> QED BY <1>1, <4>3, <4>5, <4>6 DEF Shown
    <3> QED BY <3>1, <3>2
  <2> QED BY <1>10, <2>1, Rest
<1>15. RulesGone'
  <2>1. CASE on = "rules"
    <3>1. RulesGone /\ gone' = gone \ Read(c) /\ UNCHANGED <<form, stored, reopened>>
      BY <1>1, <1>3, <2>1 DEF PagesInv
    <3>2. \A x \in On("rules")' :
            net'[x].op = "remove" /\ net'[x].live /\ form = net'[x].arg /\ net'[x].form # net'[x].arg =>
              form \subseteq reopened
      BY <1>12, <2>1, <3>1 DEF RulesGone, Stays, Lasts
    <3>3. ASSUME Certain("rules")'
          PROVE  /\ gone' \cap stored["rules"] \subseteq reopened
                 /\ \A x \in On("rules")' : net'[x].op = "save" => net'[x].arg \cap gone' \subseteq reopened
      <4>1. CASE fresh
        <5>1. \A x \in On("rules")' : net'[x].op = "load"
          BY <1>6, <1>12, <2>1, <3>3, <4>1 DEF Certain
        <5>2. gone' \cap stored["rules"] = {}
          BY <1>4, <1>5, <1>6, <2>1, <3>1, <4>1, ThingNames
        <5> QED BY <5>1, <5>2
      <4>2. CASE ~fresh
        <5>1. Certain("rules")
          BY <1>7, <2>1, <3>3, <4>2
        <5> QED BY <1>12, <2>1, <3>1, <5>1 DEF RulesGone, Stays, Lasts
      <4> QED BY <4>1, <4>2
    <3> QED BY <3>1, <3>2, <3>3 DEF RulesGone
  <2> QED BY <1>10, <2>1, Rest
<1>16. TargetsKept'
  <2>1. CASE on = "targets"
    <3>1. TargetsKept /\ added' = added \cap Read(c) /\ stored' = stored /\ shown'["targets"] = Read(c)
      BY <1>1, <1>3, <1>9, <2>1 DEF PagesInv
    <3>2. ASSUME Certain("targets")'
          PROVE  /\ added' \subseteq stored["targets"]
                 /\ \A x \in On("targets")' : net'[x].op = "replace" => added' \subseteq net'[x].arg
      <4>1. CASE fresh
        <5>1. \A x \in On("targets")' : net'[x].op = "load"
          BY <1>6, <1>12, <2>1, <3>2, <4>1 DEF Certain
        <5>2. added' \subseteq stored["targets"]
          BY <1>4, <1>5, <1>6, <2>1, <3>1, <4>1, ThingNames
        <5> QED BY <5>1, <5>2
      <4>2. CASE ~fresh
        <5>1. Certain("targets")
          BY <1>7, <2>1, <3>2, <4>2
        <5> QED BY <1>12, <2>1, <3>1, <5>1 DEF TargetsKept, Stays, Lasts
      <4> QED BY <4>1, <4>2
    <3> QED BY <3>1, <3>2 DEF TargetsKept
  <2> QED BY <1>10, <2>1, Rest
<1>17. ChartFits'
  <2>1. CASE on = "chart"
    <3>1. view' = "detail" =>
            /\ \A x \in On("chart") : net[x].clean => net[x].arg = range
            /\ "chart" \notin stale => shown["chart"] \subseteq range
      BY <1>1 DEF PagesInv, ChartFits
    <3>2. view' = "detail" => \A x \in On("chart")' : net'[x].clean => net'[x].arg = range'
      BY <1>1, <1>12, <2>1, <3>1 DEF Stays, Lasts
    <3>3. view' = "detail" /\ "chart" \notin stale' => shown'["chart"] \subseteq range'
      <4>1. CASE fresh
        BY <1>1, <1>4, <1>6, <1>9, <1>12, <2>1, <3>1, <4>1
      <4>2. CASE ~fresh
        <5>1. "chart" \notin stale' => c.clean /\ "chart" \notin stale
          BY <1>2, <1>3, <2>1, <4>2 DEF Doubted
        <5>2. c.clean => c.st # "ok"
          BY <1>6, <2>1, <4>2
        <5> QED BY <1>1, <1>4, <1>9, <2>1, <3>1, <5>1, <5>2
      <4> QED BY <4>1, <4>2
    <3> QED BY <3>2, <3>3 DEF ChartFits
  <2> QED BY <1>10, <2>1, Rest
<1> QED BY <1>7, <1>11, <1>13, <1>14, <1>15, <1>16, <1>17 DEF PagesInv

LEMMA SavedInv ==
  ASSUME PagesInv, NEW s \in Slots, Saved(s)
  PROVE  PagesInv'
<1>1. /\ s \in Busy /\ net[s].op = "save" /\ Fits(net[s]) /\ net[s].on = "rules"
      /\ UNCHANGED <<stored, session, view, ready, todo, nodes, shown, range, faults, scope>>
      /\ UNCHANGED <<gone, reopened, added>> /\ stale' = Doubted(net[s])
      /\ \/ form' = {} /\ Again(s, "rules")
         \/ form' = form /\ Freed(s)
  BY BusyAt DEF Saved, Answered, Fits
<1>2. PICK again \in BOOLEAN : NetOk' /\ Ends(s, "rules", again) /\ Told'
  BY <1>1, FreedEnds, AgainEnds
<1>3. Certain("rules")' => Certain("rules")
  BY <1>1, <1>2, EndsCertain
<1>4. stale \subseteq stale' /\ stale' \subseteq Things
  BY <1>1, ThingNames DEF Doubted, PagesInv, Shapes
<1>5. OneLoad' /\ SwitchesShow' /\ TargetsKept' /\ ChartFits'
  <2>1. \A t : t # "rules" => Aside(t)
    BY <1>1, <1>2, <1>4, EndsAside
  <2>2. OnlyAbout("rules")
    BY <1>1, <2>1 DEF OnlyAbout
  <2> QED BY <2>2, Rest, ThingNames
<1>6. Shapes'
  BY <1>1, <1>4 DEF PagesInv, Shapes
<1>7. RulesGone'
  <2>1. RulesGone /\ form' \subseteq form /\ (form' = {} \/ form' = form)
    BY <1>1 DEF PagesInv
  <2>2. \A x \in On("rules")' :
          \/ net'[x].op = "load"
          \/ x \in On("rules") /\ Stays(x)
    BY <1>2 DEF Ends
  <2>3. \A x \in On("rules")' :
          net'[x].op = "remove" /\ net'[x].live /\ form' = net'[x].arg /\ net'[x].form # net'[x].arg =>
            form' \subseteq reopened
    BY <2>1, <2>2 DEF RulesGone, Stays, Lasts
  <2>4. Certain("rules")' =>
          /\ gone \cap stored["rules"] \subseteq reopened
          /\ \A x \in On("rules")' : net'[x].op = "save" => net'[x].arg \cap gone \subseteq reopened
    BY <1>3, <2>1, <2>2 DEF RulesGone, Stays, Lasts
  <2>5. form' \cap gone \subseteq reopened
    BY <2>1 DEF RulesGone
  <2> QED BY <1>1, <2>3, <2>4, <2>5 DEF RulesGone
<1> QED BY <1>2, <1>5, <1>6, <1>7 DEF PagesInv

LEMMA RemovedInv ==
  ASSUME PagesInv, NEW s \in Slots, Removed(s)
  PROVE  PagesInv'
<1> DEFINE c == net[s]
<1>1. /\ s \in Busy /\ c.op = "remove" /\ Fits(c) /\ c.on = "rules" /\ c.live
      /\ UNCHANGED <<stored, session, view, ready, todo, nodes, shown, range, faults, scope>>
      /\ UNCHANGED <<reopened, added>> /\ stale' = Doubted(c)
      /\ \/ c.st = "ok" /\ form' = FormAfter(c) /\ gone' = gone \cup c.arg /\ Again(s, "rules")
         \/ UNCHANGED <<form, gone>> /\ Freed(s)
  BY BusyAt DEF Removed, Answered, Fits, Ok
<1>2. PICK again \in BOOLEAN : NetOk' /\ Ends(s, "rules", again) /\ Told'
  BY <1>1, FreedEnds, AgainEnds
<1>3. Certain("rules")' => Certain("rules") /\ c.clean
  BY <1>1, <1>2, EndsCertain
<1>4. stale \subseteq stale' /\ stale' \subseteq Things
  BY <1>1, ThingNames DEF Doubted, PagesInv, Shapes
<1>5. OneLoad' /\ SwitchesShow' /\ TargetsKept' /\ ChartFits'
  <2>1. \A t : t # "rules" => Aside(t)
    BY <1>1, <1>2, <1>4, EndsAside
  <2>2. OnlyAbout("rules")
    BY <1>1, <2>1 DEF OnlyAbout
  <2> QED BY <2>2, Rest, ThingNames
<1>6. PICK id \in Rules : c.arg = {id}
  BY <1>1 DEF Fits
<1>7. form' = {} \/ form' = form
  BY <1>1 DEF FormAfter
<1>8. Shapes'
  BY <1>1, <1>4, <1>6, <1>7 DEF PagesInv, Shapes
<1>9. /\ RulesGone /\ s \in On("rules") /\ gone \subseteq gone'
      /\ form \cap c.arg # {} => form = c.arg
  BY <1>1, <1>6 DEF PagesInv, Shapes, On
<1>10. \A x \in On("rules")' : net'[x].op = "load" \/ (x \in On("rules") \ {s} /\ Stays(x))
  BY <1>2 DEF Ends
<1>11. RulesGone'
  <2>1. form' \cap gone' \subseteq reopened
    <3>1. CASE UNCHANGED <<form, gone>>
      BY <1>9, <3>1 DEF RulesGone
    <3>2. CASE form' = FormAfter(c) /\ gone' = gone \cup c.arg
      <4>1. CASE c.form = c.arg
        BY <3>2, <4>1 DEF FormAfter
      <4>2. CASE c.form # c.arg
        <5>1. form' = form
          BY <3>2, <4>2 DEF FormAfter
        <5>2. form = c.arg => form \subseteq reopened
          BY <1>1, <1>9, <4>2 DEF RulesGone
        <5>3. form \cap gone \subseteq reopened
          BY <1>9 DEF RulesGone
        <5> QED BY <1>9, <3>2, <5>1, <5>2, <5>3
      <4> QED BY <4>1, <4>2
    <3> QED BY <1>1, <3>1, <3>2
  <2>2. \A x \in On("rules")' :
          net'[x].op = "remove" /\ net'[x].live /\ form' = net'[x].arg /\ net'[x].form # net'[x].arg =>
            form' \subseteq reopened
    BY <1>7, <1>9, <1>10 DEF RulesGone, Stays, Lasts
  <2>3. ASSUME Certain("rules")'
        PROVE  /\ gone' \cap stored["rules"] \subseteq reopened
               /\ \A x \in On("rules")' : net'[x].op = "save" => net'[x].arg \cap gone' \subseteq reopened
    <3>1. Certain("rules") /\ c.clean
      BY <1>3, <2>3
    <3>2. c.st = "ok" => stored["rules"] \cap c.arg = {}
      BY <1>1, <3>1, ThingNames DEF PagesInv, Told, Done
    <3>3. gone' \cap stored["rules"] \subseteq reopened
      BY <1>1, <1>9, <3>1, <3>2 DEF RulesGone
    <3>4. ASSUME NEW x \in On("rules") \ {s} PROVE FALSE
      <4>1. Clash(c, net[x]) /\ x \in Busy /\ x # s
        BY <1>1, <3>4 DEF Clash, On
      <4> QED BY <1>1, <3>1, <4>1 DEF PagesInv, NetOk, Apart
    <3> QED BY <1>10, <3>3, <3>4
  <2> QED BY <1>1, <2>1, <2>2, <2>3 DEF RulesGone
<1> QED BY <1>2, <1>5, <1>8, <1>11 DEF PagesInv

LEMMA ReplacedInv ==
  ASSUME PagesInv, NEW s \in Slots, Replaced(s)
  PROVE  PagesInv'
<1> DEFINE c == net[s]
<1>1. /\ s \in Busy /\ c.op = "replace" /\ Fits(c) /\ c.on = "targets" /\ Again(s, "targets")
      /\ UNCHANGED <<stored, session, view, ready, todo, nodes, shown, form, range, faults, scope>>
      /\ UNCHANGED <<gone, reopened>> /\ stale' = Doubted(c)
      /\ added' = IF c.st = "ok" /\ c.clean THEN added \cup c.arg ELSE added
  BY BusyAt DEF Replaced, Answered, Fits, Ok, page
<1>2. NetOk' /\ Ends(s, "targets", TRUE) /\ Told'
  BY <1>1, AgainEnds
<1>3. Certain("targets")' => Certain("targets") /\ c.clean
  BY <1>1, <1>2, EndsCertain
<1>4. stale \subseteq stale' /\ stale' \subseteq Things
  BY <1>1, ThingNames DEF Doubted, PagesInv, Shapes
<1>5. OneLoad' /\ SwitchesShow' /\ RulesGone' /\ ChartFits'
  <2>1. \A t : t # "targets" => Aside(t)
    BY <1>1, <1>2, <1>4, EndsAside
  <2>2. OnlyAbout("targets")
    BY <1>1, <2>1 DEF OnlyAbout
  <2> QED BY <2>2, Rest, ThingNames
<1>6. Shapes'
  BY <1>1, <1>4 DEF PagesInv, Shapes
<1>7. TargetsKept'
  <2>1. s \in On("targets") /\ s \in On("targets")' /\ net'[s].op = "load"
    BY <1>1, <1>2 DEF Ends, On
  <2>2. ASSUME Certain("targets")'
        PROVE  /\ added' \subseteq stored["targets"]
               /\ \A x \in On("targets")' : net'[x].op # "replace"
    <3>1. Certain("targets") /\ c.clean
      BY <1>3, <2>2
    <3>2. c.st = "ok" => stored["targets"] = c.arg
      BY <1>1, <3>1, ThingNames DEF PagesInv, Told, Done
    <3>3. added \subseteq stored["targets"]
      BY <3>1 DEF PagesInv, TargetsKept
    <3>4. ASSUME NEW x \in On("targets") \ {s} PROVE FALSE
      <4>1. Clash(c, net[x]) /\ x \in Busy /\ x # s
        BY <1>1, <3>4 DEF Clash, On
      <4> QED BY <1>1, <3>1, <4>1 DEF PagesInv, NetOk, Apart
    <3>5. \A x \in On("targets")' : x = s
      BY <1>2, <3>4 DEF Ends
    <3> QED BY <1>1, <2>1, <3>1, <3>2, <3>3, <3>5
  <2> QED BY <1>1, <2>1, <2>2 DEF TargetsKept
<1> QED BY <1>2, <1>5, <1>6, <1>7 DEF PagesInv

-----------------------------------------------------------------------------
(* The rest of the steps *)

LEMMA EditInv ==
  ASSUME PagesInv, NEW id \in Rules, Edit(id)
  PROVE  PagesInv'
<1>1. /\ UNCHANGED <<stored, session, view, ready, todo, nodes, shown, range, net, faults, scope>>
      /\ UNCHANGED <<stale, gone, added>> /\ form' = {id} /\ reopened \subseteq reopened'
      /\ id \in gone \/ Removing(id) => id \in reopened'
  BY DEF Edit
<1>2. Shapes' /\ NetOk' /\ Told' /\ OneLoad' /\ SwitchesShow' /\ TargetsKept' /\ ChartFits'
  <2>1. Shapes'
    BY <1>1 DEF PagesInv, Shapes
  <2>2. NetOk' /\ Told' /\ OneLoad'
    BY <1>1 DEF PagesInv, NetOk, Apart, Busy, Told, Done, OneLoad, On
  <2>3. SwitchesShow' /\ TargetsKept' /\ ChartFits'
    BY <1>1 DEF PagesInv, SwitchesShow, Shown, TargetsKept, ChartFits, Certain, On, Busy
  <2> QED BY <2>1, <2>2, <2>3
<1>3. RulesGone'
  <2>1. On("rules")' = On("rules") /\ (Certain("rules")' => Certain("rules")) /\ RulesGone
    BY <1>1 DEF On, Busy, Certain, PagesInv
  <2>2. ASSUME NEW x \in On("rules"), net[x].op = "remove", net[x].arg = {id} PROVE id \in reopened'
    <3>1. Removing(id)
      BY <2>2 DEF Removing, InFlight, On
    <3> QED BY <1>1, <3>1
  <2>3. form' \cap gone' \subseteq reopened'
    BY <1>1
  <2> QED BY <1>1, <2>1, <2>2, <2>3 DEF RulesGone
<1> QED BY <1>2, <1>3 DEF PagesInv

LEMMA ExpireInv ==
  ASSUME PagesInv, Expire
  PROVE  PagesInv'
<1>1. /\ UNCHANGED <<stored, view, ready, todo, nodes, shown, form, range, net, scope>>
      /\ UNCHANGED <<stale, gone, reopened, added>> /\ session' = FALSE /\ faults' \in 0 .. MaxFaults
  BY PagesAssumption DEF Expire, Fault, PagesInv, Shapes, page, seen
<1>2. Shapes'
  BY <1>1 DEF PagesInv, Shapes
<1>3. NetOk' /\ Told' /\ OneLoad'
  BY <1>1 DEF PagesInv, NetOk, Apart, Busy, Told, Done, OneLoad, On
<1>4. SwitchesShow' /\ RulesGone' /\ TargetsKept' /\ ChartFits'
  BY <1>1 DEF PagesInv, SwitchesShow, Shown, RulesGone, TargetsKept, ChartFits, Certain, On, Busy
<1> QED BY <1>2, <1>3, <1>4 DEF PagesInv

LEMMA IdleInv ==
  ASSUME PagesInv, UNCHANGED <<stored, session, page, net, faults, seen, scope>>
  PROVE  PagesInv'
<1>1. /\ UNCHANGED <<stored, session, view, ready, todo, nodes, shown, form, range, net, faults, scope>>
      /\ UNCHANGED <<stale, gone, reopened, added>>
  BY DEF page, seen
<1>2. Shapes'
  BY <1>1 DEF PagesInv, Shapes
<1>3. NetOk' /\ Told' /\ OneLoad'
  BY <1>1 DEF PagesInv, NetOk, Apart, Busy, Told, Done, OneLoad, On
<1>4. SwitchesShow' /\ RulesGone' /\ TargetsKept' /\ ChartFits'
  BY <1>1 DEF PagesInv, SwitchesShow, Shown, RulesGone, TargetsKept, ChartFits, Certain, On, Busy
<1> QED BY <1>2, <1>3, <1>4 DEF PagesInv

\* Another administrator, or an evaluation of the checks: nothing about what is
\* written is clean any more.
LEMMA ForeignInv ==
  ASSUME PagesInv, NEW w \in Switches \cup {"targets"}, NEW value \in SUBSET Values[w],
         Foreign(w, value)
  PROVE  PagesInv'
<1>1. /\ stored' = [stored EXCEPT ![w] = value]
      /\ stale' = stale \cup {w}
      /\ net' = [s \in Slots |-> [net[s] EXCEPT !.clean = @ /\ net[s].on # w]]
  BY DEF Foreign
<1>2. /\ UNCHANGED <<session, view, ready, todo, nodes, shown, form, range, scope>>
      /\ UNCHANGED <<gone, reopened, added>> /\ faults' \in 0 .. MaxFaults
  BY PagesAssumption DEF Foreign, Fault, PagesInv, Shapes, page
<1>3. net \in [Slots -> CallShape] /\ NetOk
  BY DEF PagesInv, NetOk
<1>4. ASSUME NEW x \in Slots
      PROVE  /\ net'[x] \in CallShape /\ net'[x].op = net[x].op /\ net'[x].on = net[x].on
             /\ net'[x].arg = net[x].arg /\ net'[x].st = net[x].st /\ net'[x].form = net[x].form
             /\ net'[x].live = net[x].live /\ (net'[x].clean <=> net[x].clean /\ net[x].on # w)
  <2>1. net[x] \in CallShape /\ net'[x] = [net[x] EXCEPT !.clean = @ /\ net[x].on # w]
    BY <1>1, <1>3
  <2>2. (net[x].clean /\ net[x].on # w) \in BOOLEAN
    BY <2>1 DEF CallShape
  <2> QED BY <2>1, <2>2 DEF CallShape
<1>5. Busy' = Busy /\ \A x \in Busy : x \in Slots /\ Stays(x)
  BY <1>4 DEF Busy, Stays, Lasts
<1>6. NetOk'
  <2>1. net' \in [Slots -> CallShape]
    BY <1>1, <1>4
  <2>2. ASSUME NEW x \in Slots, net'[x].op = "free" PROVE net'[x] = NoCall
    <3>1. net[x] = NoCall
      BY <1>3, <1>4, <2>2 DEF NetOk
    <3> DEFINE d == net'[x]
    <3>2. /\ d \in CallShape /\ d.op = NoCall.op /\ d.on = NoCall.on /\ d.arg = NoCall.arg
          /\ d.st = NoCall.st /\ d.form = NoCall.form /\ d.live = NoCall.live
      BY <1>4, <3>1
    <3>3. d.clean = NoCall.clean
      <4>1. ~NoCall.clean /\ NoCall.clean \in BOOLEAN /\ d.clean \in BOOLEAN
        BY <3>2 DEF NoCall, CallShape
      <4> QED BY <1>4, <3>1, <4>1
    <3> HIDE DEF d
    <3>4. d = NoCall
      BY <3>2, <3>3, SameCall, NoCallShape
    <3> QED BY <3>4 DEF d
  <2> QED BY <1>3, <1>5, <2>1, <2>2, Shrinks DEF Stays
<1>7. \A t : Aside(t) /\ On(t)' = On(t)
  BY <1>1, <1>5 DEF Aside, On, Stays, Lasts
<1>8. /\ stored' \in [Stored -> SUBSET Settings] /\ stored'[w] \subseteq Values[w]
      /\ \A t \in Stored \ {w} : stored'[t] = stored[t]
  <2>1. stored \in [Stored -> SUBSET Settings] /\ w \in Stored
    BY ThingNames DEF PagesInv, Shapes
  <2>2. value \subseteq Values[w] /\ value \subseteq Settings
    BY ThingNames DEF Settings
  <2> QED BY <1>1, <2>1, <2>2
<1>9. Shapes'
  BY <1>1, <1>2, <1>8, ThingNames DEF PagesInv, Shapes
<1>10. Told'
  <2> SUFFICES ASSUME NEW x \in Busy PROVE Done(net[x])'
    BY <1>5 DEF Told
  <2>1. Done(net[x]) /\ Stays(x) /\ x \in Slots
    BY <1>5 DEF PagesInv, Told
  <2> QED BY <1>4, <1>8, <2>1 DEF Done, Stays, Lasts
<1>11. SwitchesShow'
  <2> SUFFICES ASSUME view = "servers", NEW v \in Switches, Certain(v)' PROVE Shown(v)'
    BY <1>2 DEF SwitchesShow
  <2>1. v # w
    BY <1>1 DEF Certain
  <2>2. stored'[v] = stored[v] /\ shown'[v] = shown[v] /\ (Certain(v) => Shown(v))
    BY <1>2, <1>8, <2>1, ThingNames DEF PagesInv, SwitchesShow
  <2> QED BY <1>7, <2>2, SwitchAside
<1>12. OneLoad'
  BY <1>2, <1>7, OneLoadAside DEF PagesInv
<1>13. RulesGone' /\ ChartFits'
  <2>1. stored'["rules"] = stored["rules"]
    BY <1>8, ThingNames
  <2> QED BY <1>2, <1>7, <2>1, RulesAside, ChartAside DEF PagesInv
<1>14. TargetsKept'
  <2>1. CASE w = "targets"
    BY <1>1, <2>1 DEF TargetsKept, Certain
  <2>2. CASE w # "targets"
    <3>1. stored'["targets"] = stored["targets"]
      BY <1>8, <2>2, ThingNames
    <3> QED BY <1>2, <1>7, <3>1, TargetsAside DEF PagesInv
  <2> QED BY <2>1, <2>2
<1> QED BY <1>6, <1>9, <1>10, <1>11, <1>12, <1>13, <1>14 DEF PagesInv

LEMMA OtherInv ==
  ASSUME PagesInv, \/ Other \/ EvaluationReads
                   \/ \E targets \in SUBSET Urls : EvaluationEnds(targets)
  PROVE  PagesInv'
<1>1. ASSUME NEW w \in Switches, Foreign(w, Positions[w] \ stored[w]) PROVE PagesInv'
  <2>1. Positions[w] \ stored[w] \in SUBSET Values[w]
    BY ThingNames
  <2> QED BY <1>1, <2>1, ForeignInv
<1>2. ASSUME NEW targets \in SUBSET Urls, Foreign("targets", targets) PROVE PagesInv'
  <2>1. targets \in SUBSET Values["targets"]
    BY ThingNames
  <2> QED BY <1>2, <2>1, ForeignInv
<1>3. CASE UNCHANGED <<stored, session, page, net, faults, seen, scope>>
  BY <1>3, IdleInv
<1> QED BY <1>1, <1>2, <1>3 DEF Other, EvaluationReads, EvaluationEnds

LEMMA InitInv == Init => PagesInv
<1> SUFFICES ASSUME Init PROVE PagesInv
  OBVIOUS
<1>1. /\ stored = [public |-> {"off"}, order |-> {"first"}, rules |-> {}, targets |-> {}]
      /\ session \in BOOLEAN /\ scope \in Scopes
      /\ view = "login" /\ ready = FALSE /\ todo = {"status"} /\ nodes = {}
      /\ shown = Blank /\ form = {} /\ range = {}
      /\ net = [s \in Slots |-> NoCall] /\ faults = 0
      /\ stale = {} /\ gone = {} /\ reopened = {} /\ added = {}
  BY DEF Init
<1>2. /\ DOMAIN stored = Stored /\ stored["public"] = {"off"} /\ stored["order"] = {"first"}
      /\ stored["rules"] = {} /\ stored["targets"] = {}
  BY <1>1, ThingNames
<1>3. /\ DOMAIN shown = Things /\ shown["public"] = {"off"}
      /\ shown["order"] = {} /\ shown["rules"] = {} /\ shown["targets"] = {} /\ shown["chart"] = {}
  BY <1>1, ThingNames DEF Blank
<1>4. Shapes
  <2>1. scope \subseteq Views /\ view \in Views /\ faults \in 0 .. MaxFaults
    BY <1>1, ScopesAssumption, PagesAssumption DEF Views
  <2>2. \A t \in Stored : stored[t] \subseteq Values[t]
    BY <1>2, ThingNames
  <2>3. \A t \in Things : shown[t] \subseteq Values[t]
    BY <1>3, ThingNames
  <2>4. stored = [x \in Stored |-> stored[x]] /\ \A t \in Stored : stored[t] \subseteq Settings
    <3>1. stored = [x \in {"public", "order", "rules", "targets"} |-> stored[x]]
      BY <1>1
    <3> QED BY <1>2, <3>1, ThingNames DEF Settings
  <2> QED BY <1>1, <1>3, <2>1, <2>2, <2>3, <2>4 DEF Shapes
<1>5. Busy = {} /\ \A t : On(t) = {}
  BY <1>1 DEF Busy, NoCall, On
<1>6. NetOk
  BY <1>1, <1>5, NoCallShape DEF NetOk, Apart
<1>7. Told /\ OneLoad /\ RulesGone /\ TargetsKept
  BY <1>1, <1>5 DEF Told, OneLoad, RulesGone, TargetsKept
<1>8. SwitchesShow /\ ChartFits
  BY <1>1 DEF SwitchesShow, ChartFits
<1> QED BY <1>4, <1>6, <1>7, <1>8 DEF PagesInv

\* Every step keeps the invariant.
LEMMA PagesStep == PagesInv /\ [Next]_vars => PagesInv'
<1> SUFFICES ASSUME PagesInv, [Next]_vars PROVE PagesInv'
  OBVIOUS
<1>1. ASSUME NEW v \in scope, Navigate(v) \/ ChangeTab(v) PROVE PagesInv'
  BY <1>1, MovesInv
<1>2. ASSUME NEW what \in Things \cup {"status"}, Effects(what) PROVE PagesInv'
  BY <1>2, EffectsInv
<1>3. CASE Poll \/ PollHistory \/ SignIn
  BY <1>3, PollsInv
<1>4. CASE Logout
  BY <1>4, MovesInv
<1>5. CASE TogglePublic \/ OnDrop
  BY <1>5, FlipInv, ThingNames DEF TogglePublic, OnDrop
<1>6. CASE Submit \/ \E id \in Rules : Remove(id)
  BY <1>6, RulesInv
<1>7. ASSUME NEW id \in Rules, Edit(id) PROVE PagesInv'
  BY <1>7, EditInv
<1>8. ASSUME NEW u \in Urls, AddOrUpdate(u) \/ RemoveTarget(u) PROVE PagesInv'
  <2>1. shown["targets"] \subseteq Urls
    BY ThingNames DEF PagesInv, Shapes
  <2> QED BY <1>8, <2>1, SaveTargetsInv DEF AddOrUpdate, RemoveTarget
<1>9. ASSUME NEW r \in Ranges, SetRange(r) PROVE PagesInv'
  BY <1>9, SetRangeInv
<1>10. ASSUME NEW s \in Slots, Handle(s) \/ Deliver(s) \/ Lose(s) PROVE PagesInv'
  <2>1. CASE Unauthorized(s) \/ SignedIn(s) \/ SignedOut(s)
    BY <2>1, MovesInv
  <2>2. CASE Unnoticed(s) \/ StaysHere(s) \/ Late(s)
    BY <2>2, UnnoticedInv, LateInv
  <2>3. CASE Loaded(s) \/ Flipped(s)
    BY <2>3, LoadedInv, FlippedInv
  <2>4. CASE Saved(s) \/ Removed(s) \/ Replaced(s)
    BY <2>4, SavedInv, RemovedInv, ReplacedInv
  <2>5. CASE Handle(s) \/ Lose(s)
    BY <2>5, HandleInv, LoseInv
  <2> QED BY <1>10, <2>1, <2>2, <2>3, <2>4, <2>5 DEF Deliver
<1>11. CASE \/ Expire \/ Other \/ EvaluationReads
            \/ \E targets \in SUBSET Urls : EvaluationEnds(targets)
  BY <1>11, ExpireInv, OtherInv
<1>12. CASE UNCHANGED vars
  BY <1>12, IdleInv DEF vars
<1> QED BY <1>1, <1>2, <1>3, <1>4, <1>5, <1>6, <1>7, <1>8, <1>9, <1>10, <1>11, <1>12 DEF Next

LEMMA PagesHolds == Spec => []PagesInv
BY InitInv, PagesStep, PTL DEF Spec

\* What no call is about, and is not in doubt, is certain.
LEMMA QuietOn ==
  ASSUME NEW t PROVE /\ Quiet(t) => t \notin stale /\ On(t) = {}
                     /\ Sure(t) => Certain(t)
<1>1. \A s \in On(t) : net[s] \in About(t)
  BY DEF On, About, InFlight
<1> QED BY <1>1 DEF Quiet, Sure, Certain

\* What the evaluations have read are lists of addresses.
LEMMA ProbingStep ==
  PagesInv /\ probing \subseteq SUBSET Urls /\ [Next]_vars => (probing \subseteq SUBSET Urls)'
<1> SUFFICES ASSUME PagesInv, probing \subseteq SUBSET Urls, [Next]_vars
             PROVE  probing' \subseteq SUBSET Urls
  OBVIOUS
<1>1. ASSUME NEW v \in scope, Navigate(v) \/ ChangeTab(v) PROVE probing' = probing
  BY <1>1 DEF Navigate, ChangeTab
<1>2. ASSUME NEW what \in Things \cup {"status"}, Effects(what) PROVE probing' = probing
  BY <1>2 DEF Effects
<1>3. CASE Poll \/ PollHistory \/ SignIn \/ Logout \/ TogglePublic \/ OnDrop \/ Submit \/ Expire
  BY <1>3 DEF Poll, PollHistory, SignIn, Logout, TogglePublic, OnDrop, Flip, Submit, Expire
<1>4. ASSUME NEW id \in Rules, Edit(id) \/ Remove(id) PROVE probing' = probing
  BY <1>4 DEF Edit, Remove
<1>5. ASSUME NEW u \in Urls, AddOrUpdate(u) \/ RemoveTarget(u) PROVE probing' = probing
  BY <1>5 DEF AddOrUpdate, RemoveTarget, SaveTargets
<1>6. ASSUME NEW r \in Ranges, SetRange(r) PROVE probing' = probing
  BY <1>6 DEF SetRange
<1>7. ASSUME NEW s \in Slots, Handle(s) \/ Lose(s) PROVE probing' = probing
  BY <1>7 DEF Handle, Lose
<1>8. ASSUME NEW s \in Slots, Deliver(s) PROVE probing' = probing
  BY <1>8 DEF Deliver, Unauthorized, Unnoticed, Late, SignedIn, SignedOut, StaysHere,
              Loaded, Flipped, Saved, Removed, Replaced
<1>9. CASE Other \/ UNCHANGED vars
  BY <1>9 DEF Other, vars
<1>10. CASE EvaluationReads
  <2>1. stored["targets"] \subseteq Urls
    BY ThingNames DEF PagesInv, Shapes
  <2> QED BY <1>10, <2>1 DEF EvaluationReads
<1>11. CASE \E targets \in SUBSET Urls : EvaluationEnds(targets)
  BY <1>11 DEF EvaluationEnds
<1> QED BY <1>1, <1>2, <1>3, <1>4, <1>5, <1>6, <1>7, <1>8, <1>9, <1>10, <1>11 DEF Next

\* Every variable of a page keeps its type; a setting holds positions, rules or
\* addresses and nothing else.
THEOREM PagesTyped == Spec => []TypeOK
<1>1. PagesInv /\ probing \subseteq SUBSET Urls => TypeOK
  <2> SUFFICES ASSUME PagesInv, probing \subseteq SUBSET Urls PROVE TypeOK
    OBVIOUS
  <2>1. Shapes /\ Things = Stored \cup {"chart"}
    BY ThingNames DEF PagesInv
  <2> QED BY <2>1 DEF Shapes, Settings, TypeOK
<1>2. Init => probing \subseteq SUBSET Urls
  BY DEF Init
<1> QED BY <1>1, <1>2, ProbingStep, PagesHolds, PTL DEF Spec

\* On the servers page, a switch no call is about and that is not in doubt shows
\* the position the server has stored: set early, put back on a refusal; a call
\* that failed after it was stored leaves the switch in doubt.
THEOREM SwitchesShowStored == Spec => []ShownIsStored
<1>1. PagesInv => ShownIsStored
  <2> SUFFICES ASSUME PagesInv, view = "servers", NEW w \in Switches, Quiet(w)
               PROVE  shown[w] = stored[w]
    BY DEF ShownIsStored
  <2>1. w \notin stale /\ On(w) = {}
    BY QuietOn
  <2>2. Shown(w)
    BY <2>1 DEF PagesInv, SwitchesShow, Certain
  <2> QED BY <2>1, <2>2 DEF Shown
<1> QED BY <1>1, PagesHolds, PTL

\* A rule this page deleted, and was told so, is not stored again by a save from
\* the form it was open in, unless the user opened it again.
THEOREM DeletedRulesStayAway == Spec => []DeletedStaysDeleted
<1>1. PagesInv => DeletedStaysDeleted
  BY QuietOn DEF PagesInv, RulesGone, DeletedStaysDeleted
<1> QED BY <1>1, PagesHolds, PTL

\* A check this page saved, and was told so, stays stored through the later saves
\* of the whole list, until the user removes it or an evaluation of the checks
\* writes back the list it had read before (which puts the list in doubt).
THEOREM SavedChecksStay == Spec => []AddedStaysAdded
<1>1. PagesInv => AddedStaysAdded
  BY QuietOn DEF PagesInv, TargetsKept, AddedStaysAdded
<1> QED BY <1>1, PagesHolds, PTL

\* With no load under way the chart shows points of the range chosen only.
THEOREM ChartShowsChosenRange == Spec => []ChartMatchesRange
<1>1. PagesInv => ChartMatchesRange
  BY QuietOn DEF PagesInv, ChartFits, ChartMatchesRange
<1> QED BY <1>1, PagesHolds, PTL
=============================================================================
