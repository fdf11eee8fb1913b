------------------------------- MODULE Pages --------------------------------
(* One browser tab of the dashboard (master/components): the page it is on, *)
(* what the page shows of the server's state, and the calls it has in       *)
(* flight.  Calls are handled and answered in any order, may fail or be lost *)
(* before or after the server has done them; another administrator edits    *)
(* the same settings, and the evaluations of the HTTP checks write the list  *)
(* of checks back as they read it.                                          *)
(*                                                                          *)
(* Every value is a set: the position of a switch (the order of the servers *)
(* is one with two positions, and shown as the empty set until it is        *)
(* known), the ids of the alert rules, the addresses of the HTTP checks, the *)
(* range a chart's points belong to.  Fields of a form, filters, sorting and *)
(* wording are left out, and so are the pages not named in Views.           *)
EXTENDS Integers, FiniteSets

CONSTANTS Rules,       \* ids of alert rules
          Urls,        \* addresses of HTTP checks
          Ranges,      \* ranges of a chart
          Realtime,    \* the range that is polled, and shown first
          Scopes,      \* bound: the sets of pages a user moves between
          MaxCalls,    \* bound: calls in flight
          MaxFaults    \* bound: failures, losses, expiries, foreign edits and stale writes

ASSUME PagesAssumption ==
  MaxCalls \in Nat \ {0} /\ MaxFaults \in Nat /\ Realtime \in Ranges

Tabs      == {"servers", "alerts", "http"}
Views     == Tabs \cup {"login", "dashboard", "detail"}
Positions == [public |-> {"off", "on"}, order |-> {"first", "second"}]
Switches  == DOMAIN Positions
Stored    == Switches \cup {"rules", "targets"}
Things    == Stored \cup {"chart"}

ASSUME ScopesAssumption ==
  \A v \in Scopes : v \subseteq Views /\ "login" \in v /\ v \cap Tabs # {}

VARIABLES
  scope,    \* the pages this user moves between
  stored,   \* the server's settings
  probing,  \* the lists of checks that evaluations under way have read
  session,  \* whether the tab's cookie names a live session
  view,     \* the page the tab is on
  ready,    \* the settings page has heard that the user is signed in
  todo,     \* what the page has yet to ask for, having just been mounted
  nodes,    \* the order of the servers the settings page last loaded
  shown,    \* what the page shows
  form,     \* the rule in the form of the alerts page
  range,    \* the range chosen on the detail page
  net,      \* the calls in flight, by slot
  faults,
  stale,    \* history: what may be shown wrongly, for a reason named below
  gone,     \* history: rules this page deleted and was told so
  reopened, \* history: deleted rules opened again from a list not yet reloaded
  added     \* history: checks this page saved and was told so

page == <<view, ready, todo, nodes, shown, form, range>>
seen == <<stale, gone, reopened, added>>
vars == <<stored, probing, session, page, net, faults, seen, scope>>

Slots  == 1 .. MaxCalls
NoCall == [op |-> "free", on |-> "none", arg |-> {}, st |-> "free",
           form |-> {}, live |-> FALSE, clean |-> FALSE]
Blank  == [public |-> {"off"}, order |-> {}, rules |-> {}, targets |-> {}, chart |-> {}]

Init ==
  /\ stored = [public |-> {"off"}, order |-> {"first"}, rules |-> {}, targets |-> {}]
  /\ probing = {} /\ session \in BOOLEAN /\ scope \in Scopes
  /\ view = "login" /\ ready = FALSE /\ todo = {"status"} /\ nodes = {}
  /\ shown = Blank /\ form = {} /\ range = {}
  /\ net = [s \in Slots |-> NoCall] /\ faults = 0
  /\ stale = {} /\ gone = {} /\ reopened = {} /\ added = {}

Busy     == {s \in Slots : net[s].op # "free"}
InFlight == {net[s] : s \in Busy}
Fault    == faults < MaxFaults /\ faults' = faults + 1

(***************************************************************************)
(* Two calls about one thing are not clean when one of them writes it, or  *)
(* they read it for different choices of the user: whichever is answered   *)
(* last then decides what is shown.                                        *)
(***************************************************************************)
Clash(c, d) ==
  /\ c.on = d.on
  /\ \/ c.op # "load" \/ d.op # "load"
     \/ c.on = "chart" /\ c.arg # d.arg

\* net after c has left from slot s.
Sending(s, c) ==
  [x \in Slots |->
    IF x = s THEN [c EXCEPT !.clean = \A y \in Busy \ {s} : ~Clash(c, net[y])]
    ELSE [net[x] EXCEPT !.clean = @ /\ ~Clash(c, net[x])]]

Call(op, on, arg) == [op |-> op, on |-> on, arg |-> arg, st |-> "sent",
                      form |-> IF op = "remove" THEN form ELSE {}, live |-> TRUE, clean |-> TRUE]

Calls(op, on, arg) ==
  \E s \in Slots \ Busy :
    /\ \A x \in Slots \ Busy : s <= x
    /\ net' = Sending(s, Call(op, on, arg))

\* What an answered call leaves behind: the slot, and a doubt if it was not clean.
Freed(s) == net' = [net EXCEPT ![s] = NoCall]
Doubted(c) == IF c.clean THEN stale ELSE stale \cup {c.on}

(***************************************************************************)
(* Mounting a page: it starts blank, and the effects of its components ask *)
(* for what it shows before the user can do anything.  Nobody is left to   *)
(* hear the answers to the page before it.                                 *)
(***************************************************************************)
Wants(v) == CASE v = "servers" -> {"public"}
              [] v = "alerts"  -> {"rules"}
              [] v = "http"    -> {"targets"}
              [] v = "detail"  -> {"chart"}
              [] OTHER         -> {}

Mounted(v, parent) ==
  /\ view' = v
  /\ shown' = [Blank EXCEPT !.order = IF v = "servers" THEN parent ELSE {}]
  /\ form' = {} /\ range' = IF v = "detail" THEN {Realtime} ELSE {}
  /\ stale' = Stored
  /\ gone' = {} /\ reopened' = {} /\ added' = {}

\* A read nobody waits for is forgotten; a write is still done, and a 401 heard.
Forgotten(c) == c.op \in {"load", "status"} \/ c.st \in {"ok", "500"}

Unheard(keep) ==
  [s \in Slots |-> IF net[s].on \in keep THEN net[s]
                   ELSE IF Forgotten(net[s]) THEN NoCall
                   ELSE [net[s] EXCEPT !.live = FALSE, !.form = {}]]

\* A new document or route: the settings page asks first who is signed in.
Opened(v) ==
  /\ Mounted(v, {}) /\ ready' = FALSE /\ nodes' = {}
  /\ todo' = Wants(v) \cup (IF v \in Tabs THEN {"status", "order"}
                            ELSE IF v = "login" THEN {"status"} ELSE {})

Navigate(v) ==
  /\ v # view /\ ~(view \in Tabs /\ v \in Tabs)
  /\ Opened(v) /\ net' = Unheard({})
  /\ UNCHANGED <<stored, probing, session, faults, scope>>

\* Another tab of the settings page, whose list of servers is the page's own.
ChangeTab(v) ==
  /\ view \in Tabs /\ v \in Tabs \ {view} /\ ready
  /\ Mounted(v, nodes) /\ todo' = (todo \cap {"order"}) \cup Wants(v)
  /\ net' = Unheard({"order"})
  /\ UNCHANGED <<stored, probing, session, ready, nodes, faults, scope>>

\* The effects of the mount; those of a tab wait for the page to be ready.
Effects(what) ==
  /\ what \in todo /\ (view \in Tabs /\ what \notin {"status", "order"} => ready)
  /\ todo' = todo \ {what}
  /\ IF what = "status" THEN Calls("status", "status", {})
     ELSE Calls("load", what, IF what = "chart" THEN range ELSE {})
  /\ UNCHANGED <<stored, probing, session, view, ready, nodes, shown, form, range, faults, seen, scope>>

\* The intervals: the state of the servers, and the realtime chart.
Poll ==
  /\ view \in {"dashboard", "detail"} /\ \A c \in InFlight : c.op # "poll"
  /\ Calls("poll", "poll", {})
  /\ UNCHANGED <<stored, probing, session, page, faults, seen, scope>>

PollHistory ==
  /\ view = "detail" /\ range = {Realtime} /\ todo = {}
  /\ Calls("load", "chart", range)
  /\ UNCHANGED <<stored, probing, session, page, faults, seen, scope>>

(***************************************************************************)
(* What the user does.                                                     *)
(***************************************************************************)
Idle(v) == view = v /\ todo = {} /\ (v \in Tabs => ready)

SignIn ==
  /\ Idle("login") /\ \A c \in InFlight : c.op # "login"
  /\ Calls("login", "status", {})
  /\ UNCHANGED <<stored, probing, session, page, faults, seen, scope>>

\* The tab leaves for the login whether or not the server has heard of it.
Logout ==
  /\ view # "login" /\ Opened("login") /\ net' = Unheard({})
  /\ session' \in {session, FALSE}
  /\ UNCHANGED <<stored, probing, faults, scope>>

\* A switch is shown in its new position before the server knows.
Flip(w) ==
  /\ Idle("servers") /\ shown[w] # {}
  /\ Calls("write", w, Positions[w] \ shown[w])
  /\ shown' = [shown EXCEPT ![w] = Positions[w] \ @]
  /\ UNCHANGED <<stored, probing, session, view, ready, todo, nodes, form, range, faults, seen, scope>>

TogglePublic == Flip("public")
OnDrop       == Flip("order")

Removing(id) == \E c \in InFlight : c.op = "remove" /\ id \in c.arg

Edit(id) ==
  /\ Idle("alerts") /\ id \in shown.rules /\ form # {id}
  /\ form' = {id}
  /\ reopened' = IF id \in gone \/ Removing(id) THEN reopened \cup {id} ELSE reopened
  /\ UNCHANGED <<stored, probing, session, view, ready, todo, nodes, shown, range, net,
                 faults, stale, gone, added, scope>>

\* A blank form has no id: the server draws a new one.
Submit ==
  /\ Idle("alerts")
  /\ \E id \in IF form = {} THEN Rules \ (stored.rules \cup gone) ELSE form :
       Calls("save", "rules", {id})
  /\ UNCHANGED <<stored, probing, session, page, faults, seen, scope>>

Remove(id) ==
  /\ Idle("alerts") /\ id \in shown.rules
  /\ Calls("remove", "rules", {id})
  /\ UNCHANGED <<stored, probing, session, page, faults, seen, scope>>

\* HttpChecks sends the whole list it holds, with one entry more or less.
SaveTargets(next) ==
  /\ Idle("http")
  /\ Calls("replace", "targets", next)
  /\ added' = added \cap (next \cup (added \ shown.targets))
  /\ UNCHANGED <<stored, probing, session, page, faults, stale, gone, reopened, scope>>

AddOrUpdate(u)  == SaveTargets(shown.targets \cup {u})
RemoveTarget(u) == u \in shown.targets /\ SaveTargets(shown.targets \ {u})

\* Another range empties the chart and asks for its points.
NotCleared(old) == old
Cleared(old)    == {}

SetRange(r) ==
  /\ Idle("detail") /\ range # {r}
  /\ range' = {r} /\ shown' = [shown EXCEPT !.chart = Cleared(@)]
  /\ Calls("load", "chart", {r})
  /\ UNCHANGED <<stored, probing, session, view, ready, todo, nodes, form, faults, seen, scope>>

(***************************************************************************)
(* The server: 401 without a session, except for what a public dashboard   *)
(* shows; otherwise done, or failed.                                       *)
(***************************************************************************)
Open(c) ==
  \/ session \/ c.on = "status"
  \/ c.on \in {"poll", "chart", "order"} /\ c.op \in {"load", "poll"} /\ stored.public = {"on"}

Effect(c) ==
  CASE c.op \in {"write", "replace"} -> [stored EXCEPT ![c.on] = c.arg]
    [] c.op = "save"                 -> [stored EXCEPT !.rules = @ \cup c.arg]
    [] c.op = "remove"               -> [stored EXCEPT !.rules = @ \ c.arg]
    [] OTHER                         -> stored

Answer(c) ==
  CASE c.op = "load" /\ c.on \in Stored -> stored[c.on]
    [] c.op = "status" -> IF session THEN {"authenticated"} ELSE {}
    [] OTHER           -> c.arg

\* A call that fails may have had its effect: POST /api/settings stores the
\* switch and then builds its answer, and either can be what throws.
Handle(s) ==
  LET c == net[s]
  IN  /\ c.st = "sent"
      /\ \/ /\ Open(c)
            /\ stored' = Effect(c)
            /\ session' = (session \/ c.op = "login")
            /\ net' = [net EXCEPT ![s].st = "ok", ![s].arg = Answer(c)]
            /\ UNCHANGED <<faults, stale>>
         \/ /\ ~Open(c)
            /\ net' = [net EXCEPT ![s].st = "401"]
            /\ UNCHANGED <<stored, session, faults, stale>>
         \/ /\ Fault
            /\ stored' = stored \/ (Open(c) /\ stored' = Effect(c))
            /\ stale' = IF stored' = stored THEN stale ELSE stale \cup ({c.on} \cap Switches)
            /\ net' = [net EXCEPT ![s].st = "500"]
            /\ UNCHANGED session
      /\ UNCHANGED <<page, gone, reopened, added, probing, scope>>

Answered(s, ops) == net[s].op \in ops /\ net[s].st \in {"ok", "401", "500"}
Ok(s) == net[s].st = "ok"

(***************************************************************************)
(* Answers.                                                                *)
(***************************************************************************)
\* api() and the polls go to the login on a 401, whatever page is open by then.
Bounces == {"poll", "write", "save", "remove", "replace"}

Unauthorized(s) ==
  /\ net[s].op \in Bounces /\ net[s].st = "401"
  /\ Opened("login")
  /\ net' = [Unheard({}) EXCEPT ![s] = NoCall]
  /\ UNCHANGED <<stored, probing, session, faults, scope>>

Unnoticed(s) ==
  /\ Answered(s, {"poll", "login"}) /\ ~(net[s].op = "poll" /\ net[s].st = "401")
  /\ net[s].op = "login" => ~net[s].live \/ ~Ok(s)
  /\ Freed(s)
  /\ UNCHANGED <<stored, probing, session, page, faults, seen, scope>>

\* Nobody waits for it any more; what it did to the server stays done.
Late(s) ==
  /\ Answered(s, {"write", "save", "remove", "replace"})
  /\ ~net[s].live /\ net[s].st # "401"
  /\ Freed(s) /\ stale' = Doubted(net[s])
  /\ UNCHANGED <<stored, probing, session, page, faults, gone, reopened, added, scope>>

\* AuthForm leaves for the settings, at the tab last used, once signed in; the settings page for the
\* login when not; a failed call leaves the settings page usable.
SignedIn(s) ==
  /\ net[s].live /\ view = "login"
  /\ net[s].op \in {"login", "status"} /\ Ok(s)
  /\ net[s].op = "status" => net[s].arg # {}
  /\ \E v \in Tabs \cap scope : Opened(v)
  /\ net' = [Unheard({}) EXCEPT ![s] = NoCall]
  /\ UNCHANGED <<stored, probing, session, faults, scope>>

SignedOut(s) ==
  /\ net[s].live /\ view \in Tabs
  /\ net[s].op = "status" /\ Ok(s) /\ net[s].arg = {}
  /\ Opened("login") /\ net' = [Unheard({}) EXCEPT ![s] = NoCall]
  /\ UNCHANGED <<stored, probing, session, faults, scope>>

StaysHere(s) ==
  /\ Answered(s, {"status"}) /\ net[s].live
  /\ Ok(s) => (view = "login" <=> net[s].arg = {})
  /\ ready' = (view \in Tabs) /\ Freed(s)
  /\ UNCHANGED <<stored, probing, session, view, todo, nodes, shown, form, range, faults, seen, scope>>

\* A load that is refused empties a list (GET /api/http-checks answers with an
\* empty one itself when its read fails) and leaves anything else as it was.
Read(c) == IF c.st = "ok" THEN c.arg
           ELSE IF c.on \in {"rules", "targets", "order"} THEN {} ELSE shown[c.on]

Shows(c) == c.on # "order" \/ view = "servers"

Loaded(s) ==
  LET c == net[s]
  IN  /\ Answered(s, {"load"}) /\ c.live
      /\ nodes' = IF c.on = "order" THEN Read(c) ELSE nodes
      /\ shown' = IF Shows(c) THEN [shown EXCEPT ![c.on] = Read(c)] ELSE shown
      /\ stale' = IF Ok(s) /\ c.clean /\ Shows(c) THEN stale \ {c.on} ELSE Doubted(c)
      /\ added' = IF c.on = "targets" THEN added \cap Read(c) ELSE added
      /\ gone' = IF c.on = "rules" THEN gone \ Read(c) ELSE gone
      /\ Freed(s)
      /\ UNCHANGED <<stored, probing, session, view, ready, todo, form, range, faults, reopened, scope>>

NotRolledBack(c) == c.arg
RolledBack(c)    == Positions[c.on] \ c.arg

Flipped(s) ==
  LET c == net[s]
  IN  /\ Answered(s, {"write"}) /\ c.st # "401" /\ c.live
      /\ shown' = IF Ok(s) THEN shown ELSE [shown EXCEPT ![c.on] = RolledBack(c)]
      /\ stale' = Doubted(c) /\ Freed(s)
      /\ UNCHANGED <<stored, probing, session, view, ready, todo, nodes, form, range, faults,
                     gone, reopened, added, scope>>

\* After a change the list is loaded again; until then it is the old one.
NotAgain(s, thing) == Freed(s)
Again(s, thing)    == net' = Sending(s, Call("load", thing, {}))

Saved(s) ==
  LET c == net[s]
  IN  /\ Answered(s, {"save"}) /\ c.st # "401" /\ c.live
      /\ IF Ok(s) THEN form' = {} /\ Again(s, "rules")
         ELSE UNCHANGED form /\ Freed(s)
      /\ stale' = Doubted(c)
      /\ UNCHANGED <<stored, probing, session, view, ready, todo, nodes, shown, range, faults,
                     gone, reopened, added, scope>>

\* The form is compared as it was when the user clicked.
FormKept(c) == form
FormAfter(c) == IF c.form = c.arg THEN {} ELSE form

Removed(s) ==
  LET c == net[s]
  IN  /\ Answered(s, {"remove"}) /\ c.st # "401" /\ c.live
      /\ IF Ok(s)
           THEN /\ form' = FormAfter(c) /\ gone' = gone \cup c.arg
                /\ Again(s, "rules")
           ELSE UNCHANGED <<form, gone>> /\ Freed(s)
      /\ stale' = Doubted(c)
      /\ UNCHANGED <<stored, probing, session, view, ready, todo, nodes, shown, range, faults,
                     reopened, added, scope>>

\* The list is loaded again whether or not it was stored.
Replaced(s) ==
  LET c == net[s]
  IN  /\ Answered(s, {"replace"}) /\ c.st # "401" /\ c.live
      /\ added' = IF Ok(s) /\ c.clean THEN added \cup c.arg ELSE added
      /\ stale' = Doubted(c) /\ Again(s, "targets")
      /\ UNCHANGED <<stored, probing, session, page, faults, gone, reopened, scope>>

Deliver(s) ==
  \/ Unauthorized(s) \/ Unnoticed(s) \/ Late(s)
  \/ SignedIn(s) \/ SignedOut(s) \/ StaysHere(s)
  \/ Loaded(s) \/ Flipped(s) \/ Saved(s) \/ Removed(s) \/ Replaced(s)

(***************************************************************************)
(* What happens to the tab.                                                *)
(***************************************************************************)
\* The connection breaks before or after the server has handled the call.  A
\* switch is not put back, a list not loaded again: nothing catches the error.
Lose(s) ==
  /\ s \in Busy /\ Fault /\ Freed(s)
  /\ ready' = (ready \/ (net[s].op = "status" /\ net[s].live /\ view \in Tabs))
  /\ stale' = IF net[s].on \in Stored THEN stale \cup {net[s].on} ELSE stale
  /\ UNCHANGED <<stored, probing, session, view, todo, nodes, shown, form, range,
                 gone, reopened, added, scope>>

Expire ==
  /\ session /\ Fault /\ session' = FALSE
  /\ UNCHANGED <<stored, probing, page, net, seen, scope>>

\* The server's settings change behind the back of the tab.
Foreign(thing, value) ==
  /\ Fault
  /\ stored' = [stored EXCEPT ![thing] = value]
  /\ stale' = stale \cup {thing}
  /\ net' = [s \in Slots |-> [net[s] EXCEPT !.clean = @ /\ net[s].on # thing]]
  /\ UNCHANGED <<session, page, gone, reopened, added, scope>>

\* Another administrator, in another browser.
Other ==
  /\ \E w \in Switches : Foreign(w, Positions[w] \ stored[w])
  /\ UNCHANGED probing

\* evaluateHttpChecks reads the row, probes for seconds, and then writes the
\* whole row, unless it has probed nothing or dies; evaluations may overlap.
EvaluationReads ==
  /\ "http" \in scope /\ stored.targets # {}
  /\ probing' = probing \cup {stored.targets}
  /\ UNCHANGED <<stored, session, page, net, faults, seen, scope>>

EvaluationEnds(targets) ==
  /\ targets \in probing /\ probing' \in {probing, probing \ {targets}}
  /\ \/ Foreign("targets", targets) /\ targets # stored.targets
     \/ UNCHANGED <<stored, session, page, net, faults, seen, scope>>

Next ==
  \/ \E v \in scope : Navigate(v) \/ ChangeTab(v)
  \/ \E what \in Things \cup {"status"} : Effects(what)
  \/ Poll \/ PollHistory \/ SignIn \/ Logout
  \/ TogglePublic \/ OnDrop \/ Submit
  \/ \E id \in Rules : Edit(id) \/ Remove(id)
  \/ \E u \in Urls : AddOrUpdate(u) \/ RemoveTarget(u)
  \/ \E r \in Ranges : SetRange(r)
  \/ \E s \in Slots : Handle(s) \/ Deliver(s) \/ Lose(s)
  \/ Expire \/ Other \/ EvaluationReads
  \/ \E targets \in SUBSET Urls : EvaluationEnds(targets)

Spec == Init /\ [][Next]_vars

(***************************************************************************)
(* Properties.                                                             *)
(***************************************************************************)
About(thing) == {c \in InFlight : c.on = thing}
Sure(thing)  == thing \notin stale /\ \A c \in About(thing) : c.clean
Quiet(thing) == thing \notin stale /\ About(thing) = {}

TypeOK ==
  /\ stored \in [Stored -> SUBSET ({"off", "on", "first", "second"} \cup Rules \cup Urls)]
  /\ probing \subseteq SUBSET Urls
  /\ session \in BOOLEAN /\ ready \in BOOLEAN /\ view \in Views
  /\ form \subseteq Rules /\ range \subseteq Ranges
  /\ stale \subseteq Stored \cup {"chart"} /\ faults \in 0 .. MaxFaults

\* A switch that was not left in doubt shows what the server has stored: the
\* position shown early is put back when the server refuses it.  In doubt are
\* a switch whose last call was lost, failed after it had been stored (it is
\* then put back all the same, and shows the opposite), or crossed another call
\* or a foreign edit, and a list of servers carried over from another tab.
ShownIsStored ==
  view = "servers" => \A w \in Switches : Quiet(w) => shown[w] = stored[w]

\* A rule the user deleted does not come back by a save from the form it was
\* open in, unless the user opened it again before the list was reloaded.
DeletedStaysDeleted ==
  Sure("rules") => gone \cap stored.rules \subseteq reopened

\* A check the user saved, and did not remove, is not dropped by a later save
\* of the list, unless that list was in doubt, as it is when an evaluation that
\* had read the checks before writes them back over it (evaluateHttpChecks,
\* which no call of the page shows), or the page failed to load it.
AddedStaysAdded ==
  Sure("targets") => added \subseteq stored.targets

\* The chart never shows another range than the one chosen once its points
\* are there, unless loads for two ranges crossed.
ChartMatchesRange ==
  view = "detail" /\ Quiet("chart") => shown.chart \subseteq range
=============================================================================
