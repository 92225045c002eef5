----------------------------- MODULE AdminMatrix -----------------------------
(***************************************************************************)
(* The matrix of the productions in an administrator's page (admin.js): a  *)
(* page that keeps a copy of one production, changes it optimistically and *)
(* by its own answers, and fetches it anew where it knows that it has to.  *)
(* Requests go over HTTP: the server handles them in any order, and the    *)
(* answers arrive in any order.                                            *)
(*                                                                         *)
(* One row of the matrix: the conference and the feed as targets of one    *)
(* member.  They have the same numeric id, as ids are counted per table.   *)
(***************************************************************************)
EXTENDS Naturals, Sequences, SequencesExt, FiniteSetsExt

CONSTANTS
  Prods,      \* productions, 1..N; the first one is the primary one
  Attempts    \* bounds: edits of the page, edits elsewhere, faults, as records left

VARIABLES
  world,      \* the database, the page, and the requests between them
  left        \* what may still happen

vars == <<world, left>>

Cells == {"conf", "feed"}
States == {"off", "talk", "listen"}

(***************************************************************************)
(* The database.  Of a production: has (its conferences and feeds), on     *)
(* (the targets of the member), mute (can_talk is 0 for the conference),   *)
(* ord (production_target_order).                                          *)
(***************************************************************************)
Place(ord, t) == IF Contains(ord, t) THEN ord ELSE Append(ord, t)
Without(ord, t) == SelectSeq(ord, LAMBDA x : x # t)

\* addProductionTarget, setProductionConferenceListenOnly and removeProductionTarget.
Write(d, t, v) ==
  IF v = "off" THEN [d EXCEPT !.on = @ \ {t}, !.ord = Without(@, t)]
  ELSE [d EXCEPT !.on = @ \cup {t}, !.ord = Place(@, t), !.mute = IF t = "conf" THEN v = "listen" ELSE @]

\* updateProductionTargetOrder
Reorder(d, items) == [d EXCEPT !.ord = items]
CanReorder(d, items) == Range(items) \subseteq ((d.on \cap {"conf"}) \cup (d.has \cap {"feed"}))

\* setProductionConference and setProductionFeed, and their removal.
SetContent(d, t, v) ==
  IF v = "talk" THEN [d EXCEPT !.has = @ \cup {t}]
  ELSE [Write(d, t, "off") EXCEPT !.has = @ \ {t}]

\* getProductionTargets: by position; targets without one come last.
Row(d) == SelectSeq(d.ord, LAMBDA t : t \in d.on) \o SetToSeq(d.on \ Range(d.ord))
\* GET /admin/productions/:productionId
Payload(d, p) == [of |-> p, has |-> d.has, row |-> Row(d), mute |-> d.mute /\ "conf" \in d.on]

(***************************************************************************)
(* The page.  sel: selectedProductionId; pay: selectedProductionPayload;   *)
(* cells, list: the matrix and the order as they are on the screen; asked: *)
(* the production the open dialog names; busy, held: disabled buttons.  A call is a request that is out, *)
(* or its answer on the way back.  Of what the page cannot know: stale, the*)
(* productions whose copy misses something; crossed, the last production   *)
(* that arrived is not the one that was asked for last.                    *)
(***************************************************************************)
Nothing == [of |-> 0, has |-> {}, row |-> <<>>, mute |-> FALSE]
StateIn(pay, t) ==
  IF ~Contains(pay.row, t) THEN "off" ELSE IF t = "conf" /\ pay.mute THEN "listen" ELSE "talk"

Request(k, p) ==
  [k |-> k, p |-> p, t |-> "none", v |-> "off", w |-> "off", items |-> <<>>, sent |-> FALSE, ok |-> TRUE,
   pay |-> Nothing, seen |-> {}, multi |-> FALSE, late |-> FALSE, stray |-> FALSE, onscreen |-> TRUE]
Send(w, c) == [w EXCEPT !.calls = Append(@, c)]
Fetch(w, p) == Send([w EXCEPT !.sel = p], Request("detail", p))           \* loadProductionDetail
Reload(w, select) == Send(w, Request("mode", select))                     \* loadProductions

Spoil(w, p) == [w EXCEPT !.stale = @ \cup {p}]
\* What is on its way may miss a change, or undo it in the copy.
Doubt(w) ==
  [w EXCEPT !.calls = [i \in DOMAIN @ |-> IF @[i].sent THEN [@[i] EXCEPT !.stray = TRUE] ELSE @[i]]]
Lost(w) == Doubt([w EXCEPT !.stale = Prods])
Stray(w, k) ==
  [w EXCEPT !.calls = [i \in DOMAIN @ |-> IF @[i].k = k THEN [@[i] EXCEPT !.stray = TRUE] ELSE @[i]]]
\* Edits that are out when a copy without them comes onto the screen.
Redrawn(calls, p) ==
  [i \in DOMAIN calls |-> LET c == calls[i] IN
     IF c.k \in {"edit", "order", "content"} THEN [c EXCEPT !.onscreen = FALSE, !.stray = @ \/ (c.p = p /\ ~c.sent)] ELSE c]

\* renderProductionOrder: a saved order that is not answered yet is overwritten.
ShowOrder(w) == Stray([w EXCEPT !.list = w.pay.row], "order")

\* renderProductionTargetMatrix, renderProductionMembers
Matrix(pay) == [t \in Cells |-> StateIn(pay, t)]
Button(pay, t) == IF t \in pay.has THEN "off" ELSE "talk"

\* renderProductionDetail
Show(w, pay) ==
  [w EXCEPT !.pay = pay, !.list = pay.row, !.cells = Matrix(pay),
            !.busy = {}, !.held = {}, !.calls = Redrawn(@, pay.of)]

\* The rest of loadProductionDetail.
DetailAnswered(w, c) ==
  LET v == Show([w EXCEPT !.crossed = c.late], c.pay) IN
  IF ~c.ok THEN [w EXCEPT !.pay = Nothing, !.crossed = c.late]
  ELSE IF c.stray THEN Spoil(v, c.p) ELSE [v EXCEPT !.stale = @ \ {c.p}]

\* The rest of loadProductions.
ModeAnswered(w, c) ==
  IF ~c.ok THEN Lost(w)
  ELSE Send([w EXCEPT !.multiple = c.multi], Request("list", IF c.multi THEN c.p ELSE 0))
ListAnswered(w, c) ==
  LET chosen == IF c.p \in c.seen THEN c.p ELSE Min(c.seen) IN
  IF ~c.ok THEN Lost(w) ELSE Fetch([w EXCEPT !.listed = c.seen], chosen)

\* What a successful edit makes of the copy.
Edited(pay, t, v) ==
  CASE v = "off" -> [pay EXCEPT !.row = Without(@, t), !.mute = @ /\ t # "conf"]
    [] v = "talk" -> [pay EXCEPT !.row = Place(@, t), !.mute = @ /\ t # "conf"]
    [] v = "listen" -> [pay EXCEPT !.mute = @ \/ (t = "conf" /\ Contains(pay.row, t))]

\* A variant: a cell keeps what it shows when its edit fails.
EditAnsweredKept(w, c) ==
  LET free == IF c.onscreen THEN [w EXCEPT !.busy = @ \ {c.t}] ELSE w
      v    == ShowOrder([free EXCEPT !.pay = Edited(@, c.t, c.v)]) IN
  IF ~c.ok THEN free
  ELSE IF c.stray \/ w.pay.of # c.p THEN Spoil(Spoil(v, c.p), w.pay.of) ELSE v

\* The rest of handleProductionTargetToggle.
EditAnswered(w, c) ==
  LET free == IF c.onscreen THEN [w EXCEPT !.busy = @ \ {c.t}] ELSE w
      v    == ShowOrder([free EXCEPT !.pay = Edited(@, c.t, c.v)])
      back == IF c.onscreen THEN [free EXCEPT !.cells[c.t] = c.w] ELSE free IN
  IF ~c.ok \/ w.pay.of = 0 THEN (IF c.stray \/ c.ok THEN Spoil(back, c.p) ELSE back)
  ELSE IF c.stray \/ w.pay.of # c.p THEN Spoil(Spoil(v, c.p), w.pay.of) ELSE v

\* The rest of saveProductionTargetOrder.
OrderAnswered(w, c) ==
  LET v == [w EXCEPT !.pay.row = SelectSeq(c.items, LAMBDA t : Contains(w.pay.row, t))] IN
  IF ~c.ok \/ w.pay.of = 0 THEN Fetch(w, w.sel)
  ELSE IF c.stray \/ w.pay.of # c.p THEN Spoil(Spoil(v, c.p), w.pay.of) ELSE v

\* The rest of updateProductionEntity, and of the buttons of a production.
ContentAnswered(w, c) ==
  IF c.ok THEN Fetch(w, w.sel) ELSE IF c.onscreen THEN [w EXCEPT !.held = @ \ {c.t}] ELSE w
CreateAnswered(w, c) == IF c.ok THEN Reload(w, c.p) ELSE w
DeleteAnswered(w, c) == IF c.ok THEN Reload([w EXCEPT !.sel = 0], 0) ELSE w
MultipleAnswered(w, c) == IF c.ok THEN Reload(w, w.sel) ELSE w
\* refreshAdminLists, once the collections are there.
CollectionsAnswered(w, c) == IF c.ok THEN Reload(w, w.sel) ELSE Lost(w)

(***************************************************************************)
(* The server handles a request.                                           *)
(***************************************************************************)
\* What is fetched before a change of p is handled, and not yet there, misses it.
Changed(w, p, d) ==
  [w EXCEPT !.db[p] = d,
            !.calls = [i \in DOMAIN @ |-> IF @[i].k = "detail" /\ @[i].p = p /\ @[i].sent
                                          THEN [@[i] EXCEPT !.stray = TRUE] ELSE @[i]]]

Effect(w, c) ==
  CASE c.k = "edit"     -> Changed(w, c.p, Write(w.db[c.p], IF c.v = "listen" THEN "conf" ELSE c.t, c.v))
    [] c.k = "order"    -> Changed(w, c.p, Reorder(w.db[c.p], c.items))
    [] c.k = "content"  -> Doubt(Changed(w, c.p, SetContent(w.db[c.p], c.t, c.v)))
    [] c.k = "create"   -> [w EXCEPT !.prods = @ \cup {c.p}, !.made = @ \cup {c.p}]
    [] c.k = "delete"   -> [w EXCEPT !.prods = @ \ {c.p}]
    [] c.k = "multiple" -> [w EXCEPT !.multi = c.v = "talk"]
    [] OTHER            -> w

Accepted(w, c) ==
  CASE c.k = "edit"     -> /\ c.p \in w.prods
                           /\ c.v # "off" => (IF c.v = "listen" THEN "conf" ELSE c.t) \in w.db[c.p].has
    [] c.k = "order"    -> c.p \in w.prods /\ CanReorder(w.db[c.p], c.items)
    [] c.k \in {"content", "detail"} -> c.p \in w.prods
    [] c.k = "delete"   -> c.p \in w.prods /\ w.prods # {c.p}
    [] OTHER            -> TRUE

Answer(w, c) ==
  CASE c.k = "detail" -> [c EXCEPT !.pay = Payload(w.db[c.p], c.p)]
    [] c.k = "list"   -> [c EXCEPT !.seen = w.prods]
    [] c.k = "mode"   -> [c EXCEPT !.multi = w.multi]
    [] OTHER          -> c

Handled(w, i, c) == [w EXCEPT !.calls[i] = [Answer(w, c) EXCEPT !.sent = TRUE]]
Refused(w, i) == [w EXCEPT !.calls[i] = [@ EXCEPT !.sent = TRUE, !.ok = FALSE]]

Answered(w, c) ==
  CASE c.k = "detail"      -> DetailAnswered(w, c)
    [] c.k = "mode"        -> ModeAnswered(w, c)
    [] c.k = "list"        -> ListAnswered(w, c)
    [] c.k = "edit"        -> EditAnswered(w, c)
    [] c.k = "order"       -> OrderAnswered(w, c)
    [] c.k = "content"     -> ContentAnswered(w, c)
    [] c.k = "create"      -> CreateAnswered(w, c)
    [] c.k = "delete"      -> DeleteAnswered(w, c)
    [] c.k = "multiple"    -> MultipleAnswered(w, c)
    [] c.k = "collections" -> CollectionsAnswered(w, c)

(***************************************************************************)
(* Actions of the administrator.                                           *)
(***************************************************************************)
May(a) == left[a] > 0 /\ left' = [left EXCEPT ![a] = @ - 1]
Out(k) == \E i \in DOMAIN world.calls : world.calls[i].k = k
Usable == world.pay.of # 0 /\ world.sel # 0 /\ world.asked = 0

Select ==
  \E p \in world.listed : /\ May("edits") /\ world.multiple /\ world.asked = 0
                          /\ world' = Fetch(world, p)

\* handleProductionTargetToggle up to its request: whatever the cell, "listen"
\* is asked of the conference with its id.
Edit(w, t, v) ==
  LET odd == \/ \E i \in DOMAIN w.calls : w.calls[i].k = "edit" /\ (w.calls[i].t = t \/ w.calls[i].stray)
             \/ v = "listen" /\ (t = "feed" \/ ~Contains(w.pay.row, t))
      u   == [w EXCEPT !.cells[t] = v, !.busy = @ \cup {t}] IN
  Send(IF odd THEN Stray(u, "edit") ELSE u,
       [Request("edit", w.sel) EXCEPT !.t = t, !.v = v, !.w = w.cells[t], !.stray = odd])

After(t, v) ==
  CASE v = "off" -> "talk" [] v = "listen" -> "off" [] v = "talk" -> IF t = "conf" THEN "listen" ELSE "off"

Toggle ==
  \E t \in world.pay.has \ world.busy :
    Usable /\ May("edits") /\ world' = Edit(world, t, After(t, world.cells[t]))

\* A stroke that began in another row; also disabled cells are painted.
Paint ==
  \E t \in world.pay.has, v \in States :
    /\ Usable /\ May("edits") /\ v # world.cells[t]
    /\ world' = Edit(world, t, v)

Drag ==
  /\ Usable /\ May("edits") /\ Len(world.list) > 1
  /\ world' = Send(Stray([world EXCEPT !.list = Reverse(@)], "order"),
                   [Request("order", world.sel) EXCEPT !.items = Reverse(world.list), !.stray = Out("order")])

ToggleContent ==
  \E t \in Cells \ world.held :
    /\ Usable /\ May("edits")
    /\ world' = Send([world EXCEPT !.held = @ \cup {t}],
                     [Request("content", world.sel) EXCEPT !.t = t, !.v = Button(world.pay, t)])

Create ==
  \E p \in Prods \ world.made :
    /\ world.multiple /\ world.asked = 0 /\ May("edits") /\ ~Out("create")
    /\ world' = Send(world, Request("create", p))

AskDelete == Usable /\ world.multiple /\ May("edits") /\ world' = [world EXCEPT !.asked = world.pay.of]
ConfirmDelete ==
  /\ world.asked # 0 /\ UNCHANGED left
  /\ LET w == [world EXCEPT !.asked = 0] IN
     world' = IF world.sel = 0 THEN w ELSE Send(w, Request("delete", world.sel))

TurnMultiple ==
  /\ May("edits") /\ world.asked = 0 /\ ~Out("multiple")
  /\ world' = Send(world, [Request("multiple", 0) EXCEPT !.v = IF world.multiple THEN "off" ELSE "talk"])

(***************************************************************************)
(* The network, the server, and others.                                    *)
(***************************************************************************)
Serve ==
  \E i \in DOMAIN world.calls : LET c == world.calls[i] IN
    /\ ~c.sent /\ UNCHANGED left
    /\ world' = IF Accepted(world, c) THEN Handled(Effect(world, c), i, c) ELSE Refused(world, i)

\* A request gets lost on its way, or its answer does.
Fails ==
  \E i \in DOMAIN world.calls : LET c == world.calls[i] IN
    /\ ~c.sent /\ May("faults")
    /\ \/ world' = Refused(world, i)
       \/ Accepted(world, c) /\ world' = Lost(Refused(Effect(world, c), i))

Deliver ==
  \E i \in DOMAIN world.calls : LET c == world.calls[i] IN
    /\ c.sent /\ UNCHANGED left
    /\ LET overtaken(j) == c.k = "detail" /\ j < i /\ world.calls[j].k = "detail"
           rest == [j \in DOMAIN world.calls |-> [world.calls[j] EXCEPT !.late = @ \/ overtaken(j)]]
       IN  world' = Answered([world EXCEPT !.calls = RemoveAt(rest, i)], c)

\* A change by somebody else.
Foreign(w, p, d) == Doubt([w EXCEPT !.db[p] = d])

\* Conference members are edited in another view: pages are told to refresh.
Elsewhere ==
  LET p == Min(world.prods)
      d == Write(world.db[p], "conf", IF "conf" \in world.db[p].on THEN "off" ELSE "talk")
      w == Foreign(world, p, d) IN
  /\ May("others") /\ "conf" \in world.db[p].has
  /\ world' = IF world.up THEN [w EXCEPT !.due = TRUE] ELSE Spoil(w, p)

\* The user sorts the buttons on its own page, which no administrator is told.
Unseen ==
  \E p \in world.prods :
    /\ May("others") /\ Len(Row(world.db[p])) > 1
    /\ world' = Spoil(Foreign(world, p, Reorder(world.db[p], Reverse(Row(world.db[p])))), p)

\* scheduleAdminStatusBroadcast: after 75 ms, one event for all that happened.
Broadcast ==
  /\ world.due /\ UNCHANGED left
  /\ world' = IF world.up THEN [world EXCEPT !.due = FALSE, !.events = @ + 1] ELSE Lost([world EXCEPT !.due = FALSE])

\* The listener of "status" in startStatusStream.
StatusEvent ==
  /\ world.events > 0 /\ UNCHANGED left
  /\ world' = Send([world EXCEPT !.events = @ - 1], Request("collections", 0))

\* The first event of a new stream does not ask for a refresh.
StreamBreaks ==
  /\ world.up /\ May("faults")
  /\ world' = IF world.events > 0 THEN Lost([world EXCEPT !.up = FALSE, !.events = 0]) ELSE [world EXCEPT !.up = FALSE]
StreamOpens == ~world.up /\ UNCHANGED left /\ world' = [world EXCEPT !.up = TRUE]

Rows == [p \in Prods |-> IF p = 1 THEN [has |-> Cells, on |-> Cells, mute |-> FALSE, ord |-> <<"conf", "feed">>]
                                  ELSE [has |-> {"conf"}, on |-> {"conf"}, mute |-> TRUE, ord |-> <<"conf">>]]

Fresh(ps, m) ==
  Show([prods |-> ps, made |-> ps, multi |-> m, due |-> FALSE, events |-> 0, up |-> TRUE,
        db |-> [p \in Prods |-> IF p \in ps THEN Rows[p] ELSE [has |-> {}, on |-> {}, mute |-> FALSE, ord |-> <<>>]],
        sel |-> 1, multiple |-> m, listed |-> ps, pay |-> Nothing, list |-> <<>>, cells |-> [t \in Cells |-> "off"],
        busy |-> {}, held |-> {}, asked |-> 0, calls |-> <<>>, stale |-> {}, crossed |-> FALSE],
       Payload(Rows[1], 1))

\* loadData has been through.
Init == left \in Attempts /\ \E ps \in {{1}, Prods}, m \in BOOLEAN : world = Fresh(ps, m)

Next == Select \/ Toggle \/ Paint \/ Drag \/ ToggleContent \/ Create \/ AskDelete \/ ConfirmDelete \/ TurnMultiple
        \/ Serve \/ Fails \/ Deliver \/ Elsewhere \/ Unseen \/ Broadcast \/ StatusEvent \/ StreamBreaks \/ StreamOpens

Spec == Init /\ [][Next]_vars

(***************************************************************************)
(* Properties.                                                             *)
(***************************************************************************)
TypeOK ==
  /\ world.sel \in Prods \cup {0} /\ world.pay.of \in Prods \cup {0} /\ world.asked \in Prods \cup {0}
  /\ world.cells \in [Cells -> States] /\ Range(world.list) \subseteq Cells /\ world.prods # {}
  /\ \A p \in Prods : world.db[p].on \subseteq world.db[p].has

\* Once all requests are answered and no refresh is due, the page shows the
\* production that is selected, and of it what the database holds: the cells, the
\* order of the buttons, and its copy, from which the next edits start.
\* Excepted are productions the page was not told of a change of, or whose
\* request got lost, until they are fetched again; and a fetch that was overtaken.
ShownIsStored ==
  /\ world.calls = <<>> /\ ~world.due /\ world.events = 0
  /\ world.pay.of # 0 /\ world.sel # 0 /\ ~world.crossed /\ world.pay.of \notin world.stale
  => /\ world.sel = world.pay.of /\ world.pay = Payload(world.db[world.sel], world.sel)
     /\ world.list = world.pay.row /\ world.busy = {}
     /\ \A t \in world.pay.has : world.cells[t] = StateIn(world.pay, t)
==============================================================================
