------------------------------- MODULE Hotkeys -------------------------------
(***************************************************************************)
(* The keyboard shortcuts of the web client (public/client.js): which key  *)
(* belongs to which target of the list, the keys the user sets and stores  *)
(* for a production, the main button, and the talks of keys held down.     *)
(*                                                                         *)
(* The page is one record.  A binding is the id of a key: the digit row    *)
(* and the number pad give the same one.  What a talk does beyond the      *)
(* targets of its keys is WebTalk's.                                       *)
(***************************************************************************)
EXTENDS Naturals, SequencesExt

CONSTANTS
  None,
  People,     \* the targets that are users; the others are conferences
  Lists,      \* the lists of targets the server may answer for a production
  Digits,     \* the digits, in order (TARGET_HOTKEY_DIGITS)
  Binding,    \* the binding of a key
  Pages,      \* kinds of session, and whether several targets may be locked
  Attempts    \* bounds: what may happen in a behaviour, as records left

Prods == DOMAIN Lists
Targets == UNION {ToSet(l) : l \in UNION {Lists[q] : q \in Prods}}
Actions == {"main", "reply"}
Identities == Actions \cup Targets
Space == "space"

\* A list has no target twice, the digits are different keys.
HotkeysAssumption ==
  /\ \A q \in Prods : \A l \in Lists[q] : l \in Seq(Targets) /\ IsInjective(l)
  /\ Digits \in Seq(ToSet(Digits)) /\ IsInjective(Digits)
  /\ Actions \cap Targets = {}
  /\ \A how \in Pages : how.kind \in {"user", "guest"} /\ how.multi \in BOOLEAN

Bindings == {Binding[k] : k \in DOMAIN Binding} \cup {Space} \cup ToSet(Digits)

VARIABLES
  page,       \* the page and its storage
  left        \* presses, edits and changes that may still come

vars == <<page, left>>

Nothing == [x \in {} |-> None]
Without(f, S) == [x \in DOMAIN f \ S |-> f[x]]
With(f, x, v) == [y \in DOMAIN f \cup {x} |-> IF y = x THEN v ELSE f[y]]

-----------------------------------------------------------------------------
\* buildTalkTargetDescriptors: the main button, the reply, then the list.
Descriptors(list) == <<"main", "reply">> \o list

Give(acc, x, b) == [table |-> With(acc.table, b, x), shown |-> With(acc.shown, x, b)]

\* The first loop of rebuildTargetHotkeyAssignments: keys set by the user.
Claim(acc, x, customs) ==
  IF x \in DOMAIN customs /\ customs[x] \notin DOMAIN acc.table THEN Give(acc, x, customs[x]) ELSE acc

\* The second: space for the main button, which the reply shares with it unless
\* the main button has a key of its own; the next free digit for a target.
Default(acc, x, customs) ==
  LET free == {n \in DOMAIN Digits : Digits[n] \notin DOMAIN acc.table}
  IN  IF x \in DOMAIN acc.shown THEN acc
      ELSE IF x \in Actions
      THEN IF Space \notin DOMAIN acc.table THEN Give(acc, x, Space)
           ELSE IF x = "reply" /\ acc.table[Space] = "main" /\ "main" \notin DOMAIN customs
           THEN [acc EXCEPT !.shown = With(@, x, Space)]
           ELSE acc
      ELSE IF free = {} THEN acc
      ELSE Give(acc, x, Digits[CHOOSE n \in free : \A m \in free : n <= m])

Assigned(list, customs) ==
  LET all == Descriptors(list)
      given[n \in 0 .. 2 * Len(all)] ==
        IF n = 0 THEN [table |-> Nothing, shown |-> Nothing]
        ELSE IF n <= Len(all) THEN Claim(given[n - 1], all[n], customs)
        ELSE Default(given[n - 1], all[n - Len(all)], customs)
  IN  given[2 * Len(all)]

(***************************************************************************)
(* Parts of a page: kind of its session, prod and the production asked for *)
(* (switching); list (cachedOperatorTargets) and the lists asked for;      *)
(* customs, loaded and the storage store; table (targetHotkeys) and shown  *)
(* (targetHotkeysByTarget); the held keys of the keyboard, the pressed     *)
(* bindings and the targets they talk to (activeTalkPointers); capture,    *)
(* menu, dialog (the members of a conference, or a text field), away (the  *)
(* window has no focus); locked and multi; the last target, the users      *)
(* online, the targets chosen for the main button.  amiss: a pressed key   *)
(* lost its binding, or the focus went while it was not stopped.           *)
(***************************************************************************)
StorageKey(p) == IF p.kind = "guest" THEN None ELSE p.prod

\* ensureCustomTargetHotkeysLoaded.
Load(p) ==
  IF p.loaded = StorageKey(p) THEN p
  ELSE [p EXCEPT !.loaded = StorageKey(p),
                 !.customs = IF StorageKey(p) = None THEN Nothing ELSE p.store[StorageKey(p)]]

\* persistCustomTargetHotkeys.
Persist(p) == IF StorageKey(p) = None THEN p ELSE [p EXCEPT !.store[StorageKey(p)] = p.customs]

\* rebuildTargetHotkeyAssignments.
Rebuild(p) ==
  LET q == Load(p)
      r == Assigned(q.list, q.customs)
  IN  [q EXCEPT !.table = r.table, !.shown = r.shown, !.amiss = @ \/ ~(q.pressed \subseteq DOMAIN r.table)]

\* renderTargetHotkeySettings: a row that is gone is not recorded any more.
RenderSettings(p) == [p EXCEPT !.capture = IF @ \in ToSet(Descriptors(p.list)) THEN @ ELSE None]

\* refreshTargetHotkeyUi.
Refresh(p) == RenderSettings(Rebuild(p))

\* handleStopTalking without an input: every talk ends, no key counts as pressed.
StopAll(p) == [p EXCEPT !.talking = Nothing, !.pressed = {}, !.locked = FALSE, !.amiss = FALSE]

\* getMainButtonTarget and resolveHotkeyAssignmentTarget.
MainTarget(p) ==
  IF p.main[p.prod] = None THEN p.last ELSE IF p.main[p.prod] \in ToSet(p.list) THEN p.main[p.prod] ELSE None
Resolved(p, x) == CASE x = "main" -> MainTarget(p) [] x = "reply" -> p.last [] OTHER -> x

\* resolveLiveTalkTarget.
Live(p, t) == t \notin People \/ t \in p.online

\* canUseTargetHotkeys.
Usable(p) == ~(p.locked /\ ~p.multi) /\ p.menu = "closed" /\ ~p.dialog /\ p.capture = None

-----------------------------------------------------------------------------
\* The keydown handler that talks.
Press(p, b) ==
  LET t == Resolved(p, p.table[b])
      q == [p EXCEPT !.pressed = @ \cup {b}]
  IN  IF ~Usable(p) \/ b \notin DOMAIN p.table \/ b \in p.pressed THEN p
      ELSE IF t = None THEN p
      ELSE IF Live(p, t) THEN [q EXCEPT !.talking = With(@, b, t)] ELSE q

\* A variant: the key is forgotten, its talk goes on.
ReleaseTalking(p, b) ==
  IF b \notin DOMAIN p.table \/ b \notin p.pressed THEN p
  ELSE [p EXCEPT !.pressed = @ \ {b}, !.amiss = @ /\ p.pressed # {b}]

\* The keyup handler, and handleStopTalking for the key.
Release(p, b) ==
  IF b \notin DOMAIN p.table \/ b \notin p.pressed THEN p
  ELSE [p EXCEPT !.pressed = @ \ {b}, !.talking = Without(@, {b}), !.amiss = @ /\ p.pressed # {b}]

\* setCustomHotkeyForTarget.
SetCustom(p, x, b) ==
  LET q == Load(p)
      others == Without(q.customs, {y \in DOMAIN q.customs : q.customs[y] = b})
  IN  Refresh(Persist([q EXCEPT !.customs = With(others, x, b), !.capture = None]))

\* clearCustomHotkeyForTarget and resetCustomTargetHotkeys.
ClearCustoms(p, S) == Refresh(Persist([p EXCEPT !.customs = Without(@, S), !.capture = None]))

\* renderTargetList, with the answer.
RenderList(p, l) ==
  LET q == [Load([p EXCEPT !.list = l]) EXCEPT !.dialog = FALSE]
  IN  Refresh([(IF p.pressed # {} THEN StopAll(q) ELSE q) EXCEPT !.pressed = {}])

\* The page takes another production, its own choice or the server's.
TakeProduction(p, q) == [p EXCEPT !.prod = q, !.loaded = None, !.asked = @ \cup {q}]

-----------------------------------------------------------------------------
Init ==
  /\ left \in Attempts
  /\ \E how \in Pages, q \in Prods : \E l \in Lists[q] :
       page = Rebuild([kind |-> how.kind, multi |-> how.multi, prod |-> q, switching |-> None,
                       list |-> l, asked |-> {}, customs |-> Nothing, loaded |-> None,
                       store |-> [r \in Prods |-> Nothing], table |-> Nothing, shown |-> Nothing,
                       held |-> {}, pressed |-> {}, talking |-> Nothing, capture |-> None,
                       menu |-> "closed", dialog |-> FALSE, away |-> FALSE, locked |-> FALSE,
                       last |-> None, online |-> People, main |-> [r \in Prods |-> None],
                       amiss |-> FALSE])

Keep == UNCHANGED left
Spend(what) == left[what] > 0 /\ left' = [left EXCEPT ![what] = @ - 1]

\* A key goes down: it is recorded for the row that waits for one, or it talks.
KeyDown(k) ==
  /\ k \notin page.held /\ ~page.away
  /\ Spend("presses")
  /\ LET p == [page EXCEPT !.held = @ \cup {k}]
     IN  page' = IF p.capture # None THEN SetCustom(p, p.capture, Binding[k]) ELSE Press(p, Binding[k])

\* A key goes up, which a window without the focus is not told.
KeyUp(k) ==
  /\ k \in page.held
  /\ Keep
  /\ LET p == [page EXCEPT !.held = @ \ {k}]
     IN  page' = IF p.away THEN p ELSE Release(p, Binding[k])

\* blur: stopTalkingSafely, which respects a lock and does nothing when idle.
Blur ==
  /\ ~page.away
  /\ Spend("changes")
  /\ LET p == [page EXCEPT !.away = TRUE]
     IN  page' = IF p.locked \/ p.talking = Nothing THEN [p EXCEPT !.amiss = @ \/ p.pressed # {}] ELSE StopAll(p)

Focus == page.away /\ Keep /\ page' = [page EXCEPT !.away = FALSE]

\* A stop from elsewhere: the server's, a failed start, the page's own.
Stop == Spend("changes") /\ page.talking # Nothing /\ page' = StopAll(page)

\* A finger slides to the lock of another target, or taps it.
Lock == ~page.locked /\ page.talking # Nothing /\ Spend("changes") /\ page' = [page EXCEPT !.locked = TRUE]
Unlock ==
  /\ page.locked
  /\ Keep
  /\ page' = IF page.talking = Nothing THEN StopAll(page) ELSE [page EXCEPT !.locked = FALSE]

\* The settings menu and its view of the shortcuts; the members' dialog.
Menu ==
  /\ ~page.away
  /\ \/ /\ page.menu = "closed" /\ ~page.dialog
        /\ Spend("edits") /\ page' = Refresh([page EXCEPT !.menu = "main"])
     \/ page.menu # "closed" /\ Keep /\ page' = [page EXCEPT !.menu = "closed", !.capture = None]
     \/ page.menu = "main" /\ Keep /\ page' = RenderSettings([page EXCEPT !.menu = "shortcuts"])
     \/ page.menu = "closed" /\ ~page.dialog /\ Spend("changes") /\ page' = [page EXCEPT !.dialog = TRUE]
     \/ page.dialog /\ Keep /\ page' = [page EXCEPT !.dialog = FALSE]

\* Set key, or Cancel, in the row of a target.
Record(x) ==
  /\ page.menu = "shortcuts" /\ x \in ToSet(Descriptors(page.list))
  /\ Keep
  /\ page' = RenderSettings([page EXCEPT !.capture = IF @ = x THEN None ELSE x])

\* Default in a row, and the reset of all.
Clear(x) ==
  /\ page.menu = "shortcuts" /\ x \in DOMAIN page.customs \cap ToSet(Descriptors(page.list))
  /\ Spend("edits") /\ page' = ClearCustoms(page, {x})
Reset ==
  /\ page.menu = "shortcuts" /\ page.customs # Nothing
  /\ Spend("edits") /\ page' = ClearCustoms(page, DOMAIN page.customs)

\* The target of the main button is chosen in the menu.
SetMain(t) ==
  /\ page.menu = "main"
  /\ t \in ToSet(page.list) \cup {None}
  /\ Spend("edits") /\ page' = [page EXCEPT !.main[page.prod] = t]

\* The user chooses a production: talks stop, the server answers or refuses.
ChooseProduction(q) ==
  /\ page.switching = None /\ q # page.prod
  /\ Spend("changes") /\ page' = [StopAll(page) EXCEPT !.switching = q]
ProductionAnswered ==
  /\ page.switching # None
  /\ Keep
  /\ LET p == [page EXCEPT !.switching = None]
     IN  page' \in {p, TakeProduction(p, page.switching)}

\* active-production-reset and user-targets-updated.
ProductionReset(q) == Spend("changes") /\ page' = TakeProduction(StopAll(page), q)
TargetsUpdated == Spend("changes") /\ page' = [page EXCEPT !.asked = @ \cup {page.prod}]

\* The answer to a request for the list, or its failure.
TargetsArrive(q, l) == q \in page.asked /\ Keep /\ page' = RenderList([page EXCEPT !.asked = @ \ {q}], l)
TargetsFail(q) == q \in page.asked /\ Keep /\ page' = [page EXCEPT !.asked = @ \ {q}]

\* user-list, and applyIncomingTalkState: whom the reply would answer, if any.
UserList(o) == o # page.online /\ Spend("changes") /\ page' = Refresh([page EXCEPT !.online = o])
Addressed(t) == t # page.last /\ Spend("changes") /\ page' = [page EXCEPT !.last = t]

Next ==
  \/ \E k \in DOMAIN Binding : KeyDown(k) \/ KeyUp(k)
  \/ Blur \/ Focus \/ Stop \/ Lock \/ Unlock \/ Menu \/ Reset
  \/ \E x \in Identities : Record(x) \/ Clear(x)
  \/ \E t \in Targets \cup {None} : SetMain(t) \/ Addressed(t)
  \/ ProductionAnswered \/ TargetsUpdated
  \/ \E q \in Prods : ChooseProduction(q) \/ ProductionReset(q) \/ TargetsFail(q)
  \/ \E q \in Prods : \E l \in Lists[q] : TargetsArrive(q, l)
  \/ \E o \in SUBSET People : UserList(o)

Spec == Init /\ [][Next]_vars

-----------------------------------------------------------------------------
IsKeys(f, D, R) == DOMAIN f \subseteq D /\ \A x \in DOMAIN f : f[x] \in R

TypeOK ==
  /\ page.kind \in {"user", "guest"} /\ page.prod \in Prods /\ page.switching \in Prods \cup {None}
  /\ page.list \in Seq(Targets) /\ page.asked \subseteq Prods
  /\ IsKeys(page.customs, Identities, Bindings) /\ page.loaded \in Prods \cup {None}
  /\ \A q \in Prods : IsKeys(page.store[q], Identities, Bindings) /\ page.main[q] \in Targets \cup {None}
  /\ IsKeys(page.table, Bindings, Identities) /\ IsKeys(page.shown, Identities, Bindings)
  /\ page.held \subseteq DOMAIN Binding /\ page.pressed \subseteq Bindings
  /\ IsKeys(page.talking, page.pressed, Targets)
  /\ page.capture \in Identities \cup {None} /\ page.menu \in {"closed", "main", "shortcuts"}
  /\ page.last \in Targets \cup {None} /\ page.online \subseteq People
  /\ {page.multi, page.dialog, page.away, page.locked, page.amiss} \subseteq BOOLEAN

\* A key that talks is held: unless its binding was lost or the window left
\* without a stop, no binding counts as pressed without a finger on a key of it.
KeysLetGo == page.amiss \/ page.pressed \subseteq {Binding[k] : k \in page.held}

\* The key shown beside a target presses that target, and only the reply may
\* share the main button's; a key the user set is the one shown; the targets
\* without one have the first free digits, in list order.
KeysAsShown ==
  LET shown == page.shown
      list == page.list
      plain == {i \in DOMAIN list : list[i] \notin DOMAIN page.customs}
      rank(b) == CHOOSE n \in DOMAIN Digits : Digits[n] = b
  IN  /\ \A x \in DOMAIN shown :
           page.table[shown[x]] = x \/ (x = "reply" /\ page.table[shown[x]] = "main" /\ shown[x] = Space)
      /\ \A x \in DOMAIN page.customs \cap ToSet(Descriptors(list)) : shown[x] = page.customs[x]
      /\ \A i, j \in plain :
           i < j /\ list[j] \in DOMAIN shown =>
             list[i] \in DOMAIN shown /\ rank(shown[list[i]]) < rank(shown[list[j]])

\* The keys in use are those stored for the production they were loaded for.
KeysAsStored == page.loaded # None => page.customs = page.store[page.loaded]

HotkeysTrue == KeysLetGo /\ KeysAsShown /\ KeysAsStored
=============================================================================
