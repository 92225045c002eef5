----------------------------- MODULE WebSession -----------------------------
(***************************************************************************)
(* Sign-on, registration and recovery of a page of the web client          *)
(* (public/client.js), with the browser sessions and the registration of   *)
(* the server (serverCore.js, browserSessions.js).  A page signs on over   *)
(* HTTP, connects its socket anew so that the handshake carries the cookie,*)
(* registers, and initializes its media; whenever the connection is lost   *)
(* it does the last two again.  Several of these activities can be under   *)
(* way at once, begun on different connections.                            *)
(*                                                                         *)
(* A handler is an operator from a world to a world, up to its next await. *)
(* The requests of a page reach the server in order, answers come back in  *)
(* order, and a lost connection loses the answers; a request may still     *)
(* have been handled.  A confirm or alert blocks the page: the answer of   *)
(* the user is part of the step.                                           *)
(***************************************************************************)
EXTENDS Naturals, Sequences, FiniteSets

CONSTANTS
  Prods,      \* productions of the account
  Other,      \* the socket of another device of the account
  Connections,  \* bound: connections of the page
  Attempts    \* bounds: losses, sign-ons, changes from elsewhere, as records left

SessionAssumption == Connections \in Nat \ {0} /\ Other \notin 0 .. Connections

VARIABLES
  world,      \* the page, the server and what is between them
  left        \* what may still happen

vars == <<world, left>>

NoInit == [at |-> "none", sock |-> 0, gen |-> 0]

(***************************************************************************)
(* Parts of a world.  The page: kind of the account, view, sock (0 when    *)
(* disconnected), gen (connectionGeneration), last and previous (socket    *)
(* ids), prod, cookie, tasks (calls that wait), timer                      *)
(* (reconnectRecoveryTimer), media (mediaInitialized), mgen                *)
(* (mediaStateGeneration), init (initializingMediaPromise).  Between:      *)
(* sent, acks.  The server: open (sockets it has), hand (the cookie of     *)
(* each handshake), valid (browser sessions), holder (the socket           *)
(* registered), served (its production).  hung: an initialization waits    *)
(* for an answer that was lost, for ever.                                  *)
(***************************************************************************)
Task(w, of, at) == [of |-> of, at |-> at, gen |-> w.gen, n |-> 0]

\* A number for a request that no other request or answer under way has.
Fresh(w) ==
  LET used == {t.n : t \in w.tasks} \cup {w.sent[i].n : i \in DOMAIN w.sent} \cup {w.acks[i].n : i \in DOMAIN w.acks}
  IN  CHOOSE n \in 1 .. Cardinality(used) + 1 : n \notin used
Recovering(w) == \E t \in w.tasks : t.of = "recover" /\ t.gen = w.gen

\* emitRegisterUser, for a task.
Register(w, of, force) ==
  [w EXCEPT !.tasks = @ \cup {[Task(w, of, "register") EXCEPT !.n = Fresh(w)]},
            !.sent = Append(@, [what |-> "register", of |-> of, gen |-> w.gen, sock |-> w.sock, n |-> Fresh(w),
                                force |-> force, prod |-> w.prod])]

\* scheduleReconnectRecovery.
Schedule(w) == IF w.view = "app" THEN [w EXCEPT !.timer = TRUE] ELSE w

\* hardLogoutAndReload, and the end of a page.
End(w) ==
  [w EXCEPT !.view = "ended", !.sock = 0, !.tasks = {}, !.timer = FALSE, !.init = NoInit, !.media = FALSE,
            !.acks = <<>>]

\* closeMediaTransportState.
CloseMedia(w) == [w EXCEPT !.mgen = @ + 1, !.media = FALSE]

\* recoverConnectedSession, until its first await.
Recover(w) ==
  IF Recovering(w) \/ w.sock = 0 \/ w.view = "ended" THEN w
  ELSE IF w.view = "app" THEN Register(w, "recover", FALSE)
  ELSE [w EXCEPT !.previous = 0, !.timer = FALSE]

\* A variant: only a registration that fails is tried again.
MediaEndsOnce(w, ok) ==
  LET waiting == {t \in w.tasks : t.at = "media"}
      now == \E t \in waiting : t.of = "recover" /\ t.gen = w.gen
      v == [w EXCEPT !.tasks = @ \ waiting, !.init = NoInit]
  IN  IF ok THEN IF now THEN [v EXCEPT !.timer = FALSE, !.previous = 0] ELSE v ELSE v

\* ensureMediaInitialized has ended; those who wait for it go on, of which a
\* recovery that was begun on a former connection gives up.
MediaEnds(w, ok) ==
  LET waiting == {t \in w.tasks : t.at = "media"}
      now == \E t \in waiting : t.of = "recover" /\ t.gen = w.gen
      v == [w EXCEPT !.tasks = @ \ waiting, !.init = NoInit]
  IN  IF ok THEN IF now THEN [v EXCEPT !.timer = FALSE, !.previous = 0] ELSE v
      ELSE IF now \/ \E t \in waiting : t.of = "login" THEN Schedule(v) ELSE v

\* ensureMediaInitialized, for a task.
EnsureMedia(w, of) ==
  LET v == [w EXCEPT !.tasks = @ \cup {Task(w, of, "media")}] IN
  IF w.media THEN MediaEnds(v, TRUE)
  ELSE IF w.init # NoInit THEN v
  ELSE [v EXCEPT !.init = [at |-> "ask", sock |-> w.sock, gen |-> w.mgen]]

\* initializeMediaSoup has all it asked for; was the connection reset meanwhile?
Initialized(w) ==
  IF w.init.gen # w.mgen \/ w.sock = 0 THEN MediaEnds(CloseMedia(w), FALSE)
  ELSE MediaEnds([w EXCEPT !.media = TRUE], TRUE)

\* A registration succeeded: applyRegisteredProductionState, and on.
SignedOn(w, of, prod) == EnsureMedia([w EXCEPT !.view = "app", !.prod = prod], of)

\* A registration failed for good, or for now.
Refused(w, of) == IF of = "login" THEN w ELSE End([w EXCEPT !.valid = @ \ {w.cookie}])
Failed(w, of) == IF of = "login" THEN w ELSE Schedule(w)

\* The disconnect event.
Dropped(w) ==
  [CloseMedia(w) EXCEPT !.sock = 0, !.gen = @ + 1, !.previous = w.last, !.last = 0, !.timer = FALSE, !.acks = <<>>,
     !.tasks = {t \in @ : t.of # "switch"}, !.hung = @ \/ w.init.at = "consume"]

(***************************************************************************)
(* The server.                                                             *)
(***************************************************************************)
Answer(w, m, is, prod) ==
  IF m.sock # w.sock THEN w
  ELSE [w EXCEPT !.acks = Append(@, [of |-> m.of, gen |-> m.gen, n |-> m.n, is |-> is, prod |-> prod])]

\* Another connection of the account is told so and closed.
Kick(w, s) ==
  LET v == [w EXCEPT !.open = @ \ {s}] IN IF s = w.sock /\ s # 0 THEN End(v) ELSE v

\* A browser session of its own for who signed on.
NewCookie(w) ==
  LET used == {w.hand[s] : s \in 1 .. Connections} \cup w.valid
      c == CHOOSE c \in 1 .. Cardinality(used) + 1 : c \notin used
  IN  [w EXCEPT !.cookie = c, !.valid = @ \cup {c}]

\* Who it is: a password or a link says so, or the proxy, which ends the browser
\* session there was, or that browser session itself.
Identified(w) ==
  {NewCookie(w), NewCookie([w EXCEPT !.valid = @ \ {w.cookie}])}
    \cup IF w.cookie \in w.valid THEN {w} ELSE {}

\* The cookie of the handshake stands for the account; a guest needs none.
Authenticated(w, s) == w.kind = "guest" \/ w.hand[s] \in w.valid

\* register-user.
Registered(w, m) ==
  LET s == m.sock
      taken == w.holder \notin {0, s}
  IN  IF ~Authenticated(w, s) THEN Answer(w, m, "refused", 0)
      ELSE IF taken /\ w.kind = "user" /\ ~m.force
      THEN Answer(w, m, IF w.holder = w.previous THEN "own" ELSE "conflict", 0)
      ELSE LET v == IF taken /\ w.kind # "guest" THEN Kick(w, w.holder) ELSE w
           IN  Answer([v EXCEPT !.holder = s, !.served = m.prod], m, "ok", m.prod)

\* set-active-production.
Switched(w, m) ==
  IF w.holder = m.sock THEN Answer([w EXCEPT !.served = m.prod], m, "ok", m.prod) ELSE Answer(w, m, "refused", 0)

(***************************************************************************)
(* Actions.                                                                *)
(***************************************************************************)
\* A behaviour is followed until an initialization hangs.
Free == ~world.hung /\ UNCHANGED left
Spend(what) == ~world.hung /\ left[what] > 0 /\ left' = [left EXCEPT ![what] = @ - 1]

\* The server handles the next request, if its connection is still there.
Handle ==
  /\ world.sent # <<>>
  /\ world' = LET m == Head(world.sent)
                  w == [world EXCEPT !.sent = Tail(@)]
              IN  IF m.sock \notin w.open THEN w
                  ELSE IF m.what = "register" THEN Registered(w, m) ELSE Switched(w, m)
  /\ Free

\* The page hears of an answer, unless it has given the request up.
Hear ==
  /\ world.acks # <<>>
  /\ LET ack == Head(world.acks)
         t == [of |-> ack.of, gen |-> ack.gen, n |-> ack.n, at |-> IF ack.of = "switch" THEN "switch" ELSE "register"]
         v == [world EXCEPT !.acks = Tail(@)]
         w == [v EXCEPT !.tasks = @ \ {t}]
         no == IF ack.of = "login" THEN w ELSE End(w)
     IN  world' \in (IF t \notin v.tasks THEN {v}
                     ELSE IF ack.of = "switch" THEN {IF ack.is = "ok" THEN [w EXCEPT !.prod = ack.prod] ELSE w}
                     ELSE CASE ack.is = "ok" -> {SignedOn(w, ack.of, ack.prod)}
                            [] ack.is = "own" -> {Register(w, ack.of, TRUE)}
                            [] ack.is = "conflict" -> {Register(w, ack.of, TRUE), no}
                            [] ack.is = "refused" -> {Refused(w, ack.of)})
  /\ Free

\* A registration gets no answer in time: the connection is lost, or slow.
Timeout(t) ==
  /\ t.at = "register"
  /\ LET w == [world EXCEPT !.tasks = @ \ {t}] IN
     world' = IF t.of = "login" \/ t.gen # w.gen THEN w ELSE Failed(w, t.of)
  /\ IF t.gen # world.gen THEN Free ELSE Spend("losses")

\* A step of initializeMediaSoup: the server sent its parameters, there may be
\* producers to consume, and those are consumed.
MediaStep ==
  /\ world.init # NoInit /\ world.sock # 0
  /\ \/ world.init.at = "ask" /\ world' = Initialized(world)
     \/ /\ world.init.at = "ask"
        /\ world' = [world EXCEPT !.init.at = "consume"]
     \/ world.init.at = "consume" /\ world' = Initialized(world)
  /\ Free

\* Parameters that do not come in time, or an error.
MediaFails ==
  /\ world.init.at = "ask"
  /\ world' = MediaEnds(CloseMedia(world), FALSE)
  /\ IF world.init.sock # world.sock THEN Free ELSE Spend("losses")

Connect ==
  /\ world.sock = 0 /\ world.view # "ended"
  /\ \E s \in {n \in 1 .. Connections : world.hand[n] = 0 /\ \A m \in 1 .. n - 1 : world.hand[m] # 0} :
       LET w == [world EXCEPT !.sock = s, !.last = s, !.open = @ \cup {s}, !.hand[s] = world.cookie]
           ts == {t \in w.tasks : t.at = "socket"}
           v == Recover(w)
       IN  world' = IF ts = {} THEN v ELSE Register([v EXCEPT !.tasks = @ \ ts], "login", FALSE)
  /\ Free

Disconnect == world.sock # 0 /\ world' = Dropped(world) /\ Spend("losses")

\* The server restarts; browser sessions are in its database.
Restart ==
  /\ world' = LET w == IF world.sock = 0 THEN world ELSE Dropped(world)
              IN  [w EXCEPT !.open = {}, !.holder = 0, !.sent = <<>>]
  /\ Spend("losses")

\* The server finds out that a connection is gone.
Notice(s) ==
  /\ s \in world.open \ {world.sock}
  /\ \A i \in DOMAIN world.sent : world.sent[i].sock # s
  /\ world' = [world EXCEPT !.open = @ \ {s}, !.holder = IF @ = s THEN 0 ELSE @]
  /\ Free

TimerFires == world.timer /\ world' = Recover([world EXCEPT !.timer = FALSE]) /\ Free

\* requestSessionRecovery: the page is shown again, or back online.
Lifecycle ==
  /\ world.view = "app" /\ ~world.media /\ world.sock # 0
  /\ world' = Recover(world) /\ Spend("changes")

\* completeCredentialLogin applies the cookie with a new connection.
Login ==
  /\ world.kind # "guest" /\ world.view = "login" /\ \A t \in world.tasks : t.of # "login"
  /\ \E p \in Prods :
       \E w \in Identified(IF world.sock = 0 THEN world ELSE Dropped(world)) :
         world' = [w EXCEPT !.prod = p, !.tasks = @ \cup {Task(w, "login", "socket")}]
  /\ Spend("logins")

\* A guest needs no cookie, so the connection is kept.
GuestLogin ==
  /\ world.kind = "guest" /\ world.view = "login" /\ \A t \in world.tasks : t.of # "login"
  /\ world.sock # 0 /\ \E p \in Prods : world' = Register([world EXCEPT !.prod = p], "login", FALSE)
  /\ Spend("logins")

\* A page that is loaded anew shows the intercom to the guest it knows at once.
GuestReturns ==
  /\ world.kind = "guest" /\ world.view = "login" /\ world.tasks = {} /\ world.gen = 0
  /\ world' = Recover([world EXCEPT !.view = "app"])
  /\ Spend("logins")

LoginTimeout ==
  /\ \E t \in world.tasks : t.at = "socket" /\ world' = [world EXCEPT !.tasks = @ \ {t}]
  /\ Spend("losses")

\* The selection of a production.
Switch(p) ==
  /\ world.view = "app" /\ world.kind # "feed" /\ world.sock # 0 /\ p # world.prod
  /\ \A t \in world.tasks : t.of # "switch"
  /\ world' = [world EXCEPT !.tasks = @ \cup {Task(world, "switch", "switch")},
                            !.sent = Append(@, [what |-> "switch", of |-> "switch", gen |-> world.gen, n |-> 0,
                                                sock |-> world.sock, force |-> FALSE, prod |-> p])]
  /\ Spend("changes")

Logout ==
  /\ world.view = "app"
  /\ world' = LET w == End([world EXCEPT !.valid = @ \ {world.cookie}]) IN
              IF w.holder = world.sock /\ world.sock # 0
              THEN [w EXCEPT !.holder = 0, !.open = @ \ {world.sock}] ELSE w
  /\ Free

\* The account signs on at another device, which insists; and leaves it.
Elsewhere ==
  /\ world.kind # "guest" /\ world.holder # Other
  /\ world' = [Kick(world, world.holder) EXCEPT !.holder = Other]
  /\ Spend("changes")

ElsewhereEnds == world.holder = Other /\ world' = [world EXCEPT !.holder = 0] /\ Free

\* The browser session expires, or the account is removed.
Expire == world.valid # {} /\ world' = [world EXCEPT !.valid = {}] /\ Spend("changes")

Init ==
  /\ left \in Attempts
  /\ \E kind \in {"user", "feed", "guest"}, p \in Prods, valid \in {{}, {1}} :
       /\ kind = "guest" => valid = {}
       /\ world = [kind |-> kind, view |-> "login", sock |-> 1, gen |-> 0, last |-> 1, previous |-> 0, prod |-> p,
                cookie |-> 1, tasks |-> {}, timer |-> FALSE, media |-> FALSE, mgen |-> 0, init |-> NoInit,
                sent |-> <<>>, acks |-> <<>>, open |-> {1}, hand |-> [s \in 1 .. Connections |-> IF s = 1 THEN 1 ELSE 0],
                valid |-> valid, holder |-> 0, served |-> p, hung |-> FALSE]

Next ==
  \/ Handle \/ Hear \/ MediaStep \/ MediaFails \/ Connect \/ Disconnect \/ Restart \/ TimerFires
  \/ Lifecycle \/ Login \/ GuestLogin \/ GuestReturns \/ LoginTimeout \/ Logout \/ Elsewhere \/ ElsewhereEnds \/ Expire
  \/ \E t \in world.tasks : Timeout(t)
  \/ \E s \in 1 .. Connections : Notice(s)
  \/ \E p \in Prods : Switch(p)

Spec == Init /\ [][Next]_vars

TypeOK ==
  /\ world.view \in {"login", "app", "ended"} /\ world.sock \in 0 .. Connections
  /\ world.holder \in (0 .. Connections) \cup {Other} /\ world.open \subseteq 1 .. Connections
  /\ {world.prod, world.served} \subseteq Prods /\ world.init.at \in {"none", "ask", "consume"}
  /\ world.media => world.sock # 0

(***************************************************************************)
(* Property.                                                               *)
(***************************************************************************)
Settled ==
  /\ world.sent = <<>> /\ world.acks = <<>> /\ world.tasks = {} /\ world.init = NoInit
  /\ ~world.timer /\ world.sock # 0 /\ ~world.hung

\* However often the connection was lost, requests were slow, the page signed on
\* elsewhere or tried again while it tried already: a page that shows the
\* intercom and waits for nothing is registered with its present connection, in
\* the production it shows, and has its media.  No attempt is forgotten, and
\* none that began on a former connection undoes a later one.
SettledMeansConnected ==
  Settled /\ world.view = "app" =>
    world.media /\ world.holder = world.sock /\ world.served = world.prod
==============================================================================
