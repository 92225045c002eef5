------------------------------ MODULE Directory ------------------------------
(***************************************************************************)
(* The database of users, conferences, feeds and productions (db.js,       *)
(* dbHandler.js), the requests of administrators that change it            *)
(* (serverCore.js), the restore of a backup, and the button lists of the   *)
(* web clients, which refetch theirs when the server tells them to.        *)
(*                                                                         *)
(* A database is one record of relations.  Names, passwords and settings   *)
(* of entities are left out, and so are the sessions of guests.  A button  *)
(* is the user, conference or feed it addresses.                           *)
(***************************************************************************)
EXTENDS Naturals, SequencesExt

CONSTANTS
  Users, Confs, Feeds, Productions,
  Guest,        \* the profile of the guests; there is none when it is not one of Users
  None,
  Bundles,      \* databases of older releases: backups, or to be upgraded
  Budgets       \* how many edits and imports a behaviour may have

Targets == Users \cup Confs \cup Feeds
Entities == Targets \cup Productions
Rows == Productions \X Users \X Targets
Lists == Productions \X Users

VARIABLES
  db,         \* the tables
  issued,     \* sqlite_sequence: ids that are not given out again
  multiple,   \* multipleProductions of the server's configuration
  backup,     \* an exported configuration, or None
  peers,      \* per user the session of its page: production and button list
  imported,   \* a configuration was imported and the server not restarted yet
  left

vars == <<db, issued, multiple, backup, peers, imported, left>>

(***************************************************************************)
(* Tables.  order is production_target_order: the buttons of a user in a   *)
(* production by ascending position; positions are never equal.            *)
(***************************************************************************)
Databases ==
  [users : SUBSET Users, confs : SUBSET Confs, feeds : SUBSET Feeds,
   prods : SUBSET Productions, primary : SUBSET Productions,
   members : SUBSET Lists, pconfs : SUBSET (Productions \X Confs),
   pfeeds : SUBSET (Productions \X Feeds), hears : SUBSET (Productions \X Users \X Confs),
   talks : SUBSET (Productions \X Users \X Confs), targets : SUBSET Rows,
   order : [Lists -> Seq(Targets)]]

Productions_Of(d, u) == {p \in d.prods : <<p, u>> \in d.members}

\* The rows of a list that are in S, in their order.
Kept(q, S) ==
  LET kept[n \in 0 .. Len(q)] ==
        IF n = 0 THEN <<>> ELSE IF q[n] \in S THEN Append(kept[n - 1], q[n]) ELSE kept[n - 1]
  IN  kept[Len(q)]

\* getPrimaryProduction.
Primary(d) == CHOOSE p \in d.prods : d.primary = {} \/ p \in d.primary

\* getProductionTargets, as a set: rows whose target left are hidden.
Visible(d, p, u) ==
     {t \in d.users \ {Guest} : <<p, u, t>> \in d.targets /\ <<p, t>> \in d.members}
  \cup {c \in d.confs : <<p, u, c>> \in d.hears}
  \cup {f \in d.feeds : <<p, u, f>> \in d.targets /\ <<p, f>> \in d.pfeeds}

\* The answer to GET /users/:id/targets: what is shown, where one may talk,
\* and the order of the buttons that have a position.
ListOf(d, p, u) ==
  [shown |-> Visible(d, p, u),
   talks |-> {c \in Confs : <<p, u, c>> \in d.talks},
   order |-> Kept(d.order[<<p, u>>], Visible(d, p, u))]

EmptyList == [shown |-> {}, talks |-> {}, order |-> <<>>]

Append1(d, p, u, x) ==
  IF x \in Range(d.order[<<p, u>>]) THEN d.order
  ELSE [d.order EXCEPT ![<<p, u>>] = Append(@, x)]

\* Deletes rows of the four tables about the buttons of users.
Purge(d, gone) ==
  [d EXCEPT !.hears = @ \ gone, !.talks = @ \ gone, !.targets = @ \ gone,
            !.order = [k \in Lists |-> Kept(d.order[k], {x \in Targets : <<k[1], k[2], x>> \notin gone})]]

SetProductionUser(d, p, u) == [d EXCEPT !.members = @ \cup {<<p, u>>}]

\* A variant: the rows that have the user as their target stay.
RemoveProductionUserOneWay(d, p, u) ==
  [Purge(d, {r \in Rows : r[1] = p /\ r[2] = u}) EXCEPT !.members = @ \ {<<p, u>>}]

RemoveProductionUser(d, p, u) ==
  [Purge(d, {r \in Rows : r[1] = p /\ u \in {r[2], r[3]}}) EXCEPT !.members = @ \ {<<p, u>>}]

SetProductionConference(d, p, c) == [d EXCEPT !.pconfs = @ \cup {<<p, c>>}]
SetProductionFeed(d, p, f)       == [d EXCEPT !.pfeeds = @ \cup {<<p, f>>}]

RemoveProductionConference(d, p, c) ==
  [Purge(d, {r \in Rows : r[1] = p /\ r[3] = c}) EXCEPT !.pconfs = @ \ {<<p, c>>}]

RemoveProductionFeed(d, p, f) ==
  [Purge(d, {r \in Rows : r[1] = p /\ r[3] = f}) EXCEPT !.pfeeds = @ \ {<<p, f>>}]

SetMembership(d, p, u, c) ==
  [d EXCEPT !.hears = @ \cup {<<p, u, c>>}, !.talks = @ \cup {<<p, u, c>>}, !.order = Append1(d, p, u, c)]

SetListenOnly(d, p, u, c) ==
  [d EXCEPT !.hears = @ \cup {<<p, u, c>>}, !.talks = @ \ {<<p, u, c>>}, !.order = Append1(d, p, u, c)]

\* validateProductionTarget.
Valid(d, p, u, x) ==
  /\ <<p, u>> \in d.members
  /\ \/ x \in d.users \ {u, Guest} /\ <<p, x>> \in d.members
     \/ x \in Confs /\ <<p, u, x>> \in d.hears
     \/ x \in Feeds /\ <<p, x>> \in d.pfeeds

AddTarget(d, p, u, x) ==
  [d EXCEPT !.targets = @ \cup {<<p, u, x>>}, !.order = Append1(d, p, u, x)]

RemoveTarget(d, p, u, x) == Purge(d, {<<p, u, x>>})

Reorder(d, p, u, items) == [d EXCEPT !.order[<<p, u>>] = items]

DeleteProduction(d, p, heir) ==
  [Purge(d, {r \in Rows : r[1] = p}) EXCEPT
     !.members = {m \in @ : m[1] # p}, !.pconfs = {m \in @ : m[1] # p}, !.pfeeds = {m \in @ : m[1] # p},
     !.prods = @ \ {p}, !.primary = IF p \in @ THEN {heir} ELSE @]

DeleteUser(d, u) ==
  [Purge(d, {r \in Rows : u \in {r[2], r[3]}}) EXCEPT
     !.members = {m \in @ : m[2] # u}, !.users = @ \ {u}]

DeleteConference(d, c) ==
  [Purge(d, {r \in Rows : r[3] = c}) EXCEPT !.pconfs = {m \in @ : m[2] # c}, !.confs = @ \ {c}]

DeleteFeed(d, f) ==
  [Purge(d, {r \in Rows : r[3] = f}) EXCEPT !.pfeeds = {m \in @ : m[2] # f}, !.feeds = @ \ {f}]

(***************************************************************************)
(* Older databases.  A bundle has in addition the tables of the time when  *)
(* there were no productions: gtargets (users and feeds as targets),       *)
(* ghears (conferences one is in), gtalks (conferences one talks to) and   *)
(* gorder; and of the first releases with them ctargets, the conferences   *)
(* among production_user_targets.  scoped tells whether it has the tables  *)
(* pconfs, pfeeds and hears.                                               *)
(***************************************************************************)
Older == {"gtargets", "ghears", "gtalks", "gorder", "ctargets", "scoped"}
Tables(b) == [f \in DOMAIN b \ Older |-> b[f]]

\* What the first releases with productions implied, made explicit.
Inferred(b) ==
  LET joined == {r \in Productions \X Users \X Confs :
                   <<r[1], r[2]>> \in b.members /\ <<r[2], r[3]>> \in b.ghears \cup b.gtalks}
  IN  [b EXCEPT !.pconfs = @ \cup {<<r[1], r[3]>> : r \in b.ctargets \cup joined},
                !.pfeeds = @ \cup {<<r[1], r[3]>> : r \in {t \in b.targets : t[3] \in Feeds}},
                !.hears  = @ \cup joined,
                !.talks  = @ \cup (joined \ b.hears)]

\* The layout without productions as the production p, with the given
\* memberships in conferences and the given order.
Materialized(b, p, hears, order) ==
  LET rows == {<<p, h[1], h[2]>> : h \in hears} IN
  [b EXCEPT !.prods = @ \cup {p}, !.primary = {p},
            !.members = @ \cup ({p} \X b.users), !.pconfs = @ \cup ({p} \X b.confs),
            !.pfeeds = @ \cup ({p} \X b.feeds),
            !.hears = @ \cup rows, !.talks = @ \cup rows,
            !.targets = @ \cup {<<p, t[1], t[2]>> : t \in b.gtargets},
            !.order = [k \in Lists |-> IF k[1] = p THEN order[k[2]] ELSE b.order[k]]]

Fresh(b) == IF Productions \subseteq b.prods THEN None ELSE CHOOSE p \in Productions : p \notin b.prods

\* The migrations of db.js when a server of this release first opens b.
Upgraded(b, p) ==
  LET hears   == b.ghears \cup b.gtalks
      missing(u) == {c \in b.confs : <<u, c>> \in hears} \ Range(b.gorder[u])
      scoped  == Inferred(b)
      rows    == {r \in b.ctargets : <<r[1], r[2]>> \in b.members}
  IN  Tables(Materialized([scoped EXCEPT !.hears = @ \cup rows, !.talks = @ \cup (rows \ scoped.hears)],
                          p, hears, [u \in Users |-> b.gorder[u] \o SetToSeq(missing(u))]))

\* importDatabaseSnapshot: the tables without productions are cleared of their
\* conferences before a primary production is made of them.
Imported(b, p) ==
  LET scoped == IF b.scoped THEN b ELSE Inferred(b) IN
  Tables(IF b.prods = {}
         THEN Materialized(scoped, p, {}, [u \in Users |-> Kept(b.gorder[u], Users \cup Feeds)])
         ELSE [scoped EXCEPT !.primary = {Primary(b)}])

\* exportDatabaseSnapshot.
Exported(d) ==
  LET none == [gtargets |-> {}, ghears |-> {}, gtalks |-> {}, ctargets |-> {},
               gorder |-> [u \in Users |-> <<>>], scoped |-> TRUE]
  IN  [f \in DOMAIN d \cup Older |-> IF f \in Older THEN none[f] ELSE d[f]]

OlderDatabases ==
  [users : SUBSET Users, confs : SUBSET Confs, feeds : SUBSET Feeds,
   prods : SUBSET Productions, primary : SUBSET Productions,
   members : SUBSET Lists, pconfs : SUBSET (Productions \X Confs),
   pfeeds : SUBSET (Productions \X Feeds), hears : SUBSET (Productions \X Users \X Confs),
   talks : SUBSET (Productions \X Users \X Confs), targets : SUBSET Rows,
   order : [Lists -> Seq(Targets)],
   gtargets : SUBSET (Users \X Targets), ghears : SUBSET (Users \X Confs),
   gtalks : SUBSET (Users \X Confs), gorder : [Users -> Seq(Targets)],
   ctargets : SUBSET (Productions \X Users \X Confs), scoped : BOOLEAN]

\* What the keys of an older database and the server that wrote it ensure: a
\* row names what exists, and a position is one of a button the user has.
WellFormed(b) ==
  LET in == b.ghears \cup b.gtalks IN
  /\ b \in OlderDatabases
  /\ b.primary \subseteq b.prods /\ b.members \subseteq b.prods \X b.users
  /\ b.pconfs \subseteq b.prods \X b.confs /\ b.pfeeds \subseteq b.prods \X b.feeds
  /\ b.talks \subseteq b.hears
  /\ \A r \in b.hears : <<r[1], r[2]>> \in b.members /\ <<r[1], r[3]>> \in b.pconfs
  /\ \A r \in b.targets :
       /\ <<r[1], r[2]>> \in b.members /\ r[3] \notin Confs
       /\ r[3] \in Users => <<r[1], r[3]>> \in b.members
       /\ r[3] \in Feeds => IF b.scoped THEN <<r[1], r[3]>> \in b.pfeeds ELSE r[3] \in b.feeds
  /\ \A r \in b.ctargets : r[1] \in b.prods /\ r[3] \in b.confs
  /\ b.gtargets \subseteq b.users \X (b.users \cup b.feeds) /\ in \subseteq b.users \X b.confs
  /\ \A k \in Lists : \A x \in Range(b.order[k]) :
       /\ k \in b.members
       /\ x \in Confs => <<k[1], k[2], x>> \in b.hears \/ (~b.scoped /\ <<k[2], x>> \in in)
       /\ x \notin Confs => \/ <<k[1], x>> \in b.members \cup b.pfeeds
                            \/ ~b.scoped /\ <<k[1], k[2], x>> \in b.targets
  /\ \A u \in Users : \A x \in Range(b.gorder[u]) :
       /\ u \in b.users
       /\ IF x \in Confs THEN <<u, x>> \in in ELSE x \in b.users \cup b.feeds
  /\ \A k \in Lists : IsInjective(b.order[k])
  /\ \A u \in Users : IsInjective(b.gorder[u])

\* The kinds of targets are tables of their own, and a conference is none of
\* the notices without one; an older database leaves an id for the production
\* that is made of it.
DirectoryAssumption ==
  /\ IsFiniteSet(Targets)
  /\ Users \cap Confs = {} /\ Users \cap Feeds = {} /\ Confs \cap Feeds = {}
  /\ None \notin Productions /\ Confs \cap {"reset", "targets", "any"} = {}
  /\ Budgets \subseteq [edits : Nat, imports : Nat]
  /\ \A b \in Bundles : WellFormed(b) /\ ~(Productions \subseteq b.prods)

(***************************************************************************)
(* The pages.                                                              *)
(***************************************************************************)
Pages ==
  [prod : Productions \cup {None},
   list : [shown : SUBSET Targets, talks : SUBSET Confs, order : Seq(Targets)],
   notices : SUBSET (Confs \cup {"reset", "targets", "any"}),
   refused : BOOLEAN, strayed : BOOLEAN, on : BOOLEAN]

\* strayed is a history: the server moved the page to a production whose list it
\* does not get, having none or, with one production in use, another than that.
Off ==
  [prod |-> None, list |-> EmptyList, notices |-> {}, refused |-> FALSE, strayed |-> FALSE, on |-> FALSE]

Page(d, p, u) == [Off EXCEPT !.prod = p, !.list = ListOf(d, p, u), !.on = TRUE]

\* The production whose list a page asks for.
ScopeOf(u) == IF multiple /\ peers[u].prod # None THEN peers[u].prod ELSE Primary(db)

Tell(ps, who, notice) ==
  [u \in Users |-> IF ps[u].on /\ u \in who THEN [ps[u] EXCEPT !.notices = @ \cup {notice}] ELSE ps[u]]

\* notifyTargetChange.
TellTargets(ps, u) == Tell(ps, {u}, "targets")

\* notifyConferenceMembersChanged; "any" is the notice without a conference.
TellMembers(ps, c, except) == Tell(ps, Users \ except, c)

\* resetPeersUsingProduction, with the tables d after the change.
Fallback(d, u) ==
  IF Productions_Of(d, u) = {} THEN None
  ELSE IF Primary(d) \in Productions_Of(d, u) THEN Primary(d)
  ELSE CHOOSE q \in Productions_Of(d, u) : TRUE

ResetPeers(ps, d, p, who) ==
  [u \in Users |->
     IF ps[u].on /\ u \in who /\ ps[u].prod = p
     THEN [ps[u] EXCEPT !.prod = Fallback(d, u), !.notices = @ \cup {"reset", "targets", "any"},
                        !.strayed = @ \/ Fallback(d, u) \notin IF multiple THEN Productions ELSE {Primary(d)}]
     ELSE ps[u]]

TypeOK ==
  /\ db \in Databases
  /\ issued \subseteq Entities /\ multiple \in BOOLEAN /\ imported \in BOOLEAN /\ left \in [edits : Nat, imports : Nat]
  /\ peers \in [Users -> Pages]

\* A server starts with a database that its release upgraded; by and by everybody
\* has opened the page.
Init ==
  /\ \E b \in Bundles : db = Upgraded(b, Fresh(b))
  /\ issued = db.users \cup db.confs \cup db.feeds \cup db.prods
  /\ multiple \in BOOLEAN
  /\ backup = None /\ imported = FALSE /\ left \in Budgets
  /\ peers = [u \in Users |-> IF u \in db.users \ {Guest} THEN Page(db, Primary(db), u) ELSE Off]

(***************************************************************************)
(* Requests of administrators.                                             *)
(***************************************************************************)
Change(d, ps) ==
  /\ left.edits > 0 /\ left' = [left EXCEPT !.edits = @ - 1]
  /\ db' = d /\ peers' = ps

\* The entity x gets an id; with one production in use it goes there at once.
Create ==
  /\ \E x \in Entities \ issued :
       LET p == Primary(db)
           new == [db EXCEPT !.users = @ \cup ({x} \cap Users), !.confs = @ \cup ({x} \cap Confs),
                             !.feeds = @ \cup ({x} \cap Feeds), !.prods = @ \cup ({x} \cap Productions)]
       IN  /\ x # Guest
           /\ Change(IF multiple \/ x \in Productions THEN new
                     ELSE IF x \in Users THEN SetProductionUser(new, p, x)
                     ELSE IF x \in Confs THEN SetProductionConference(new, p, x)
                     ELSE SetProductionFeed(new, p, x), peers)
           /\ issued' = issued \cup {x}
  /\ UNCHANGED <<multiple, backup, imported>>

EditMembers ==
  /\ \E p \in db.prods, u \in db.users :
       \/ /\ <<p, u>> \notin db.members
          /\ Change(SetProductionUser(db, p, u), TellTargets(peers, u))
       \/ LET d == RemoveProductionUser(db, p, u) IN
          /\ <<p, u>> \in db.members
          /\ Change(d, TellTargets(ResetPeers(peers, d, p, {u}), u))
  /\ UNCHANGED <<issued, multiple, backup, imported>>

EditContents ==
  /\ \E p \in db.prods :
       \/ \E c \in db.confs :
            \/ Change(SetProductionConference(db, p, c), peers)
            \/ Change(RemoveProductionConference(db, p, c), TellMembers(peers, c, {}))
       \/ \E f \in db.feeds :
            \/ Change(SetProductionFeed(db, p, f), peers)
            \/ Change(RemoveProductionFeed(db, p, f), peers)
  /\ UNCHANGED <<issued, multiple, backup, imported>>

TellMembership(ps, u, c) == TellMembers(TellTargets(ps, u), c, {})

EditMemberships ==
  /\ \E m \in db.members, c \in db.confs :
       LET p == m[1]  u == m[2]  told == TellMembership(peers, u, c) IN
       \/ /\ <<p, c>> \in db.pconfs
          /\ \/ Change(SetMembership(db, p, u, c), told)
             \/ Change(SetListenOnly(db, p, u, c), told)
       \/ /\ <<p, u, c>> \in db.hears
          /\ Change(RemoveTarget(db, p, u, c), told)
  /\ UNCHANGED <<issued, multiple, backup, imported>>

EditTargets ==
  /\ \E m \in db.members, x \in Users \cup Feeds :
       LET p == m[1]  u == m[2] IN
       \/ /\ Valid(db, p, u, x)
          /\ Change(AddTarget(db, p, u, x), TellTargets(peers, u))
       \/ /\ <<p, u, x>> \in db.targets
          /\ Change(RemoveTarget(db, p, u, x), TellTargets(peers, u))
  /\ UNCHANGED <<issued, multiple, backup, imported>>

\* The matrix page sends the order it has, which may be of an earlier time.
ReorderByAdmin ==
  /\ \E m \in db.members :
       \E T \in SUBSET {x \in Targets : Valid(db, m[1], m[2], x)} : \E items \in SetToSeqs(T) :
         Change(Reorder(db, m[1], m[2], items), TellTargets(peers, m[2]))
  /\ UNCHANGED <<issued, multiple, backup, imported>>

\* A user arranges its own buttons: all it has, each once.
ReorderByUser ==
  /\ \E u \in db.users \ {Guest} :
       /\ peers[u].on /\ <<ScopeOf(u), u>> \in db.members
       /\ \E items \in SetToSeqs(Visible(db, ScopeOf(u), u)) :
            Change(Reorder(db, ScopeOf(u), u, items), TellTargets(peers, u))
  /\ UNCHANGED <<issued, multiple, backup, imported>>

DeleteEntity ==
  /\ \/ \E p \in db.prods : \E heir \in db.prods \ {p} :
          LET d == DeleteProduction(db, p, heir) IN Change(d, ResetPeers(peers, d, p, Users))
     \/ \E u \in db.users \ {Guest} : Change(DeleteUser(db, u), TellMembers(peers, "any", {}))
     \/ \E c \in db.confs : Change(DeleteConference(db, c), TellMembers(peers, c, {}))
     \/ \E f \in db.feeds : Change(DeleteFeed(db, f), peers)
  /\ UNCHANGED <<issued, multiple, backup, imported>>

\* PUT /admin/settings/multiple-productions.
SetMultipleProductions ==
  /\ left.edits > 0 /\ left' = [left EXCEPT !.edits = @ - 1]
  /\ multiple' = ~multiple
  /\ peers' = IF ~multiple THEN peers
              ELSE [u \in Users |->
                      IF ~peers[u].on THEN peers[u]
                      ELSE [peers[u] EXCEPT !.prod = Primary(db), !.strayed = FALSE,
                              !.notices = @ \cup {"targets", "any"}
                                \cup (IF peers[u].prod = Primary(db) THEN {} ELSE {"reset"})]]
  /\ UNCHANGED <<db, issued, backup, imported>>

ExportConfig ==
  /\ left.imports > 0 /\ backup = None
  /\ backup' = [config |-> multiple, database |-> Exported(db)]
  /\ UNCHANGED <<db, issued, multiple, peers, imported, left>>

\* POST /admin/config/import.  Nobody is told: the answer asks for a restart.
ImportConfig(mode, b) ==
  /\ left.imports > 0 /\ left' = [left EXCEPT !.imports = @ - 1]
  /\ db' = Imported(b, Fresh(b))
  /\ issued' = db'.users \cup db'.confs \cup db'.feeds \cup db'.prods \cup (issued \cap Productions)
  /\ multiple' = mode /\ imported' = TRUE
  /\ UNCHANGED <<backup, peers>>

Import ==
  \/ backup # None /\ ImportConfig(backup.config, backup.database)
  \/ \E b \in Bundles : ImportConfig(multiple, b)

Restart ==
  /\ imported /\ imported' = FALSE
  /\ peers' = [u \in Users |-> Off]
  /\ UNCHANGED <<db, issued, multiple, backup, left>>

(***************************************************************************)
(* The page of a user.                                                     *)
(***************************************************************************)
\* resolveActiveProductionSelection: a selection, or else the primary
\* production, or else the first assigned.
Selectable(u) ==
  IF multiple THEN Productions_Of(db, u)
  ELSE {Primary(db)} \cap Productions_Of(db, u)

Register(u) ==
  /\ ~peers[u].on /\ u \in db.users \ {Guest}
  /\ \E p \in Selectable(u) : peers' = [peers EXCEPT ![u] = Page(db, p, u)]
  /\ UNCHANGED <<db, issued, multiple, backup, imported, left>>

SetActiveProduction(u) ==
  /\ peers[u].on /\ multiple
  /\ \E p \in Productions_Of(db, u) \ {peers[u].prod} :
       peers' = [peers EXCEPT ![u].prod = p, ![u].list = ListOf(db, p, u), ![u].refused = FALSE,
                                     ![u].strayed = FALSE]
  /\ UNCHANGED <<db, issued, multiple, backup, imported, left>>

\* The page handles the notices it has: it fetches its list, except for a
\* notice about a conference it does not show.  A refused fetch changes nothing.
Notices(u) ==
  LET p == ScopeOf(u)
      rest == [peers[u] EXCEPT !.notices = {}]
  IN  /\ peers[u].notices # {}
      /\ peers' = [peers EXCEPT ![u] =
           IF peers[u].notices \subseteq Confs \ peers[u].list.shown THEN rest
           ELSE IF <<p, u>> \in db.members THEN [rest EXCEPT !.list = ListOf(db, p, u), !.refused = FALSE]
           ELSE [rest EXCEPT !.refused = TRUE]]
      /\ UNCHANGED <<db, issued, multiple, backup, imported, left>>

Next ==
  \/ Create \/ EditMembers \/ EditContents \/ EditMemberships \/ EditTargets
  \/ ReorderByAdmin \/ ReorderByUser \/ DeleteEntity \/ SetMultipleProductions
  \/ ExportConfig \/ Import \/ Restart
  \/ \E u \in Users : Register(u) \/ SetActiveProduction(u) \/ Notices(u)

Spec == Init /\ [][Next]_vars

(***************************************************************************)
(* Properties.                                                             *)
(***************************************************************************)
\* Whatever administrators do and restore, in whatever order, no row of the
\* matrix is left behind: each button, membership and position belongs to a
\* member of its production and addresses what the production has, positions
\* are unambiguous, and exactly one production is the primary one.
MatrixSound ==
  /\ Cardinality(db.primary) = 1 /\ db.primary \subseteq db.prods
  /\ db.members \subseteq db.prods \X db.users
  /\ db.pconfs \subseteq db.prods \X db.confs /\ db.pfeeds \subseteq db.prods \X db.feeds
  /\ db.talks \subseteq db.hears
  /\ \A r \in db.hears : <<r[1], r[2]>> \in db.members /\ <<r[1], r[3]>> \in db.pconfs
  /\ \A r \in db.targets : <<r[1], r[2]>> \in db.members
                           /\ <<r[1], r[3]>> \in db.members \cup db.pfeeds
  /\ \A k \in Lists : \A x \in Range(db.order[k]) :
       /\ <<k[1], k[2]>> \in db.members
       /\ x \in Confs => <<k[1], k[2], x>> \in db.hears
       /\ x \notin Confs => <<k[1], x>> \in db.members \cup db.pfeeds
  /\ \A k \in Lists : IsInjective(db.order[k])

\* A page that has handled its notices shows every button its user has, may
\* talk where it may, in the order last arranged.  It may still show a user or
\* feed that left its production, since those who had it are not told.
PagesFollow ==
  \A u \in Users :
    LET p == ScopeOf(u)
        now == ListOf(db, p, u)
        list == peers[u].list
    IN  /\ peers[u].on /\ peers[u].notices = {} /\ ~peers[u].refused /\ ~peers[u].strayed
        /\ ~imported /\ <<p, u>> \in db.members
        => /\ now.shown \subseteq list.shown
           /\ list.shown \ now.shown \subseteq Users \cup Feeds
           /\ now.talks = list.talks
           /\ Kept(list.order, now.shown) = now.order
\* What is stored and what the pages show of it.
MatrixFollowed == MatrixSound /\ PagesFollow
==============================================================================
