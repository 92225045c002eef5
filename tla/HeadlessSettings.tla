-------------------------- MODULE HeadlessSettings --------------------------
(***************************************************************************)
(* The settings of a headless client in its web interface: the form of     *)
(* web/assets/app.js over three documents (what the client runs with, what *)
(* its file says, what the form shows), and config_api.rs, which writes    *)
(* the file.  The client reads the file only when it starts.  Loads and    *)
(* saves take time: the form is edited meanwhile, the file is written by   *)
(* others, the client restarts.                                            *)
(*                                                                         *)
(* A document maps a field to a value or Absent.  There is one field for   *)
(* each way the code treats them: a nullable text, a checkbox, a password, *)
(* the GPIO outputs (an object of which one entry is modelled, alone in    *)
(* its section), the list of Stream Decks, and a section without a field.  *)
(***************************************************************************)
EXTENDS Naturals, Sequences, SequencesExt

CONSTANTS
  None,
  Files,       \* what the file may say at first, and what others write
  Attempts     \* bounds: edits, saves, others, restarts, as records left

VARIABLES
  world,   \* the client and its file
  page,    \* the form, and what is on its way between them
  left     \* what may still happen

vars == <<world, page, left>>

Absent == "absent"
Empty == "empty"        \* null, no entry, an empty list
Hidden == "hidden"      \* REDACTED
Fields == {"text", "flag", "password", "outputs", "decks"}
Keys == Fields \cup {"other"}
Default == [f \in Keys |-> IF f = "flag" THEN "on" ELSE Empty]
Input == [f \in Fields |-> IF f = "flag" THEN {"on", "off"} ELSE {"a", "b", Empty}]

\* A file is a document, and the password in it is not the placeholder of one.
SettingsAssumption == \A doc \in Files : DOMAIN doc = Keys /\ doc["password"] # Hidden

\* config::from_document: what the client makes of a file.
Effective(doc) == [f \in Keys |-> IF doc[f] = Absent THEN Default[f] ELSE doc[f]]
\* redact, Config::redacted
Redact(doc) == [doc EXCEPT !["password"] = IF @ \in {Absent, Empty} THEN @ ELSE Hidden]

\* merge_file_over_running, and mergeFileOverRunning: entries of an object are merged one by one.
Merged(file, running) ==
  [f \in Keys |-> IF file[f] = Absent \/ (f = "outputs" /\ file[f] = Empty) THEN running[f] ELSE file[f]]

(***************************************************************************)
(* save_document: sections that are not sent stay, and so do secrets sent  *)
(* as a placeholder; null is written as absence (strip_nulls).             *)
(***************************************************************************)
Section(f) == f \in {"outputs", "other"}
Secret(doc, stored, running) ==
  IF doc \notin {Hidden, Empty} THEN doc
  ELSE IF stored # Absent THEN stored ELSE running
Written(doc, stored, running) ==
  [f \in Keys |->
    CASE Section(f) /\ doc[f] = Absent -> stored[f]
      [] f = "password" -> Secret(doc[f], stored[f], running[f])
      [] f = "text" /\ doc[f] = Empty -> Absent
      [] OTHER -> doc[f]]

-----------------------------------------------------------------------------
(***************************************************************************)
(* The page.  file, running: state.fileDoc, state.runningDoc; form: what   *)
(* the inputs show; raw: the text of the raw editor, when it is shown.     *)
(* edited: fields changed since the form was drawn; redrawn: it was drawn  *)
(* from the raw editor.                                                    *)
(***************************************************************************)
\* renderField: an unchecked box for what is not there.
Drawn(doc) ==
  [f \in Fields |-> IF doc[f] # Absent THEN doc[f] ELSE IF f = "flag" THEN "off" ELSE Empty]
\* renderSettingsForm
DrawForm(p, doc) == [p EXCEPT !.form = Drawn(doc), !.edited = {}]

\* What collectDocument leaves out: it is not in the file and the client runs with it.
LeftOut(p, f) == p.file[f] = Absent /\ p.form[f] = p.running[f]

\* collectDocument
Value(p, f) ==
  CASE f = "outputs" -> IF p.file[f] = Absent /\ p.form[f] = Empty THEN Absent ELSE p.form[f]
    [] f = "decks" -> IF p.form[f] = Empty THEN Absent ELSE p.form[f]
    [] OTHER -> IF LeftOut(p, f) THEN p.file[f] ELSE p.form[f]
Collect(p) ==
  IF p.raw # None THEN p.raw
  ELSE [f \in Keys |-> IF f \in Fields THEN Value(p, f) ELSE p.file[f]]

Call(k, docs) == [k |-> k, sent |-> FALSE, docs |-> docs, ok |-> TRUE]
Send(p, c) == [p EXCEPT !.calls = Append(@, c)]
\* loadConfig: the request for both documents.
Load(p) == Send(p, Call("load", None))
\* loadConfig goes on; the raw text is what the form would save.
Loaded(p, docs) ==
  LET q == DrawForm([p EXCEPT !.file = docs.file, !.running = docs.running, !.redrawn = FALSE], docs.editor) IN
  IF p.raw = None THEN q ELSE [q EXCEPT !.raw = Collect([q EXCEPT !.raw = None])]

Unlisted == [f \in Keys |-> Absent]
Closed ==
  [file |-> Unlisted, running |-> Unlisted, form |-> Drawn(Unlisted), raw |-> None, shown |-> FALSE,
   edited |-> {}, redrawn |-> FALSE, calls |-> <<>>]

Init ==
  /\ \E file \in Files, old \in Files : world = [file |-> file, running |-> Effective(old), meant |-> None]
  /\ page = Closed
  /\ left \in Attempts

Spend(what) == left[what] > 0 /\ left' = [left EXCEPT ![what] = @ - 1]
Stays == UNCHANGED left

\* showView: the settings are loaded when they are shown for the first time.
Open == ~page.shown /\ page.calls = <<>> /\ page' = Load(page) /\ Stays /\ UNCHANGED world
\* The reload button.
AskAgain == page.shown /\ Spend("others") /\ page' = Load(page) /\ UNCHANGED world

\* The user changes a field, adds or removes a row.
Edit(f) ==
  /\ page.shown /\ page.raw = None /\ Spend("edits")
  /\ \E v \in Input[f] \ {page.form[f]} : page' = [page EXCEPT !.form[f] = v, !.edited = @ \cup {f}]
  /\ UNCHANGED world
\* The raw text is edited: a value, or its removal.
EditRaw(f) ==
  /\ page.raw # None /\ Spend("edits")
  /\ \E v \in (Input[f] \cup {Absent}) \ {page.raw[f]} : page' = [page EXCEPT !.raw[f] = v, !.edited = @ \cup {f}]
  /\ UNCHANGED world

\* toggleRaw: the form is drawn from the raw text alone.
ToggleRaw ==
  /\ page.shown /\ Spend("edits") /\ UNCHANGED world
  /\ IF page.raw = None THEN page' = [page EXCEPT !.raw = Collect(page)]
     ELSE page' = DrawForm([page EXCEPT !.file = page.raw, !.raw = None, !.redrawn = TRUE], page.raw)

\* saveConfig
Save ==
  /\ page.shown /\ Spend("saves") /\ UNCHANGED world
  /\ page' = Send(page, Call("save", [doc |-> Collect(page), page |-> page]))

\* What a form that is sent means for the file, as far as it says it: see SavedAsShown.
Unsaid(p) ==
  {f \in {"text", "flag", "password"} : LeftOut(p, f) /\ p.running[f] # Redact(Default)[f]}
  \cup {f \in {"outputs"} : Value(p, f) = Absent}
Meaning(p) == [f \in Fields \ (IF p.raw = None THEN Unsaid(p) ELSE Fields) |-> p.form[f]]

\* GET and PUT /api/config are handled; a document that is not valid is refused.
Handle(i) ==
  LET c == page.calls[i]
      answered == [page EXCEPT !.calls[i].sent = TRUE]
      docs == [file |-> Redact(world.file), running |-> Redact(world.running),
               editor |-> Merged(Redact(world.file), Redact(world.running))]
  IN /\ ~c.sent /\ Stays
     /\ \/ c.k = "load" /\ page' = [answered EXCEPT !.calls[i].docs = docs] /\ UNCHANGED world
        \/ /\ c.k = "save" /\ page' = answered
           /\ world' = [world EXCEPT !.file = Written(c.docs.doc, @, world.running), !.meant = Meaning(c.docs.page)]
Refuse(i) ==
  /\ page.calls[i].k = "save" /\ ~page.calls[i].sent /\ Spend("others") /\ UNCHANGED world
  /\ page' = [page EXCEPT !.calls = RemoveAt(@, i)]
\* The answer: a load is drawn, a save asks for a load.
Answer(i) ==
  LET c == page.calls[i]
      rest == [page EXCEPT !.calls = RemoveAt(@, i)]
  IN /\ c.sent /\ Stays /\ UNCHANGED world
     /\ page' = IF c.k = "load" THEN [Loaded(rest, c.docs) EXCEPT !.shown = TRUE] ELSE Load(rest)

\* Somebody else writes the file: another page, or by hand.
WriteElsewhere ==
  /\ Spend("others") /\ \E file \in Files \ {world.file} : world' = [world EXCEPT !.file = file, !.meant = None]
  /\ UNCHANGED page
\* The client starts again, with what the file says; its page stays as it is.
Restart ==
  /\ Spend("restarts") /\ world' = [world EXCEPT !.running = Effective(world.file)] /\ UNCHANGED page

Next ==
  \/ Open \/ AskAgain \/ ToggleRaw \/ Save \/ WriteElsewhere \/ Restart
  \/ \E f \in Fields : Edit(f) \/ EditRaw(f)
  \/ \E i \in DOMAIN page.calls : Handle(i) \/ Refuse(i) \/ Answer(i)

Spec == Init /\ [][Next]_vars

-----------------------------------------------------------------------------
TypeOK ==
  /\ \A f \in Keys : world.file[f] \in {"a", "b", "on", "off", Empty, Absent}
  /\ \A f \in Keys : world.running[f] \in {"a", "b", "on", "off", Empty}
  /\ \A f \in Fields : page.form[f] \in Input[f] \cup {Hidden}
  /\ page.edited \subseteq Fields /\ page.raw # None => \A f \in Keys : page.raw[f] # None

(***************************************************************************)
(* What was saved last is what the form said when it was sent, whatever    *)
(* the client ran with and whatever happened meanwhile: a field has the    *)
(* value it showed, and the placeholder of a password is never written.     *)
(* A field that showed what the client runs with, and which the file       *)
(* leaves to a default that differs, is not said by the form; nor are the  *)
(* outputs if neither the form nor the page's copy of the file has any.    *)
(***************************************************************************)
SavedAsShown ==
  /\ world.file["password"] # Hidden
  /\ world.meant # None =>
       \A f \in DOMAIN world.meant :
         Effective(world.file)[f] = world.meant[f] \/ (f = "password" /\ world.meant[f] \in {Hidden, Empty})

(***************************************************************************)
(* A form whose two documents are up to date shows, in every field that    *)
(* was not edited since, what the client will run with when it starts      *)
(* again.  Where the client still runs with something the file no longer   *)
(* says, the form shows that instead.                                      *)
(***************************************************************************)
Retired(p) == {f \in Fields : p.file[f] \in {Absent, Empty} /\ p.running[f] # Redact(Default)[f]}
ShownAsStored ==
  /\ page.shown /\ page.raw = None /\ ~page.redrawn
  /\ page.file = Redact(world.file) /\ page.running = Redact(world.running)
  => \A f \in Fields \ (page.edited \cup Retired(page)) : page.form[f] = Redact(Effective(world.file))[f]
SettingsKept == SavedAsShown /\ ShownAsStored
=============================================================================
