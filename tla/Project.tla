------------------------------ MODULE Project ------------------------------
(***************************************************************************)
(* The project's directory: `vignemale init` and `link` write its          *)
(* pyproject.toml, `deploy` reads the app's name there (init.py, link.py   *)
(* and deploy.py in vignemale_cli).                                        *)
(*                                                                         *)
(* link edits the file line by line, with its own idea of a header and of  *)
(* a key; deploy has it parsed as TOML.  So a pyproject.toml is the        *)
(* sequence of its lines, and the kinds of lines are what one of the two   *)
(* tells apart.                                                            *)
(***************************************************************************)
EXTENDS Account, SequencesExt

(* A line is <<kind, name>>, the name being the app of a line that has one:*)
(*   own       the header [tool.vignemale], alone on its line              *)
(*   oddOwn    that header with a comment after it or blanks in it         *)
(*   table     any other header                                            *)
(*   app       a line that sets app                                        *)
(*   oddApp    one whose key is in quotes                                  *)
(*   dotted    one that sets tool.vignemale.app without the header         *)
(*   nested    a line within a value, with a bracket first                 *)
(*   ownText, appText     lines of a long string like those above          *)
(*   key       any other line                                              *)
Kinds == {"own", "oddOwn", "table", "app", "oddApp", "dotted", "nested",
          "ownText", "appText", "key"}

Line(kind)       == <<kind, "">>
Entry(kind, app) == <<kind, app>>
AppLine(app)     == Entry("app", app)

CONSTANTS
  PyProjects,     (* what pyproject.toml may be before                     *)
  Dir             (* the name of the directory                             *)

(* Contents: none at all, the lines of a text, or what two writers leave.  *)
NoFile  == <<Line("no file")>>
Garbage == <<Line("garbage")>>

ASSUME ProjectAssumption ==
  PyProjects \subseteq Seq(Kinds \X STRING) \union {NoFile}

VARIABLES
  appPy,       (* app.py: "absent", "theirs" or the "template"             *)
  pyproject,
  before,      (* pyproject.toml as the commands found it; never changes   *)
  text,        (* per link: what it has read                               *)
  pushed       (* per deploy: the app it pushed to, or NoPush              *)

prVars == <<appPy, pyproject, before, text, pushed>>
pdVars == <<acVars, prVars>>

NoPush == "nothing pushed"

PrInit ==
  /\ appPy \in {"absent", "theirs"}
  /\ before \in PyProjects
  /\ pyproject = before
  /\ text = [p \in Procs |-> <<>>]
  /\ pushed = [p \in Procs |-> NoPush]

-----------------------------------------------------------------------------
Indices(lines, kinds) == {i \in DOMAIN lines : lines[i][1] \in kinds}

(* What link's comparisons and what a TOML parser take for the header of   *)
(* the section, for a header, and for a line of the section that sets app. *)
ByLink == [own     |-> {"own", "ownText"},
           headers |-> {"own", "ownText", "oddOwn", "table", "nested"},
           apps    |-> {"app", "appText"}]

ByToml == [own     |-> {"own", "oddOwn"},
           headers |-> {"own", "oddOwn", "table"},
           apps    |-> {"app", "oddApp"}]

(* The lines of the section whose header is line i.                        *)
Section(lines, i, by) ==
  LET headers == {j \in Indices(lines, by.headers) : j > i}
  IN  {k \in DOMAIN lines : k > i /\ \A j \in headers : k < j}

AppsIn(lines, by) ==
  (UNION {Section(lines, i, by) : i \in Indices(lines, by.own)})
     \intersect Indices(lines, by.apps)

(* The lines that set tool.vignemale.app.                                  *)
Apps(lines) == AppsIn(lines, ByToml) \union Indices(lines, {"dotted"})

(* A text a TOML parser takes: no header and no key is there twice, nor a  *)
(* header for what a dotted key has defined.                               *)
Parsed(lines) ==
  /\ \A i, j \in Indices(lines, ByToml.own) : i = j
  /\ \A i, j \in Apps(lines) : i = j
  /\ Indices(lines, {"dotted"}) = {} \/ Indices(lines, ByToml.own) = {}
  /\ Indices(lines, {"garbage"}) = {}

(* _app_name: the app of tool.vignemale, or the directory's name if there  *)
(* is none or the file cannot be parsed.                                   *)
AppName(lines) ==
  IF Parsed(lines) /\ Apps(lines) # {} THEN lines[Min(Apps(lines))][2] ELSE Dir

(* Mutant: the key is taken wherever it is.                                *)
ApplyAnywhere(lines, app) ==
  LET apps == Indices(lines, ByLink.apps)
  IN  IF apps # {} THEN ReplaceAt(lines, Min(apps), AppLine(app))
                   ELSE lines \o <<Line("own"), AppLine(app)>>

(* link's _apply: sets the key where the section has it, adds it under the *)
(* section's header, or adds the section at the end.  What it writes into  *)
(* a long string is text there.                                            *)
Apply(lines, app) ==
  LET own   == Indices(lines, ByLink.own)
      start == Min(own)
      apps  == Section(lines, start, ByLink) \intersect Indices(lines, ByLink.apps)
  IN  IF own = {} THEN lines \o <<Line("own"), AppLine(app)>>
      ELSE IF apps # {}
      THEN ReplaceAt(lines, Min(apps), Entry(lines[Min(apps)][1], app))
      ELSE InsertAt(lines, start + 1,
                    Entry(IF lines[start][1] = "own" THEN "app" ELSE "appText", app))

-----------------------------------------------------------------------------
(* Opening a file to write empties it; a writer may come second.           *)
OpenPyproject == pyproject' = <<>>
WritePyproject(lines) ==
  pyproject' \in IF pyproject = <<>> THEN {lines} ELSE {lines, Garbage}

(* link, to the project of the same name as its process.                   *)
LinkReads(p) ==
  /\ At(p, "link", "start")
  /\ text' = [text EXCEPT ![p] = IF pyproject = NoFile THEN <<>> ELSE pyproject]
  /\ Goto(p, "link", "open")
  /\ UNCHANGED <<acVars, before, appPy, pyproject, pushed>>

LinkOpens(p) ==
  /\ At(p, "link", "open")
  /\ OpenPyproject
  /\ Goto(p, "link", "write")
  /\ UNCHANGED <<acVars, before, appPy, text, pushed>>

LinkWrites(p) ==
  /\ At(p, "link", "write")
  /\ WritePyproject(Apply(text[p], p))
  /\ Exit(p, "ok")
  /\ UNCHANGED <<acVars, before, appPy, text, pushed>>

(* init in the current directory: looks for both files, then writes them   *)
(* (and .gitignore and README.md, which nothing here reads).               *)
Template(p) == <<Line("table"), Line("key"), Line("own"), AppLine(p), Line("key")>>

(* Mutant: only app.py is looked for.                                      *)
InitGuardsApp(p) ==
  /\ At(p, "init", "start")
  /\ IF appPy # "absent" THEN Exit(p, "failed") ELSE Goto(p, "init", "app.py")
  /\ UNCHANGED pdVars

InitGuards(p) ==
  /\ At(p, "init", "start")
  /\ IF appPy # "absent" \/ pyproject # NoFile
     THEN Exit(p, "failed") ELSE Goto(p, "init", "app.py")
  /\ UNCHANGED pdVars

InitWritesApp(p) ==
  /\ At(p, "init", "app.py")
  /\ appPy' = "template"
  /\ Goto(p, "init", "open")
  /\ UNCHANGED <<acVars, before, pyproject, text, pushed>>

InitOpens(p) ==
  /\ At(p, "init", "open")
  /\ OpenPyproject
  /\ Goto(p, "init", "write")
  /\ UNCHANGED <<acVars, before, appPy, text, pushed>>

InitWrites(p) ==
  /\ At(p, "init", "write")
  /\ WritePyproject(Template(p))
  /\ Exit(p, "ok")
  /\ UNCHANGED <<acVars, before, appPy, text, pushed>>

(* deploy: reads the app's name, then pushes; git may fail.                *)
ReadApp(p) ==
  /\ At(p, "deploy", "app")
  /\ pushed' = [pushed EXCEPT ![p] =
                  IF pyproject = NoFile THEN Dir ELSE AppName(pyproject)]
  /\ \/ Exit(p, "ok")
     \/ Exit(p, "failed")
  /\ UNCHANGED <<acVars, before, appPy, pyproject, text>>

-----------------------------------------------------------------------------
LinkStep(p)   == LinkReads(p) \/ LinkOpens(p) \/ LinkWrites(p)
InitStep(p)   == InitGuards(p) \/ InitWritesApp(p) \/ InitOpens(p) \/ InitWrites(p)
DeployStep(p) == \/ (LoadCreds(p) \/ GitBase(p)) /\ UNCHANGED prVars
                 \/ ReadApp(p)

PdStep(p) ==
  \/ (LoginStep(p) \/ LogoutStep(p)) /\ UNCHANGED prVars
  \/ LinkStep(p) \/ InitStep(p) \/ DeployStep(p)

-----------------------------------------------------------------------------
(* The lines that link does not take for its section's header or its app,  *)
(* and whether two texts have the same ones in the same order.             *)
Others(lines) ==
  DOMAIN lines \ (Indices(lines, ByLink.own) \union AppsIn(lines, ByLink))

SameOthers(lines, found) ==
  \E place \in Bijection(Others(found), Others(lines)) :
    \A i, j \in Others(found) : /\ lines[place[i]] = found[i]
                                /\ i < j => place[i] < place[j]

(* The texts where link finds what a TOML parser finds: the section's      *)
(* header and the line that sets app, or that there is none.               *)
Recognised(lines) ==
  /\ Indices(lines, ByLink.own) = Indices(lines, ByToml.own)
  /\ AppsIn(lines, ByLink) = Apps(lines)

(* A deploy that pushes does so to the project that was linked.            *)
PushesToLinked(p) ==
  \A q \in Procs : cmd[q] = "link" /\ At(q, "over", "ok") => pushed'[p] = q

Pushes(p) == At(p, "deploy", "app") /\ pushed'[p] # pushed[p]

(* link's editing (link.py:23-60), against the parser deploy reads the     *)
(* file with (deploy.py:26-38): after `link p` no other line has changed   *)
(* or moved, and where link recognises what the parser does, the app is p  *)
(* for the parser, and for a deploy.  On the other texts it need not be:   *)
(* link may write a header or a key a second time, or into a string, and   *)
(* deploy goes on under the directory's name or the old one.               *)
LinkTakesEffect ==
  [][\A p \in Procs :
       /\ /\ At(p, "link", "write")
          /\ at'[p] = <<"over", "ok">>
          /\ pyproject' # Garbage
          => /\ Parsed(text[p]) /\ Recognised(text[p]) => AppName(pyproject') = p
             /\ SameOthers(pyproject', text[p])
       /\ Pushes(p) /\ Parsed(before) /\ Recognised(before) => PushesToLinked(p)
    ]_<<shVars, pdVars>>

(* A pyproject.toml that was there is not lost: neither to an init in a    *)
(* directory with a project, nor to one link, if nothing cuts it short.    *)
FileSurvives ==
  /\ before # NoFile
  /\ setbacks = 0
  /\ \A p \in Procs : Over(p)
  => SameOthers(pyproject, before)
=============================================================================
