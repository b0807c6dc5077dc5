------------------------------- MODULE Config -------------------------------
(***************************************************************************)
(* Where a process gets its settings from when it starts                   *)
(* (shared/config.py for master and worker, client/config.py for the       *)
(* client), while files are edited and deploy.py writes the one it makes.  *)
(*                                                                         *)
(* Two settings stand for all: a text and an integer.  A value is one of   *)
(* a few words that tell who gave it; of the sections of a file nothing is *)
(* kept, since every setting has its own.                                  *)
(***************************************************************************)
EXTENDS Naturals, FiniteSetsExt

CONSTANT MaxWrites   \* bound: how often a file is edited or written

ASSUME ConfigAssumption == MaxWrites \in Nat

VARIABLES
  service,   \* which of the programs is started
  argument,  \* --config of the client, or ""
  env,       \* the environment of the process
  files,     \* the configuration files
  writing,   \* deploy.py is in _write_toml()
  entered,   \* what was entered at the last deployment, or Nothing
  phase,     \* of the process
  path,      \* the file it has chosen
  settings,  \* what it runs with
  read,      \* history: the file it has read
  kept,      \* history: it was running when the last deployment started it
  writes     \* number of edits and deployments

processVars == <<phase, path, settings, read, kept>>
configVars ==
  <<service, argument, env, files, writing, entered, processVars, writes>>

Services == {"master", "worker", "client"}
Keys == {"text", "number"}

\* The standard places, in the order in which they are looked at.
Places == <<"first", "second", "third">>
Paths == {"argument", "any", "own", "first", "second", "third", "nowhere"}

Table(t, n) == [state |-> "table", text |-> t, number |-> n]
Missing == [Table("absent", "absent") EXCEPT !.state = "missing"]
Malformed == [Table("absent", "absent") EXCEPT !.state = "malformed"]
Empty == Table("absent", "absent")

\* What an editor may put in, and what may be entered; "percent" is a text
\* with a %.  A "quote" ends the string of a TOML file too early, so that no
\* file comes of it; an "escape" is read as another text, "unescaped": a
\* backslash with a letter TOML knows, or a quote that a # follows.
Texts == {"edited", "percent"}
Contents == {Malformed} \cup {Table(t, n) : t \in Texts \cup {"absent"},
                                            n \in {"absent", "5", "word"}}
Entries == {Table(t, n) : t \in {"plain", "quote", "escape"}, n \in {"5", "word"}}
Deployments == {Table(t, n) : t \in {"plain", "unescaped"}, n \in {"absent", "5", "word"}}

Defaults == Table("default", "120")
Nothing == Missing

Environments ==
  {e \in [any : {"unset", "", "any", "first"}, own : {"unset", "", "own"},
          text : {"unset", "", "env"}, number : {"unset", "", "7", "word"}] :
     e.text = "unset" \/ e.number = "unset"}

ConfigTypeOK ==
  /\ service \in Services /\ argument \in {"", "argument"}
  /\ env \in Environments
  /\ \A p \in Paths : files[p] \in Contents \cup Deployments \cup {Missing, Empty}
  /\ writing \in BOOLEAN
  /\ entered \in Entries \cup {Nothing}
  /\ phase \in {"down", "chosen", "running", "failed"}
  /\ path \in Paths
  /\ settings.number # "word"
  /\ kept \in BOOLEAN
  /\ writes \in 0..MaxWrites

ConfigInit ==
  /\ service \in Services
  /\ argument \in {"", "argument"} /\ (argument # "" => service = "client")
  /\ env \in Environments /\ env.any # "first"
  /\ files = [p \in Paths |-> Missing]
  /\ writing = FALSE /\ entered = Nothing
  /\ phase = "down" /\ path = "nowhere"
  /\ settings = Defaults /\ read = Missing /\ kept = FALSE
  /\ writes = 0

-----------------------------------------------------------------------------
\* The process.

Exists(p) == files[p] # Missing

FirstPlace ==
  LET found == {i \in 1..3 : Exists(Places[i])}
  IN IF found = {} THEN "nowhere" ELSE Places[Min(found)]

\* _default_path(): CAPOWN_CONFIG hides CAPOWN_<SERVICE>_CONFIG as soon as it
\* is set, and a file that is named need not exist.
ServicePath ==
  LET configured == IF env.any # "unset" THEN env.any ELSE env.own
  IN IF configured \in {"unset", ""} THEN FirstPlace ELSE configured

\* The client's; its variable may name a file that does not exist.
ClientPath ==
  IF argument # "" THEN argument
  ELSE IF env.own = "own" /\ Exists("own") THEN "own"
  ELSE FirstPlace

Choose ==
  /\ phase = "down"
  /\ phase' = "chosen"
  /\ path' = IF service = "client" THEN ClientPath ELSE ServicePath
  /\ UNCHANGED <<service, argument, env, files, writing, entered, settings,
                 read, kept, writes>>

\* Mutant: a variable that is set to nothing counts.
MutFromEnv(key, fallback) == IF env[key] = "unset" THEN fallback ELSE env[key]

\* _env().
FromEnv(key, fallback) == IF env[key] \in {"unset", ""} THEN fallback ELSE env[key]

\* A key of a file, or its default.
FromTable(table, key) ==
  IF table[key] = "absent" THEN Defaults[key] ELSE table[key]

Resolved(table) ==
  Table(FromEnv("text", FromTable(table, "text")),
        FromEnv("number", FromTable(table, "number")))

\* It cannot be parsed, or the client, whose parser takes % for the start of
\* a reference, stumbles over a value, whether that is overridden or not.
Unreadable(table) ==
  \/ table.state = "malformed"
  \/ service = "client" /\ table.text = "percent"

\* Mutant: what is read is not looked at.
MutLoad ==
  /\ phase = "chosen"
  /\ read' = files[path]
  /\ IF Unreadable(files[path])
       THEN phase' = "failed" /\ UNCHANGED settings
       ELSE phase' = "running" /\ settings' = Resolved(files[path])
  /\ UNCHANGED <<service, argument, env, files, writing, entered, path, kept, writes>>

\* load(): a file that is gone by now counts as an empty one.
Load ==
  /\ phase = "chosen"
  /\ read' = files[path]
  /\ IF Unreadable(files[path]) \/ Resolved(files[path]).number = "word"
       THEN phase' = "failed" /\ UNCHANGED settings
       ELSE phase' = "running" /\ settings' = Resolved(files[path])
  /\ UNCHANGED <<service, argument, env, files, writing, entered, path, kept, writes>>

NotStarted ==
  /\ phase' = "down"
  /\ settings' = Defaults /\ read' = Missing /\ path' = "nowhere"
  /\ kept' = FALSE

\* The process ends, and may be started again.
Stop ==
  /\ phase \in {"running", "failed"}
  /\ NotStarted
  /\ UNCHANGED <<service, argument, env, files, writing, entered, writes>>

-----------------------------------------------------------------------------
\* The files.

Count == writes < MaxWrites /\ writes' = writes + 1

\* A file is put in place, edited or removed by hand.
Edit(p, content) ==
  /\ Count
  /\ ~writing
  /\ files' = [files EXCEPT ![p] = content]
  /\ entered' = IF p = "first" THEN Nothing ELSE entered
  /\ UNCHANGED <<service, argument, env, writing, processVars>>

\* _write_toml() opens the file in the user's home, which empties it.
OpenToWrite(values) ==
  /\ service # "client"
  /\ ~writing /\ Count
  /\ writing' = TRUE
  /\ entered' = values
  /\ files' = [files EXCEPT !["first"] = Empty]
  /\ UNCHANGED <<service, argument, env, processVars>>

\* What was entered is put between double quotes as it is.
Written(values) ==
  CASE values.text = "quote" -> Malformed
    [] values.text = "escape" -> [values EXCEPT !.text = "unescaped"]
    [] OTHER -> values

\* The deployment ends in the middle of the file.
WriteFails ==
  /\ writing
  /\ writing' = FALSE /\ entered' = Nothing
  /\ \E part \in {Empty, Malformed, [Written(entered) EXCEPT !.number = "absent"]} :
       files' = [files EXCEPT !["first"] = part]
  /\ UNCHANGED <<service, argument, env, processVars, writes>>

\* Mutant: the service is started in the environment of the deployment.
MutDeployed ==
  /\ writing
  /\ writing' = FALSE
  /\ files' = [files EXCEPT !["first"] = Written(entered)]
  /\ NotStarted
  /\ UNCHANGED <<service, argument, env, entered, writes>>

\* The file is complete, and the service is started; its launcher, or the
\* Compose file, makes CAPOWN_CONFIG name the file.  A worker that was not
\* stopped, or came back meanwhile, is left as it is (enable --now).
Deployed ==
  /\ writing
  /\ writing' = FALSE
  /\ files' = [files EXCEPT !["first"] = Written(entered)]
  /\ env' = [env EXCEPT !.any = "first"]
  /\ \/ NotStarted
     \/ /\ service = "worker" /\ phase \in {"chosen", "running"}
        /\ kept' = TRUE
        /\ UNCHANGED <<phase, path, settings, read>>
  /\ UNCHANGED <<service, argument, entered, writes>>

ConfigNext ==
  \/ Choose \/ Load \/ Stop
  \/ \E p \in Paths \ {"nowhere"}, content \in Contents \cup {Missing} : Edit(p, content)
  \/ \E values \in Entries : OpenToWrite(values)
  \/ WriteFails \/ Deployed

ConfigSpec == ConfigInit /\ [][ConfigNext]_configVars

-----------------------------------------------------------------------------
IsGiven(value) == value \notin {"unset", "", "absent"}

\* user_guide.md: "environment variables > configuration file > defaults".
\* Each setting of a running process has the value of the first of these
\* that gives one, whatever happened to the files between the choice of one
\* and its reading.
LoadedByPriority ==
  phase = "running" =>
    \A key \in Keys :
      LET sources == <<env[key], read[key], Defaults[key]>>
      IN \E i \in 1..3 :
           /\ IsGiven(sources[i]) /\ settings[key] = sources[i]
           /\ \A j \in 1..(i - 1) : ~IsGiven(sources[j])

\* A service that was started by a deployment, or later, runs with what was
\* entered then, or what the environment puts above it: whatever other files
\* there are, however often the deployment was repeated or given up before.
\* Only a text with an escape is another one by then.  (The service may also
\* fail to start, for what is entered is not looked at; and one that ran
\* through the deployment keeps its old settings until it is restarted.)
EnteredIsLoaded ==
  phase = "running" /\ ~kept /\ entered # Nothing /\ ~writing =>
    \A key \in Keys :
      \/ settings[key] \in {env[key], entered[key]}
      \/ key = "text" /\ entered.text = "escape" /\ settings.text = "unescaped"
=============================================================================
