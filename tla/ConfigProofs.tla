---------------------------- MODULE ConfigProofs ----------------------------
(***************************************************************************)
(* Proofs about configuration files, for any number of edits and           *)
(* deployments, completed or given up: precedence, and that a deployed     *)
(* service runs with what was entered.                                     *)
(***************************************************************************)
EXTENDS Config, TLAPS

FileContents == Contents \cup Deployments \cup {Missing, Empty}

ConfigOwnTypeOK ==
  /\ service \in Services /\ argument \in {"", "argument"}
  /\ env \in Environments
  /\ files \in [Paths -> FileContents]
  /\ writing \in BOOLEAN
  /\ entered \in Entries \cup {Nothing}
  /\ phase \in {"down", "chosen", "running", "failed"}
  /\ path \in Paths
  /\ read \in FileContents
  /\ settings.number # "word"
  /\ kept \in BOOLEAN
  /\ writes \in 0..MaxWrites

\* A running process has settings made from the file it has read.
Running ==
  phase = "running" => settings = Resolved(read) /\ read.state # "malformed"

\* A deployment that was completed, and whose file nobody has changed since.
Standing == entered # Nothing /\ ~writing

\* The launcher leads a service to the file of the last deployment.
Launched ==
  /\ writing => entered # Nothing
  /\ entered # Nothing => service # "client"
  /\ Standing => env.any = "first" /\ files["first"] = Written(entered)
  /\ Standing /\ phase = "chosen" /\ ~kept => path = "first"
  /\ Standing /\ phase = "running" /\ ~kept => read = Written(entered)

ConfigInv == ConfigOwnTypeOK /\ Running /\ Launched

\* What can be in a file, in an entry, and in neither.
LEMMA SpecialContents ==
  Missing \in FileContents /\ Malformed \in FileContents /\ Empty \in FileContents
  BY DEF FileContents, Contents

\* An entry is a table with both settings.
LEMMA EntryValues ==
  ASSUME NEW e \in Entries
  PROVE  /\ e.state = "table" /\ e.number \in {"5", "word"}
         /\ e.text \in {"plain", "quote", "escape"}
         /\ e # Nothing
<1>1. PICK t \in {"plain", "quote", "escape"}, n \in {"5", "word"} : e = Table(t, n)
  BY DEF Entries
<1>2. e.state = "table" /\ e.text = t /\ e.number = n
  BY <1>1 DEF Table
<1>3. Nothing.state = "missing"
  BY DEF Nothing, Missing, Table
<1> QED
  BY <1>2, <1>3

\* What a deployment may leave in its file, completely or not.
LEMMA WrittenValues ==
  ASSUME NEW e \in Entries
  PROVE  /\ Written(e) \in FileContents
         /\ [Written(e) EXCEPT !.number = "absent"] \in FileContents
         /\ Written(e).state = "table" =>
              /\ Written(e).number = e.number
              /\ Written(e).text = IF e.text = "escape" THEN "unescaped" ELSE e.text
<1>1. PICK t \in {"plain", "quote", "escape"}, n \in {"5", "word"} : e = Table(t, n)
  BY DEF Entries
<1>2. CASE t = "quote"
  <2>1. Written(e) = Malformed
    BY <1>1, <1>2 DEF Written, Table
  <2>2. Malformed =
          [state |-> "malformed", text |-> "absent", number |-> "absent"]
    BY DEF Malformed, Table
  <2>3. Malformed.state = "malformed" /\ [Malformed EXCEPT !.number = "absent"] = Malformed
    BY <2>2
  <2>4. Written(e).state # "table"
    BY <2>1, <2>3
  <2>5. [Written(e) EXCEPT !.number = "absent"] = Malformed
    BY <2>1, <2>3, Zenon
  <2> QED
    BY <2>1, <2>4, <2>5, SpecialContents
<1>3. CASE t # "quote"
  <2> DEFINE w == IF t = "escape" THEN "unescaped" ELSE t
  <2>1. Written(e) = Table(w, n)
    BY <1>1, <1>3 DEF Written, Table
  <2>2. [Table(w, n) EXCEPT !.number = "absent"] = Table(w, "absent")
    BY DEF Table
  <2>3. Table(w, n) \in Deployments /\ Table(w, "absent") \in Deployments
    BY <1>3 DEF Deployments
  <2>4. e.number = n /\ e.text = t
    BY <1>1 DEF Table
  <2> QED
    BY <2>1, <2>2, <2>3, <2>4 DEF FileContents, Table
<1> QED
  BY <1>2, <1>3

\* No file has what only the environment can have.
LEMMA ContentValues ==
  ASSUME NEW f \in FileContents
  PROVE  f.text \notin {"unset", ""} /\ f.number \notin {"unset", ""}
<1>1. CASE f \in {Missing, Malformed, Empty}
  <2>1. Missing.text = "absent" /\ Missing.number = "absent"
    BY DEF Missing, Table
  <2>2. Malformed.text = "absent" /\ Malformed.number = "absent"
    BY DEF Malformed, Table
  <2>3. Empty.text = "absent" /\ Empty.number = "absent"
    BY DEF Empty, Table
  <2> QED
    BY <1>1, <2>1, <2>2, <2>3
<1>2. CASE f \in Deployments
  <2>1. PICK t \in {"plain", "unescaped"}, n \in {"absent", "5", "word"} : f = Table(t, n)
    BY <1>2 DEF Deployments
  <2> QED
    BY <2>1 DEF Table
<1>3. CASE f \in Contents \ {Malformed}
  <2>1. PICK t \in Texts \cup {"absent"}, n \in {"absent", "5", "word"} : f = Table(t, n)
    BY <1>3 DEF Contents
  <2>2. f.text = t /\ f.number = n
    BY <2>1 DEF Table
  <2> QED
    BY <2>2 DEF Texts
<1> QED
  BY <1>1, <1>2, <1>3 DEF FileContents

\* The defaults.
LEMMA DefaultValues == Defaults.text = "default" /\ Defaults.number = "120"
  BY DEF Defaults, Table

\* The bound is kept.
LEMMA CountInRange ==
  ASSUME writes \in 0..MaxWrites, Count
  PROVE  writes' \in 0..MaxWrites
  BY ConfigAssumption DEF Count

\* The initial states satisfy the invariant.
LEMMA ConfigInitInv == ConfigInit => ConfigInv
<1> SUFFICES ASSUME ConfigInit PROVE ConfigInv
  OBVIOUS
<1>1. ConfigOwnTypeOK
  <2>1. files \in [Paths -> FileContents] /\ read \in FileContents
    BY SpecialContents DEF ConfigInit
  <2>2. 0 \in 0..MaxWrites
    BY ConfigAssumption
  <2> QED
    BY <2>1, <2>2, DefaultValues DEF ConfigInit, ConfigOwnTypeOK, Paths
<1>2. Running /\ Launched
  BY DEF ConfigInit, Running, Launched, Standing
<1> QED
  BY <1>1, <1>2 DEF ConfigInv

\* The standard places are places.
LEMMA FirstPlaceType == FirstPlace \in Paths
<1> DEFINE found == {i \in 1..3 : Exists(Places[i])}
<1>1. CASE found = {}
  BY <1>1 DEF FirstPlace, Paths
<1>2. CASE found # {}
  <2>1. \E x \in found : \A y \in found : x <= y
    BY <1>2
  <2>2. Min(found) \in 1..3
    BY <2>1 DEF Min
  <2>3. Places[Min(found)] \in Paths
    BY <2>2 DEF Places, Paths
  <2> QED
    BY <1>2, <2>3 DEF FirstPlace
<1> QED
  BY <1>1, <1>2

\* Whatever is chosen is a place.
LEMMA PathTypes ==
  ASSUME ConfigInv
  PROVE  ServicePath \in Paths /\ ClientPath \in Paths
<1>1. env.any \in {"unset", "", "any", "first"} /\ env.own \in {"unset", "", "own"}
  BY DEF ConfigInv, ConfigOwnTypeOK, Environments
<1> QED
  BY <1>1, FirstPlaceType DEF ServicePath, ClientPath, Paths, ConfigInv, ConfigOwnTypeOK

\* Steps of the process.
LEMMA ProcessStep ==
  ASSUME ConfigInv, Choose \/ Load \/ Stop
  PROVE  ConfigInv'
<1> USE DEF ConfigInv
<1>1. CASE Choose
  <2>1. path' \in Paths
    BY <1>1, PathTypes DEF Choose
  <2>2. ConfigOwnTypeOK'
    BY <1>1, <2>1 DEF Choose, ConfigOwnTypeOK
  <2>3. Standing => path' = "first"
    <3>1. Standing => env.any = "first" /\ service # "client"
      BY DEF Launched, Standing
    <3> QED
      BY <1>1, <3>1 DEF Choose, ServicePath
  <2>4. Running' /\ Launched'
    BY <1>1, <2>3 DEF Choose, Running, Launched, Standing
  <2> QED
    BY <2>2, <2>4
<1>2. CASE Load
  <2>1. read' \in FileContents
    BY <1>2 DEF Load, ConfigOwnTypeOK
  <2>2. ConfigOwnTypeOK'
    BY <1>2, <2>1 DEF Load, ConfigOwnTypeOK
  <2>3. Running'
    BY <1>2 DEF Load, Running, Unreadable, Resolved, FromEnv, FromTable
  <2>4. Launched'
    BY <1>2 DEF Load, Launched, Standing
  <2> QED
    BY <2>2, <2>3, <2>4
<1>3. CASE Stop
  <2>1. ConfigOwnTypeOK'
    BY <1>3, SpecialContents, DefaultValues DEF Stop, NotStarted, ConfigOwnTypeOK, Paths
  <2>2. Running' /\ Launched'
    BY <1>3 DEF Stop, NotStarted, Running, Launched, Standing
  <2> QED
    BY <2>1, <2>2
<1> QED
  BY <1>1, <1>2, <1>3

\* A file changes by hand.
LEMMA EditStep ==
  ASSUME ConfigInv, NEW p \in Paths \ {"nowhere"}, NEW content \in Contents \cup {Missing},
         Edit(p, content)
  PROVE  ConfigInv'
<1> USE DEF ConfigInv, Edit, processVars
<1>1. content \in FileContents
  BY DEF FileContents
<1>2. ConfigOwnTypeOK'
  <2>1. files' \in [Paths -> FileContents]
    BY <1>1 DEF ConfigOwnTypeOK
  <2>2. writes' \in 0..MaxWrites
    BY CountInRange DEF ConfigOwnTypeOK
  <2> QED
    BY <2>1, <2>2 DEF ConfigOwnTypeOK
<1>3. Running'
  BY DEF Running, Resolved, FromEnv
<1>4. Launched'
  <2>1. CASE p = "first"
    BY <2>1 DEF Launched, Standing
  <2>2. CASE p # "first"
    <3>1. files'["first"] = files["first"]
      BY <2>2 DEF ConfigOwnTypeOK, Paths
    <3> QED
      BY <2>2, <3>1 DEF Launched, Standing, Written
  <2> QED
    BY <2>1, <2>2
<1> QED
  BY <1>2, <1>3, <1>4

\* A deployment writes its file.
LEMMA DeploymentStep ==
  ASSUME ConfigInv, (\E values \in Entries : OpenToWrite(values)) \/ WriteFails \/ Deployed
  PROVE  ConfigInv'
<1> USE DEF ConfigInv
<1>1. Written(entered) \in FileContents \/ entered = Nothing
  BY WrittenValues DEF ConfigOwnTypeOK
<1>2. ASSUME NEW values \in Entries, OpenToWrite(values) PROVE ConfigInv'
  <2>1. ConfigOwnTypeOK'
    <3>1. files' \in [Paths -> FileContents]
      BY <1>2, SpecialContents DEF OpenToWrite, ConfigOwnTypeOK
    <3>2. writes' \in 0..MaxWrites
      BY <1>2, CountInRange DEF OpenToWrite, ConfigOwnTypeOK
    <3> QED
      BY <1>2, <3>1, <3>2 DEF OpenToWrite, ConfigOwnTypeOK, processVars
  <2>2. values # Nothing
    BY EntryValues
  <2>3. Running' /\ Launched'
    BY <1>2, <2>2 DEF OpenToWrite, Running, Launched, Standing, processVars, Resolved, FromEnv
  <2> QED
    BY <2>1, <2>3
<1>3. CASE WriteFails
  <2>1. ConfigOwnTypeOK'
    <3>1. entered \in Entries
      BY <1>3 DEF WriteFails, Launched, ConfigOwnTypeOK
    <3>2. [Written(entered) EXCEPT !.number = "absent"] \in FileContents
      BY <3>1, WrittenValues
    <3>3. files' \in [Paths -> FileContents]
      BY <1>3, <3>2, SpecialContents DEF WriteFails, ConfigOwnTypeOK
    <3> QED
      BY <1>3, <3>3 DEF WriteFails, ConfigOwnTypeOK, processVars
  <2>2. Running' /\ Launched'
    BY <1>3 DEF WriteFails, Running, Launched, Standing, processVars, Resolved, FromEnv
  <2> QED
    BY <2>1, <2>2
<1>4. CASE Deployed
  <2>1. env' \in Environments /\ env'.any = "first"
    BY <1>4 DEF Deployed, ConfigOwnTypeOK, Environments
  <2>2. Written(entered) \in FileContents
    BY <1>4, <1>1 DEF Deployed, Launched
  <2>3. ConfigOwnTypeOK'
    <3>1. files' \in [Paths -> FileContents]
      BY <1>4, <2>2 DEF Deployed, ConfigOwnTypeOK
    <3> QED
      BY <1>4, <2>1, <3>1, SpecialContents, DefaultValues
      DEF Deployed, NotStarted, ConfigOwnTypeOK, Paths
  <2>4. files'["first"] = Written(entered)
    BY <1>4 DEF Deployed, ConfigOwnTypeOK, Paths
  <2>5. Running' /\ Launched'
    <3>1. CASE NotStarted
      BY <1>4, <2>1, <2>4, <3>1 DEF Deployed, NotStarted, Running, Launched, Standing
    <3>2. CASE kept' /\ UNCHANGED <<phase, path, settings, read>>
      <4>1. UNCHANGED <<env.text, env.number>>
        BY <1>4 DEF Deployed, ConfigOwnTypeOK, Environments
      <4>2. Resolved(read)' = Resolved(read)
        BY <3>2, <4>1 DEF Resolved, FromEnv
      <4>3. Running'
        BY <3>2, <4>2 DEF Running
      <4> QED
        BY <1>4, <2>1, <2>4, <3>2, <4>3 DEF Deployed, Launched, Standing
    <3> QED
      BY <1>4, <3>1, <3>2 DEF Deployed
  <2> QED
    BY <2>3, <2>5
<1> QED
  BY <1>2, <1>3, <1>4

\* The invariant is inductive.
LEMMA ConfigStepInv == ConfigInv /\ [ConfigNext]_configVars => ConfigInv'
<1> SUFFICES ASSUME ConfigInv, [ConfigNext]_configVars PROVE ConfigInv'
  OBVIOUS
<1>1. CASE UNCHANGED configVars
  BY <1>1 DEF configVars, processVars, ConfigInv, ConfigOwnTypeOK, Running, Launched,
     Standing, Resolved, FromEnv
<1> QED
  BY <1>1, ProcessStep, EditStep, DeploymentStep DEF ConfigNext

\* It always holds.
LEMMA ConfigAlways == ConfigSpec => []ConfigInv
  BY ConfigInitInv, ConfigStepInv, PTL DEF ConfigSpec

\* Type correctness of processes, files and environment.
THEOREM ConfigTypeCorrect == ConfigSpec => []ConfigTypeOK
<1>1. ConfigInv => ConfigTypeOK
  BY DEF ConfigInv, ConfigOwnTypeOK, ConfigTypeOK, FileContents
<1> QED
  BY <1>1, ConfigAlways, PTL

\* Environment, file, default: each setting of a running process comes from
\* the first that gives it.
THEOREM ConfigLoadedByPriority == ConfigSpec => []LoadedByPriority
<1>1. ConfigInv => LoadedByPriority
  <2> SUFFICES ASSUME ConfigInv, phase = "running", NEW key \in Keys
               PROVE  LET sources == <<env[key], read[key], Defaults[key]>>
                      IN \E i \in 1..3 :
                           /\ IsGiven(sources[i]) /\ settings[key] = sources[i]
                           /\ \A j \in 1..(i - 1) : ~IsGiven(sources[j])
    BY DEF LoadedByPriority
  <2> DEFINE sources == <<env[key], read[key], Defaults[key]>>
  <2>1. settings[key] = FromEnv(key, FromTable(read, key))
    BY DEF ConfigInv, Running, Resolved, Table, Keys
  <2>2. env[key] # "absent" /\ read[key] \notin {"unset", ""}
    <3>1. read.text \notin {"unset", ""} /\ read.number \notin {"unset", ""}
      BY ContentValues DEF ConfigInv, ConfigOwnTypeOK
    <3>2. env.text # "absent" /\ env.number # "absent"
      BY DEF ConfigInv, ConfigOwnTypeOK, Environments
    <3> QED
      BY <3>1, <3>2 DEF Keys
  <2>3. IsGiven(Defaults[key])
    BY DefaultValues DEF IsGiven, Keys
  <2>4. CASE IsGiven(env[key])
    <3>1. settings[key] = sources[1]
      BY <2>1, <2>4 DEF FromEnv, IsGiven
    <3> QED
      BY <2>4, <3>1
  <2>5. CASE ~IsGiven(env[key]) /\ IsGiven(read[key])
    <3>1. settings[key] = sources[2]
      BY <2>1, <2>2, <2>5 DEF FromEnv, FromTable, IsGiven
    <3> QED
      BY <2>5, <3>1
  <2>6. CASE ~IsGiven(env[key]) /\ ~IsGiven(read[key])
    <3>1. settings[key] = sources[3]
      BY <2>1, <2>2, <2>6 DEF FromEnv, FromTable, IsGiven
    <3> QED
      BY <2>3, <2>6, <3>1
  <2> QED
    BY <2>4, <2>5, <2>6
<1> QED
  BY <1>1, ConfigAlways, PTL

\* After any history of edits and deployments, a service that was started by
\* the last of them, or since, runs with what was entered for it.
THEOREM ConfigEnteredIsLoaded == ConfigSpec => []EnteredIsLoaded
<1>1. ConfigInv => EnteredIsLoaded
  <2> SUFFICES ASSUME ConfigInv, phase = "running", ~kept, entered # Nothing, ~writing,
                      NEW key \in Keys
               PROVE  \/ settings[key] \in {env[key], entered[key]}
                      \/ key = "text" /\ entered.text = "escape" /\ settings.text = "unescaped"
    BY DEF EnteredIsLoaded
  <2>1. entered \in Entries
    BY DEF ConfigInv, ConfigOwnTypeOK
  <2>2. read = Written(entered) /\ read.state # "malformed"
    BY DEF ConfigInv, Launched, Standing, Running
  <2>3. read.state = "table"
    BY <2>1, <2>2, EntryValues DEF Written, Malformed, Table
  <2>4. settings[key] = FromEnv(key, FromTable(read, key))
    BY DEF ConfigInv, Running, Resolved, Table, Keys
  <2>5. /\ read.number = entered.number
        /\ read.text = IF entered.text = "escape" THEN "unescaped" ELSE entered.text
    BY <2>1, <2>2, <2>3, WrittenValues
  <2>6. read[key] # "absent"
    BY <2>1, <2>5, EntryValues DEF Keys
  <2>7. settings[key] \in {env[key], read[key]}
    BY <2>4, <2>6 DEF FromEnv, FromTable
  <2> QED
    BY <2>5, <2>7 DEF Keys
<1> QED
  BY <1>1, ConfigAlways, PTL
=============================================================================
