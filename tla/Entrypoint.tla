------------------------------ MODULE Entrypoint ------------------------------
(***************************************************************************)
(* The container entrypoint (internal/entrypoint/entrypoint.go), over the  *)
(* starts of one container.                                                *)
(*                                                                         *)
(* Handle writes the example config and the registration where they are    *)
(* missing, waiting for a usable config, changes to the directory of the   *)
(* config, gives the files to the target user, takes a log writer out of   *)
(* the config, drops its privileges, and lets the bridge run.  Everything  *)
(* from the change of the directory to the rewriting of the config may     *)
(* fail, and Handle goes on.  The container may be killed and started      *)
(* again at any step; the administrator edits the config meanwhile.        *)
(*                                                                         *)
(* A directory is the sequence of its names.  A path has no file name: the *)
(* path of the config and that of the registration name the files there.   *)
(***************************************************************************)
EXTENDS Naturals, FiniteSets, SequencesExt

CONSTANTS
  DirNames,      \* the names of directories
  Deployments,   \* the ways the container may be set up
  SystemDirs,    \* the directories chownTreeUnsafe knows
  MaxStarts      \* bound: how often the container is started

NoPath == [abs |-> FALSE, dir |-> <<"unset">>]
Path == [abs: BOOLEAN, dir: Seq(DirNames)]
Absolute(d) == [abs |-> TRUE, dir |-> d]
Here == [abs |-> FALSE, dir |-> <<>>]
Data == <<"data">>     \* defaultDataDir

ASSUME EntrypointAssumption ==
  /\ {"unset", "data"} \subseteq DirNames
  /\ Deployments \subseteq
       [root: BOOLEAN, uid: BOOLEAN, oneShot: BOOLEAN,   \* euid 0, UID set, a flag like -g
        config: Path, registration: Path,                \* -c, -r
        dataDirEnv: Path, wd: Seq(DirNames)]               \* MATRIX_PYLON_DATA_DIR, cwd
  /\ MaxStarts \in Nat \ {0}

VARIABLES
  dep,          \* how this container is set up
  volume,       \* /data is a directory
  configs,      \* the directories with a config
  registrations, \* the directories with a registration
  usable,       \* the configs in which homeserver.domain is set
  tuned,        \* ... and which the administrator has changed since
  torn,         \* the configs that were cut short before the domain
  readOnlyLog,  \* the configs that log to ./logs/matrix-pylon.log
  owned,        \* the files of the target user, as <<kind, directory>>
  pc,           \* where Handle is
  cwd,          \* the working directory
  configPath, regPath,
  draft,        \* what of the config removeReadOnlyLogWriter has read
  missed,       \* history: what fixPerms of this start did not get done
  ids,          \* the user and the group the process runs as
  starts        \* how often the container was started

fileVars == <<volume, configs, registrations, usable, tuned, torn, readOnlyLog, owned>>
pathVars == <<cwd, configPath, regPath>>
permVars == <<draft, missed>>
vars == <<dep, fileVars, pc, pathVars, permVars, ids, starts>>

Resolve(p) == IF p.abs THEN p.dir ELSE cwd \o p.dir

Root == [user |-> "root", group |-> "root"]
Target == [user |-> "target", group |-> "target"]

Init ==
  /\ dep \in Deployments
  /\ volume \in BOOLEAN
  /\ configs = {} /\ registrations = {} /\ usable = {} /\ tuned = {} /\ torn = {}
  /\ readOnlyLog = {} /\ owned = {} /\ draft = {} /\ missed = {}
  /\ pc = "start" /\ starts = 1
  /\ cwd = dep.wd /\ configPath = NoPath /\ regPath = NoPath
  /\ ids = IF dep.root THEN Root ELSE Target

-----------------------------------------------------------------------------
(* Handle *)

IsEntryPoint == dep.root /\ dep.uid

(* Mutant: /data goes first whenever it exists. *)
DataDirExisting ==
  IF dep.dataDirEnv # NoPath THEN dep.dataDirEnv
  ELSE Absolute(IF volume THEN Data ELSE cwd)

(* A directory that holds a config goes before one that merely exists.     *)
DataDir ==
  CASE dep.dataDirEnv # NoPath -> dep.dataDirEnv
    [] dep.dataDirEnv = NoPath /\ Data \in configs -> Absolute(Data)
    [] dep.dataDirEnv = NoPath /\ Data \notin configs /\ cwd \in configs -> Absolute(cwd)
    [] OTHER -> Absolute(IF volume THEN Data ELSE cwd)

(* Not in entrypoint mode, or called with a one-shot flag: the bridge's    *)
(* own main goes on, with nothing changed.                                 *)
Skip ==
  /\ pc = "start" /\ (~ IsEntryPoint \/ dep.oneShot)
  /\ pc' = "main"
  /\ UNCHANGED <<dep, fileVars, pathVars, permVars, ids, starts>>

FindPaths ==
  /\ pc = "start" /\ IsEntryPoint /\ ~ dep.oneShot
  /\ configPath' = IF dep.config # NoPath THEN dep.config ELSE DataDir
  /\ regPath' = IF dep.registration # NoPath THEN dep.registration ELSE DataDir
  /\ pc' = "config"
  /\ UNCHANGED <<dep, fileVars, cwd, permVars, ids, starts>>

ConfigFound ==
  /\ pc = "config" /\ Resolve(configPath) \in configs
  /\ pc' = "register"
  /\ UNCHANGED <<dep, fileVars, pathVars, permVars, ids, starts>>

(* The child with -e writes the example, which is not usable and logs to   *)
(* the read-only place; when it fails, so does the entrypoint.             *)
GenerateConfig ==
  /\ pc = "config" /\ Resolve(configPath) \notin configs
  /\ \/ /\ configs' = configs \cup {Resolve(configPath)}
        /\ readOnlyLog' = readOnlyLog \cup {Resolve(configPath)}
        /\ owned' = owned \ {<<"config", Resolve(configPath)>>}
        /\ pc' = "register"
     \/ /\ pc' = "exited"
        /\ UNCHANGED <<configs, readOnlyLog, owned>>
  /\ UNCHANGED <<dep, volume, registrations, usable, tuned, torn, pathVars, permVars, ids, starts>>

RegistrationFound ==
  /\ pc = "register" /\ Resolve(regPath) \in registrations
  /\ pc' = "chdir"
  /\ UNCHANGED <<dep, fileVars, pathVars, permVars, ids, starts>>

(* The child with -g succeeds only with a usable config.                   *)
Register ==
  /\ pc = "register" /\ Resolve(regPath) \notin registrations
  /\ Resolve(configPath) \in usable
  /\ registrations' = registrations \cup {Resolve(regPath)}
  /\ owned' = owned \ {<<"registration", Resolve(regPath)>>}
  /\ pc' = "chdir"
  /\ UNCHANGED <<dep, volume, configs, usable, tuned, torn, readOnlyLog, pathVars, permVars, ids,
                 starts>>

(* Mutant: exit when the registration cannot be generated. *)
RegisterFailsForGood ==
  /\ pc = "register" /\ Resolve(regPath) \notin registrations
  /\ pc' = "exited"
  /\ UNCHANGED <<dep, fileVars, pathVars, permVars, ids, starts>>

(* ... and may fail for any other reason: sleep and try again.             *)
RegisterFails ==
  /\ pc = "register" /\ Resolve(regPath) \notin registrations
  /\ pc' = "register"
  /\ UNCHANGED <<dep, fileVars, pathVars, permVars, ids, starts>>

(* That the directory cannot be changed is only warned about. *)
Chdir ==
  /\ pc = "chdir"
  /\ cwd' = Resolve(configPath) \/ cwd' = cwd
  /\ pc' = "perms"
  /\ UNCHANGED <<dep, fileVars, configPath, regPath, permVars, ids, starts>>

(* fixPerms: the tree of the config's directory, or the config alone if it *)
(* is a system directory, and the registration if it is elsewhere.  The    *)
(* paths are resolved again, from the new working directory.               *)
Files == {<<"config", d>> : d \in configs} \cup {<<"registration", d>> : d \in registrations}

(* Mutant: only the directory of the config is fixed. *)
ChownedTree == {f \in Files : IsPrefix(Resolve(configPath), f[2])}

Chowned ==
  (IF configPath.abs /\ configPath.dir \in SystemDirs
     THEN {<<"config", configPath.dir>>}
     ELSE {f \in Files : IsPrefix(Resolve(configPath), f[2])})
  \cup (IF regPath # configPath THEN {<<"registration", Resolve(regPath)>>} ELSE {})

(* Any of the calls of os.Chown may fail, which nothing looks at. *)
Chown ==
  /\ pc = "perms"
  /\ \E done \in SUBSET (Chowned \cap Files) :
       /\ owned' = owned \cup done
       /\ missed' = (Chowned \cap Files) \ done
  /\ pc' = "read"
  /\ UNCHANGED <<dep, volume, configs, registrations, usable, tuned, torn, readOnlyLog, pathVars,
                 draft, ids, starts>>

(* removeReadOnlyLogWriter, of which missed holds LogWriter when it was    *)
(* needed and did not come about.                                          *)
LogWriter == <<"logWriter", <<>>>>
Config == Resolve(configPath)

(* The config is read, and goes to be rewritten if it has the log writer;  *)
(* or it cannot be read, or rendered again.                                *)
ReadConfig ==
  /\ pc = "read"
  /\ \/ /\ Config \in readOnlyLog
        /\ draft' = (IF Config \in usable THEN {"usable"} ELSE {})
                      \cup (IF Config \in tuned THEN {"tuned"} ELSE {})
        /\ pc' = "truncate" /\ missed' = missed
     \/ /\ pc' = "setgid" /\ draft' = draft
        /\ missed' = missed \cup (IF Config \in readOnlyLog THEN {LogWriter} ELSE {})
  /\ UNCHANGED <<dep, fileVars, pathVars, ids, starts>>

(* os.WriteFile first cuts the file to nothing, if it can be opened. *)
Truncate ==
  /\ pc = "truncate"
  /\ \/ /\ usable' = usable \ {Config} /\ tuned' = tuned \ {Config}
        /\ torn' = torn \cup {Config}
        /\ readOnlyLog' = readOnlyLog \ {Config}
        /\ pc' = "write" /\ missed' = missed
     \/ /\ pc' = "setgid"
        /\ missed' = missed \cup {LogWriter}
        /\ UNCHANGED <<usable, tuned, torn, readOnlyLog>>
  /\ UNCHANGED <<dep, volume, configs, registrations, owned, pathVars, draft, ids, starts>>

(* Then it writes what was read, all of it or a part, over whatever is     *)
(* there; or nothing, or to a file that an editor has replaced.            *)
WriteConfig ==
  /\ pc = "write" /\ pc' = "setgid"
  /\ \/ /\ usable' = IF "usable" \in draft THEN usable \cup {Config} ELSE usable \ {Config}
        /\ tuned' = IF "tuned" \in draft THEN tuned \cup {Config} ELSE tuned \ {Config}
        /\ torn' = torn \ {Config}
        /\ readOnlyLog' = readOnlyLog \ {Config}
     \/ /\ usable' = usable \ {Config} /\ tuned' = tuned \ {Config}
        /\ torn' = torn \cup {Config}
        /\ readOnlyLog' = readOnlyLog \ {Config}
     \/ UNCHANGED <<usable, tuned, torn, readOnlyLog>>
  /\ UNCHANGED <<dep, volume, configs, registrations, owned, pathVars, permVars, ids, starts>>

(* dropPrivileges; setgid is allowed to root only, so it goes first.       *)
SetGid ==
  /\ pc = "setgid" /\ ids.user = "root"
  /\ ids' = [ids EXCEPT !.group = "target"]
  /\ pc' = "setuid"
  /\ UNCHANGED <<dep, fileVars, pathVars, permVars, starts>>

SetUid ==
  /\ pc = "setuid"
  /\ ids' = [ids EXCEPT !.user = "target"]
  /\ pc' = "main"
  /\ UNCHANGED <<dep, fileVars, pathVars, permVars, starts>>

DropFails ==
  /\ pc \in {"setgid", "setuid"}
  /\ pc' = "exited"
  /\ UNCHANGED <<dep, fileVars, pathVars, permVars, ids, starts>>

-----------------------------------------------------------------------------
(* The environment *)

(* The administrator sets homeserver.domain, in the example or in a config *)
(* that was cut short and now is written anew, with or without the log     *)
(* writer; and changes a config that has it.                               *)
EditConfig(d) ==
  /\ \/ /\ d \in configs \ usable
        /\ usable' = usable \cup {d} /\ tuned' = tuned /\ torn' = torn \ {d}
        /\ \/ readOnlyLog' = readOnlyLog /\ missed' = missed
           \/ /\ d \in torn
              /\ readOnlyLog' = readOnlyLog \cup {d}
              /\ missed' = missed \cup {LogWriter}
     \/ /\ d \in usable \ tuned
        /\ tuned' = tuned \cup {d}
        /\ UNCHANGED <<usable, torn, readOnlyLog, missed>>
  /\ UNCHANGED <<dep, volume, configs, registrations, owned, pc, pathVars, draft, ids, starts>>

(* The container is killed, or ended by itself, and starts again, perhaps  *)
(* with /data mounted now.                                                 *)
Restart ==
  /\ starts < MaxStarts
  /\ starts' = starts + 1
  /\ pc' = "start"
  /\ cwd' = dep.wd /\ configPath' = NoPath /\ regPath' = NoPath
  /\ draft' = {} /\ missed' = {}
  /\ ids' = IF dep.root THEN Root ELSE Target
  /\ volume' \in {volume, TRUE}
  /\ UNCHANGED <<dep, configs, registrations, usable, tuned, torn, readOnlyLog, owned>>

Handle ==
  \/ Skip \/ FindPaths \/ ConfigFound \/ GenerateConfig \/ RegistrationFound
  \/ Register \/ RegisterFails \/ Chdir \/ Chown \/ ReadConfig \/ Truncate \/ WriteConfig
  \/ SetGid \/ SetUid \/ DropFails

Next == Handle \/ Restart \/ \E d \in configs : EditConfig(d)

Spec == Init /\ [][Next]_vars

(* Handle goes on, a container that exited is started again while the      *)
(* bound allows, and among the attempts of the retry loop with a usable    *)
(* config not all fail for another reason.                                 *)
FairSpec ==
  /\ Spec
  /\ WF_vars(Handle) /\ SF_vars(Register)
  /\ WF_vars(pc = "exited" /\ Restart)

-----------------------------------------------------------------------------
(* Properties *)

Entered == pc = "main" /\ IsEntryPoint /\ ~ dep.oneShot

(* The variables have their types; what is said of a file, or rewritten,   *)
(* is a file that exists.                                                  *)
TypeOK ==
  /\ dep \in Deployments /\ volume \in BOOLEAN
  /\ configs \cup registrations \subseteq Seq(DirNames)
  /\ usable \cup torn \cup readOnlyLog \subseteq configs /\ tuned \subseteq usable
  /\ owned \subseteq Files /\ missed \subseteq Files \cup {LogWriter}
  /\ draft \subseteq {"usable", "tuned"} /\ ("tuned" \in draft => "usable" \in draft)
  /\ pc \in {"start", "config", "register", "chdir", "perms", "read", "truncate", "write",
             "setgid", "setuid", "main", "exited"}
  /\ cwd \in Seq(DirNames) /\ {configPath, regPath} \subseteq Path
  /\ pc \in {"truncate", "write"} => Config \in configs
  /\ ids \in [user: {"root", "target"}, group: {"root", "target"}]
  /\ starts \in 1..MaxStarts

(* When the bridge runs after the bootstrap it has dropped both its user   *)
(* and its group.  Its config and its registration are its own and it does *)
(* not log to the read-only place, but for what fixPerms of this very      *)
(* start tried in vain, and its config is not the example: in whatever     *)
(* state a start found the files, if the paths given are absolute and no   *)
(* system directory holds the registration beside the config.              *)
BridgeIsReady ==
  Entered =>
    /\ ids = Target
    /\ (\A p \in {dep.config, dep.registration, dep.dataDirEnv} \ {NoPath} : p.abs)
         /\ ~ (configPath = regPath /\ configPath.dir \in SystemDirs)
       => /\ {<<"config", configPath.dir>>, <<"registration", regPath.dir>>}
                \subseteq owned \cup missed
          /\ configPath.dir \in readOnlyLog => LogWriter \in missed
          /\ configPath.dir \in usable \cup torn

(* What the administrator put into the config stays: no later start writes *)
(* the example over it, nor picks another directory for the config, though *)
(* /data may have appeared (rule 2 of dataDir).  The one thing that breaks *)
(* this is the rewriting of a config that has the log writer               *)
(* (entrypoint.go:340-374): an edit made meanwhile may be lost in it, and  *)
(* all may be when it is cut short; the domain is lost in no other way.    *)
EditsSurvive ==
  [][/\ \/ usable \subseteq usable' /\ tuned \subseteq tuned'
        \/ pc = "truncate" /\ Config \in readOnlyLog
        \/ pc = "write"
     /\ usable \subseteq usable' \cup torn'
     /\ usable \cup torn # {} /\ pc = "start" /\ pc' = "config" =>
          Config' \in usable \cup torn]_vars

(* A config that is not usable yet never makes the container give up: once *)
(* it is, the registration is generated, across restarts.                  *)
RegistrationComes ==
  pc = "register" /\ Resolve(configPath) \in usable ~> registrations # {}
=============================================================================
