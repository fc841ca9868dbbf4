-------------------------- MODULE EntrypointProofs --------------------------
(***************************************************************************)
(* Proofs about Entrypoint for every set-up of the container and any       *)
(* number of starts.                                                       *)
(*                                                                         *)
(* The inductive invariant IInv says what the process is at each stage     *)
(* (ProcessInv), where the config of a deployment lies (PlaceInv), what is *)
(* in it while fixPerms rewrites it (ContentInv), and which files each     *)
(* stage finds made (StageInv).                                            *)
(***************************************************************************)
EXTENDS Entrypoint, TLAPS

USE EntrypointAssumption

(* What a deployment is made of.                                           *)
LEMMA DeploymentFacts ==
  ASSUME NEW d \in Deployments
  PROVE  /\ d.root \in BOOLEAN /\ d.wd \in Seq(DirNames)
         /\ d.config \in Path /\ d.registration \in Path /\ d.dataDirEnv \in Path
  OBVIOUS

LEMMA PathFacts ==
  /\ NoPath \in Path
  /\ \A d \in Seq(DirNames) : Absolute(d) \in Path
  /\ Data \in Seq(DirNames)
<1>1. <<"unset">> \in Seq(DirNames) /\ <<"data">> \in Seq(DirNames)
  OBVIOUS
<1> QED
  BY <1>1 DEF NoPath, Path, Absolute, Data

(* A path is resolved to a directory.                                      *)
LEMMA ResolveTyped ==
  ASSUME cwd \in Seq(DirNames), NEW p \in Path PROVE Resolve(p) \in Seq(DirNames)
<1>1. p.dir \in Seq(DirNames)
  BY DEF Path
<1>2. cwd \o p.dir \in Seq(DirNames)
  BY <1>1
<1> QED
  BY <1>1, <1>2 DEF Resolve

(* The data directory is a path.                                           *)
LEMMA DataDirTyped == TypeOK => DataDir \in Path
<1> SUFFICES ASSUME TypeOK PROVE DataDir \in Path
  OBVIOUS
<1>1. dep.dataDirEnv \in Path /\ cwd \in Seq(DirNames)
  BY DeploymentFacts DEF TypeOK
<1> QED
  BY <1>1, PathFacts DEF DataDir

(* The initial states have their types.                                    *)
LEMMA InitTypeOK == Init => TypeOK
<1> SUFFICES ASSUME Init PROVE TypeOK
  OBVIOUS
<1>1. cwd \in Seq(DirNames) /\ {configPath, regPath} \subseteq Path
  BY DeploymentFacts, PathFacts DEF Init
<1>2. ids \in [user: {"root", "target"}, group: {"root", "target"}]
  BY DEF Init, Root, Target
<1>3. starts \in 1..MaxStarts
  BY DEF Init
<1> QED
  BY <1>1, <1>2, <1>3 DEF Init, TypeOK, Files

(* Every step of Handle.                                                   *)
LEMMA HandleTyped == TypeOK /\ Handle => TypeOK'
<1> SUFFICES ASSUME TypeOK, Handle PROVE TypeOK'
  OBVIOUS
<1> USE DEF TypeOK
<1>1. CASE Skip
  BY <1>1 DEF Skip, fileVars, pathVars, permVars, Files
<1>2. CASE FindPaths
  <2>1. {configPath', regPath'} \subseteq Path
    BY <1>2, DeploymentFacts, DataDirTyped DEF FindPaths
  <2> QED
    BY <1>2, <2>1 DEF FindPaths, fileVars, permVars, Files
<1>3. CASE ConfigFound \/ RegistrationFound \/ RegisterFails \/ DropFails
  BY <1>3
  DEF ConfigFound, RegistrationFound, RegisterFails, DropFails, fileVars, pathVars, permVars,
      Files
<1>4. CASE GenerateConfig
  <2>1. Resolve(configPath) \in Seq(DirNames)
    BY ResolveTyped
  <2> QED
    BY <1>4, <2>1 DEF GenerateConfig, pathVars, permVars, Files
<1>5. CASE Register
  <2>1. Resolve(regPath) \in Seq(DirNames)
    BY ResolveTyped
  <2> QED
    BY <1>5, <2>1 DEF Register, pathVars, permVars, Files
<1>6. CASE Chdir
  <2>1. Resolve(configPath) \in Seq(DirNames)
    BY ResolveTyped
  <2> QED
    BY <1>6, <2>1 DEF Chdir, fileVars, permVars, Files
<1>7. CASE Chown
  BY <1>7 DEF Chown, pathVars, Files
<1>8. CASE SetGid \/ SetUid
  BY <1>8 DEF SetGid, SetUid, fileVars, pathVars, permVars, Files
<1>9. CASE ReadConfig
  BY <1>9 DEF ReadConfig, Config, Resolve, fileVars, pathVars, Files
<1>10. CASE Truncate
  BY <1>10 DEF Truncate, Config, Resolve, pathVars, Files
<1>11. CASE WriteConfig
  BY <1>11 DEF WriteConfig, Config, Resolve, pathVars, permVars, Files
<1> QED
  BY <1>1, <1>2, <1>3, <1>4, <1>5, <1>6, <1>7, <1>8, <1>9, <1>10, <1>11 DEF Handle

(* Every step keeps the types.                                             *)
LEMMA NextTypeOK == TypeOK /\ [Next]_vars => TypeOK'
<1> SUFFICES ASSUME TypeOK, [Next]_vars PROVE TypeOK'
  OBVIOUS
<1>1. CASE Handle
  BY <1>1, HandleTyped
<1>2. CASE Restart
  <2>1. cwd' \in Seq(DirNames) /\ {configPath', regPath'} \subseteq Path
    BY <1>2, DeploymentFacts, PathFacts DEF Restart, TypeOK
  <2>2. ids' \in [user: {"root", "target"}, group: {"root", "target"}]
    BY <1>2 DEF Restart, Root, Target
  <2>3. starts' \in 1..MaxStarts
    BY <1>2 DEF Restart, TypeOK
  <2>4. volume' \in BOOLEAN
    BY <1>2, Zenon DEF Restart, TypeOK
  <2> QED
    BY <1>2, <2>1, <2>2, <2>3, <2>4 DEF Restart, TypeOK, Files
<1>3. ASSUME NEW d \in configs, EditConfig(d) PROVE TypeOK'
  BY <1>3 DEF EditConfig, Config, Resolve, pathVars, TypeOK, Files
<1>4. CASE UNCHANGED vars
  BY <1>4 DEF vars, fileVars, pathVars, permVars, Config, Resolve, TypeOK, Files
<1> QED
  BY <1>1, <1>2, <1>3, <1>4 DEF Next

(* However often the container is killed and started again, what is usable,*)
(* torn, logs to the read-only place, belongs to the target user or is     *)
(* being rewritten is a file that exists (fixPerms,                        *)
(* removeReadOnlyLogWriter).                                               *)
THEOREM TypeCorrect == Spec => []TypeOK
  BY InitTypeOK, NextTypeOK, PTL DEF Spec

-----------------------------------------------------------------------------
(* The inductive invariant of the other two properties.                    *)

(* A path of the deployment, resolved where the container starts.          *)
At(p) == IF p.abs THEN p.dir ELSE dep.wd \o p.dir

(* The directories in which a start may put the config: one given by a     *)
(* flag or by the environment is the only one.                             *)
Candidates ==
  IF dep.config # NoPath THEN {At(dep.config)}
  ELSE IF dep.dataDirEnv # NoPath THEN {At(dep.dataDirEnv)} ELSE {Data, dep.wd}

AllAbsolute == \A p \in {dep.config, dep.registration, dep.dataDirEnv} \ {NoPath} : p.abs

Begun == pc \notin {"start", "exited"} /\ (pc = "main" => Entered)

(* What the process is: root until it gives up first its group and then    *)
(* its user.                                                               *)
ProcessInv ==
  /\ Begun => IsEntryPoint
  /\ pc = "setuid" \/ Entered => ids.group = "target"
  /\ Entered => ids.user = "target"

(* There is one config, where every start of this container looks for it.  *)
PlaceInv ==
  /\ configs \subseteq Candidates
  /\ \A d, e \in configs : d = e
  /\ pc \in {"start", "config", "register", "chdir"} => cwd = dep.wd
  /\ pc = "config" => Resolve(configPath) \in Candidates
                      /\ (configs # {} => Resolve(configPath) \in configs)

Rewriting == pc \in {"truncate", "write"}

(* A registration was made from a config with a domain, which only the     *)
(* rewriting takes away again; what is rewritten has been read with it.    *)
ContentInv ==
  /\ torn \cap (usable \cup readOnlyLog) = {}
  /\ registrations # {} => configs # {} /\ configs \subseteq usable \cup torn
  /\ Begun /\ pc \notin {"config", "register"} => registrations # {}
  /\ pc = "truncate" => Config \in readOnlyLog
  /\ Rewriting => "usable" \in draft

(* With absolute paths, each stage of Handle leaves behind the files that  *)
(* the next one builds on, but for what fixPerms missed.                   *)
StageInv ==
  AllAbsolute /\ Begun =>
    /\ configPath.abs /\ regPath.abs
    /\ pc # "config" => configPath.dir \in configs
    /\ pc \notin {"config", "register"} => regPath.dir \in registrations
    /\ pc \notin {"config", "register", "chdir", "perms"}
         /\ ~ (configPath = regPath /\ configPath.dir \in SystemDirs)
       => {<<"config", configPath.dir>>, <<"registration", regPath.dir>>}
            \subseteq owned \cup missed
    /\ pc \in {"write", "setgid", "setuid", "main"} /\ configPath.dir \in readOnlyLog
       => LogWriter \in missed

IInv == TypeOK /\ ProcessInv /\ PlaceInv /\ ContentInv /\ StageInv

LEMMA InitInv == Init => IInv
<1> SUFFICES ASSUME Init PROVE IInv
  OBVIOUS
<1>1. TypeOK
  BY InitTypeOK
<1>2. ProcessInv /\ StageInv
  BY DEF Init, ProcessInv, StageInv, Begun, Entered
<1>4. ContentInv
  BY DEF Init, ContentInv, Begun, Entered, Rewriting
<1>3. PlaceInv
  BY DEF Init, PlaceInv
<1> QED
  BY <1>1, <1>2, <1>3, <1>4 DEF IInv

(* The container is set up once.                                           *)
LEMMA DepStays == [Next]_vars => dep' = dep
  BY DEF Next, Handle, Skip, FindPaths, ConfigFound, GenerateConfig, RegistrationFound, Register,
         RegisterFails, Chdir, Chown, ReadConfig, Truncate, WriteConfig, SetGid, SetUid, DropFails,
         Restart, EditConfig, vars

(* Where FindPaths looks for the config: without a flag and without a      *)
(* pinned directory, in the directory that already holds one.              *)
LEMMA FindPathsFinds ==
  TypeOK /\ PlaceInv /\ FindPaths =>
    /\ Resolve(configPath)' \in Candidates
    /\ configs # {} => Resolve(configPath)' \in configs
<1> SUFFICES ASSUME TypeOK, PlaceInv, FindPaths
             PROVE  /\ Resolve(configPath)' \in Candidates
                    /\ configs # {} => Resolve(configPath)' \in configs
  OBVIOUS
<1>1. cwd = dep.wd /\ cwd' = dep.wd
  BY DEF PlaceInv, FindPaths, pathVars
<1>2. \A d \in Seq(DirNames) : Absolute(d).abs /\ Absolute(d).dir = d
  BY DEF Absolute
<1>3. CASE dep.config # NoPath
  <2>1. Resolve(configPath)' = At(dep.config)
    BY <1>1, <1>3 DEF FindPaths, Resolve, At
  <2> QED
    BY <1>3, <2>1 DEF PlaceInv, Candidates
<1>4. CASE dep.config = NoPath /\ dep.dataDirEnv # NoPath
  <2>1. configPath' = dep.dataDirEnv
    BY <1>4 DEF FindPaths, DataDir
  <2>2. Resolve(configPath)' = At(dep.dataDirEnv)
    BY <1>1, <2>1 DEF Resolve, At
  <2> QED
    BY <1>4, <2>2 DEF PlaceInv, Candidates
<1>5. CASE dep.config = NoPath /\ dep.dataDirEnv = NoPath
  <2>1. configs \subseteq {Data, dep.wd}
    BY <1>5 DEF PlaceInv, Candidates
  <2>2. configPath' = DataDir
    BY <1>5 DEF FindPaths
  <2>3. CASE Data \in configs
    <3>1. configPath' = Absolute(Data)
      BY <1>5, <2>2, <2>3 DEF DataDir
    <3>2. Resolve(configPath)' = Data
      BY <3>1 DEF Resolve, Absolute
    <3> QED
      BY <1>5, <2>3, <3>2 DEF Candidates
  <2>4. CASE Data \notin configs /\ dep.wd \in configs
    <3>1. configPath' = Absolute(dep.wd)
      BY <1>1, <1>5, <2>2, <2>4 DEF DataDir
    <3>2. Resolve(configPath)' = dep.wd
      BY <3>1 DEF Resolve, Absolute
    <3> QED
      BY <1>5, <2>4, <3>2 DEF Candidates
  <2>5. CASE Data \notin configs /\ dep.wd \notin configs
    <3>1. configs = {}
      BY <2>1, <2>5
    <3>2. configPath' = Absolute(IF volume THEN Data ELSE dep.wd)
      BY <1>1, <1>5, <2>2, <2>5 DEF DataDir
    <3>3. Resolve(configPath)' \in {Data, dep.wd}
      BY <3>2 DEF Resolve, Absolute
    <3> QED
      BY <1>5, <3>1, <3>3 DEF Candidates
  <2> QED
    BY <2>3, <2>4, <2>5
<1> QED
  BY <1>3, <1>4, <1>5

-----------------------------------------------------------------------------
(* The steps keep ProcessInv: SetGid comes before SetUid.                  *)
LEMMA NextProcessInv == TypeOK /\ ProcessInv /\ [Next]_vars => ProcessInv'
<1> SUFFICES ASSUME TypeOK, ProcessInv, [Next]_vars PROVE ProcessInv'
  OBVIOUS
<1> USE DepStays DEF ProcessInv, Begun, Entered, IsEntryPoint
<1>1. CASE Skip
  BY <1>1 DEF Skip
<1>2. CASE FindPaths
  BY <1>2 DEF FindPaths
<1>3. CASE ConfigFound \/ GenerateConfig \/ RegistrationFound \/ Register \/ RegisterFails
           \/ Chdir \/ Chown \/ ReadConfig \/ Truncate \/ WriteConfig
  <2>1. /\ pc \in {"config", "register", "chdir", "perms", "read", "truncate", "write"}
        /\ pc' \notin {"start", "setuid", "main"}
    BY <1>3
    DEF ConfigFound, GenerateConfig, RegistrationFound, Register, RegisterFails, Chdir, Chown,
        ReadConfig, Truncate, WriteConfig
  <2> QED
    BY <2>1
<1>4. CASE SetGid
  <2>1. ids'.group = "target" /\ pc = "setgid" /\ pc' = "setuid"
    BY <1>4 DEF SetGid, TypeOK
  <2> QED
    BY <2>1
<1>5. CASE SetUid
  <2>1. ids'.user = "target" /\ ids'.group = ids.group /\ pc = "setuid" /\ pc' = "main"
    BY <1>5 DEF SetUid, TypeOK
  <2> QED
    BY <2>1
<1>6. CASE DropFails \/ Restart
  BY <1>6 DEF DropFails, Restart
<1>7. CASE UNCHANGED <<pc, ids>>
  BY <1>7
<1> QED
  BY <1>1, <1>2, <1>3, <1>4, <1>5, <1>6, <1>7 DEF Next, Handle, EditConfig, vars

(* The steps keep PlaceInv: a config is generated only where the one       *)
(* before it would have been found.                                        *)
LEMMA NextPlaceInv == TypeOK /\ PlaceInv /\ [Next]_vars => PlaceInv'
<1> SUFFICES ASSUME TypeOK, PlaceInv, [Next]_vars PROVE PlaceInv'
  OBVIOUS
<1>1. Candidates' = Candidates
  BY DepStays DEF Candidates, At
<1> USE <1>1, DepStays
<1>2. CASE FindPaths
  <2>1. configs' = configs /\ cwd' = cwd /\ pc = "start" /\ pc' = "config"
    BY <1>2 DEF FindPaths, fileVars
  <2> QED
    BY <1>2, <2>1, FindPathsFinds DEF PlaceInv
<1>3. CASE GenerateConfig
  <2>1. cwd' = cwd /\ pc = "config" /\ pc' # "config"
    BY <1>3 DEF GenerateConfig, pathVars
  <2>2. configs = {} /\ Resolve(configPath) \in Candidates
    BY <1>3 DEF GenerateConfig, PlaceInv
  <2>3. configs' \in {{}, {Resolve(configPath)}}
    BY <1>3, <2>2 DEF GenerateConfig
  <2> QED
    BY <2>1, <2>2, <2>3 DEF PlaceInv
<1>4. CASE Chdir
  BY <1>4 DEF Chdir, fileVars, PlaceInv
<1>5. CASE Restart
  BY <1>5 DEF Restart, PlaceInv
<1>6. CASE Skip \/ ConfigFound \/ RegistrationFound \/ Register \/ RegisterFails
           \/ Chown \/ ReadConfig \/ Truncate \/ WriteConfig \/ SetGid \/ SetUid \/ DropFails
  <2>1. UNCHANGED <<configs, cwd>> /\ pc' \notin {"start", "config"}
        /\ (pc' \in {"register", "chdir"} => pc \in {"config", "register"})
    BY <1>6
    DEF Skip, ConfigFound, RegistrationFound, Register, RegisterFails, Chown, ReadConfig,
        Truncate, WriteConfig, SetGid, SetUid, DropFails, fileVars, pathVars
  <2> QED
    BY <2>1 DEF PlaceInv
<1>7. CASE UNCHANGED <<configs, cwd, pc, configPath>>
  BY <1>7 DEF PlaceInv, Resolve
<1> QED
  BY <1>2, <1>3, <1>4, <1>5, <1>6, <1>7
  DEF Next, Handle, EditConfig, pathVars, vars, fileVars

-----------------------------------------------------------------------------
(* The steps keep ContentInv: with a registration the config is never the  *)
(* example, so that what is read with the log writer has the domain.       *)
LEMMA NextContentInv == TypeOK /\ PlaceInv /\ ContentInv /\ [Next]_vars => ContentInv'
<1> SUFFICES ASSUME TypeOK, PlaceInv, ContentInv, [Next]_vars PROVE ContentInv'
  OBVIOUS
<1> DEFINE Same == UNCHANGED <<configs, registrations, usable, torn, readOnlyLog>>
<1> USE DepStays DEF Begun, Entered, IsEntryPoint, Rewriting
<1>1. usable \cup torn \cup readOnlyLog \subseteq configs
  BY DEF TypeOK
<1>2. CASE Skip \/ FindPaths \/ ConfigFound \/ RegisterFails \/ DropFails \/ Restart
  <2>1. Same /\ (pc' \in {"start", "config", "register", "exited"} \/ (Skip /\ pc' = "main"))
    BY <1>2
    DEF Skip, FindPaths, ConfigFound, RegisterFails, DropFails, Restart, fileVars
  <2>2. ~ (Begun' /\ pc' \notin {"config", "register"})
    BY <2>1 DEF Skip
  <2> QED
    BY <2>1, <2>2 DEF ContentInv
<1>3. CASE GenerateConfig
  <2>1. configs = {}
    BY <1>3 DEF GenerateConfig, PlaceInv
  <2>2. registrations = {} /\ usable = {} /\ torn = {}
    BY <1>1, <2>1 DEF ContentInv
  <2>3. UNCHANGED <<registrations, usable, torn>> /\ pc' \in {"register", "exited"}
    BY <1>3 DEF GenerateConfig
  <2> QED
    BY <2>2, <2>3 DEF ContentInv
<1>4. CASE RegistrationFound
  <2>1. Same /\ pc' = "chdir" /\ registrations # {}
    BY <1>4 DEF RegistrationFound, fileVars
  <2> QED
    BY <2>1 DEF ContentInv
<1>5. CASE Register
  <2>1. Resolve(configPath) \in usable /\ registrations' # {} /\ pc' = "chdir"
    BY <1>5 DEF Register
  <2>2. configs # {} /\ configs \subseteq usable
    BY <1>1, <2>1 DEF PlaceInv
  <2>3. UNCHANGED <<configs, usable, torn, readOnlyLog>>
    BY <1>5 DEF Register
  <2> QED
    BY <2>1, <2>2, <2>3 DEF ContentInv
<1>6. CASE Chdir \/ Chown \/ SetGid \/ SetUid
  <2>1. /\ Same /\ pc \in {"chdir", "perms", "setgid", "setuid"}
        /\ pc' \notin {"truncate", "write"}
    BY <1>6 DEF Chdir, Chown, SetGid, SetUid, fileVars
  <2>2. registrations # {}
    BY <2>1 DEF ContentInv
  <2> QED
    BY <2>1, <2>2 DEF ContentInv
<1>7. CASE ReadConfig
  <2>1. Same /\ UNCHANGED pathVars /\ pc = "read" /\ registrations # {}
    BY <1>7 DEF ReadConfig, fileVars, ContentInv
  <2>2. CASE pc' = "setgid"
    BY <2>1, <2>2 DEF ContentInv
  <2>3. CASE pc' = "truncate"
    <3>1. Config \in readOnlyLog
      BY <1>7, <2>3 DEF ReadConfig
    <3>2. Config \in usable
      BY <1>1, <2>1, <3>1 DEF ContentInv
    <3>3. "usable" \in draft'
      BY <1>7, <2>3, <3>2 DEF ReadConfig
    <3>4. Config' = Config
      BY <2>1 DEF Config, Resolve, pathVars
    <3> QED
      BY <2>1, <2>3, <3>1, <3>3, <3>4 DEF ContentInv
  <2> QED
    BY <1>7, <2>2, <2>3 DEF ReadConfig
<1>8. CASE Truncate
  <2>1. /\ UNCHANGED <<configs, registrations, draft>> /\ registrations # {}
        /\ "usable" \in draft /\ Config \in configs /\ pc' \in {"write", "setgid"}
    BY <1>8 DEF Truncate, ContentInv, TypeOK
  <2>2. torn' \cap (usable' \cup readOnlyLog') = {}
    BY <1>8 DEF Truncate, ContentInv
  <2>3. configs \subseteq usable' \cup torn'
    BY <1>8, <2>1 DEF Truncate, ContentInv
  <2> QED
    BY <2>1, <2>2, <2>3 DEF ContentInv
<1>9. CASE WriteConfig
  <2>1. /\ UNCHANGED <<configs, registrations>> /\ registrations # {}
        /\ "usable" \in draft /\ Config \in configs /\ pc' = "setgid"
    BY <1>9 DEF WriteConfig, ContentInv, TypeOK
  <2>2. torn' \cap (usable' \cup readOnlyLog') = {}
    BY <1>9, <2>1 DEF WriteConfig, ContentInv
  <2>3. configs \subseteq usable' \cup torn'
    BY <1>9, <2>1 DEF WriteConfig, ContentInv
  <2> QED
    BY <2>1, <2>2, <2>3 DEF ContentInv
<1>10. ASSUME NEW d \in configs, EditConfig(d) PROVE ContentInv'
  <2>1. UNCHANGED <<dep, configs, registrations, pc, pathVars, draft>>
    BY <1>10 DEF EditConfig
  <2>2. /\ torn' \cap (usable' \cup readOnlyLog') = {}
        /\ usable \cup torn \subseteq usable' \cup torn' /\ readOnlyLog \subseteq readOnlyLog'
    BY <1>10 DEF EditConfig, ContentInv
  <2>3. Config' = Config
    BY <2>1 DEF Config, Resolve, pathVars
  <2> QED
    BY <2>1, <2>2, <2>3 DEF ContentInv
<1>11. CASE UNCHANGED vars
  <2>1. Same /\ UNCHANGED <<dep, pc, pathVars, draft>>
    BY <1>11 DEF vars, fileVars, permVars
  <2>2. Config' = Config
    BY <2>1 DEF Config, Resolve, pathVars
  <2> QED
    BY <2>1, <2>2 DEF ContentInv
<1> QED
  BY <1>2, <1>3, <1>4, <1>5, <1>6, <1>7, <1>8, <1>9, <1>10, <1>11 DEF Next, Handle

-----------------------------------------------------------------------------
(* Chown reaches the config and the registration, whether the directory *)
(* of the config is one whose tree it may not touch or not.                *)
LEMMA ChownReaches ==
  ASSUME TypeOK, configPath.abs, regPath.abs,
         configPath.dir \in configs, regPath.dir \in registrations,
         ~ (configPath = regPath /\ configPath.dir \in SystemDirs)
  PROVE  {<<"config", configPath.dir>>, <<"registration", regPath.dir>>}
           \subseteq Chowned \cap Files
<1>1. {<<"config", configPath.dir>>, <<"registration", regPath.dir>>} \subseteq Files
  BY DEF Files
<1>2. configPath.dir \in Seq(DirNames)
  BY DEF TypeOK, Path
<1>3. IsPrefix(configPath.dir, configPath.dir)
  BY <1>2 DEF IsPrefix
<1>4. Resolve(configPath) = configPath.dir /\ Resolve(regPath) = regPath.dir
  BY DEF Resolve
<1>5. <<"config", configPath.dir>> \in Chowned
  <2>1. CASE configPath.dir \in SystemDirs
    BY <2>1 DEF Chowned
  <2>2. CASE configPath.dir \notin SystemDirs
    <3>1. <<"config", configPath.dir>> \in {f \in Files : IsPrefix(configPath.dir, f[2])}
      BY <1>1, <1>3
    <3> QED
      BY <1>4, <2>2, <3>1 DEF Chowned
  <2> QED
    BY <2>1, <2>2
<1>6. <<"registration", regPath.dir>> \in Chowned
  <2>1. CASE regPath # configPath
    BY <1>4, <2>1 DEF Chowned
  <2>2. CASE regPath = configPath
    <3>1. <<"registration", regPath.dir>> \in {f \in Files : IsPrefix(configPath.dir, f[2])}
      BY <1>1, <1>3, <2>2
    <3> QED
      BY <1>4, <2>2, <3>1 DEF Chowned
  <2> QED
    BY <2>1, <2>2
<1> QED
  BY <1>1, <1>5, <1>6

(* The steps keep StageInv: what a stage has left behind no later one      *)
(* takes away.                                                             *)
LEMMA NextStageInv == TypeOK /\ StageInv /\ [Next]_vars => StageInv'
<1> SUFFICES ASSUME TypeOK, StageInv, [Next]_vars, AllAbsolute, Begun' PROVE StageInv'
  BY DepStays DEF StageInv, AllAbsolute
<1> DEFINE Collide == configPath = regPath /\ configPath.dir \in SystemDirs
           Both == {<<"config", configPath.dir>>, <<"registration", regPath.dir>>}
<1>1. CASE Skip
  BY <1>1, DepStays DEF Skip, Begun, Entered, IsEntryPoint
<1>2. CASE FindPaths
  <2>1. DataDir.abs
    <3>1. CASE dep.dataDirEnv # NoPath
      BY <3>1 DEF DataDir, AllAbsolute
    <3>2. CASE dep.dataDirEnv = NoPath
      <4>1. \E d : DataDir = Absolute(d)
        BY <3>2 DEF DataDir
      <4> QED
        BY <4>1 DEF Absolute
    <3> QED
      BY <3>1, <3>2
  <2>2. configPath'.abs /\ regPath'.abs /\ pc' = "config"
    BY <1>2, <2>1 DEF FindPaths, AllAbsolute
  <2> QED
    BY <2>2 DEF StageInv
<1>3. CASE ConfigFound \/ GenerateConfig
  <2>1. configPath.abs /\ regPath.abs
    BY <1>3 DEF ConfigFound, GenerateConfig, StageInv, Begun
  <2>2. Resolve(configPath) = configPath.dir
    BY <2>1 DEF Resolve
  <2>3. pc' = "register" /\ configPath.dir \in configs' /\ UNCHANGED <<configPath, regPath>>
    BY <1>3, <2>2 DEF ConfigFound, GenerateConfig, pathVars, fileVars, Begun
  <2> QED
    BY <2>1, <2>3 DEF StageInv
<1>4. CASE RegistrationFound \/ Register \/ RegisterFails
  <2>1. configPath.abs /\ regPath.abs /\ configPath.dir \in configs
    BY <1>4 DEF RegistrationFound, Register, RegisterFails, StageInv, Begun
  <2>2. Resolve(regPath) = regPath.dir
    BY <2>1 DEF Resolve
  <2>3. /\ pc' = "register" \/ (pc' = "chdir" /\ regPath.dir \in registrations')
        /\ UNCHANGED <<configs, configPath, regPath>>
    BY <1>4, <2>2 DEF RegistrationFound, Register, RegisterFails, pathVars, fileVars
  <2> QED
    BY <2>1, <2>3 DEF StageInv
<1>5. CASE Chdir
  BY <1>5 DEF Chdir, StageInv, Begun, fileVars
<1>6. CASE Chown
  <2>1. /\ configPath.abs /\ regPath.abs
        /\ configPath.dir \in configs /\ regPath.dir \in registrations
    BY <1>6 DEF Chown, StageInv, Begun
  <2>2. ~ Collide => Both \subseteq owned' \cup missed'
    BY <1>6, <2>1, ChownReaches DEF Chown
  <2>3. UNCHANGED <<configs, registrations, configPath, regPath>> /\ pc' = "read"
    BY <1>6 DEF Chown, pathVars
  <2> QED
    BY <2>1, <2>2, <2>3 DEF StageInv
<1>7. CASE ReadConfig \/ Truncate \/ WriteConfig
  <2>1. /\ pc \in {"read", "truncate", "write"} /\ Begun
        /\ pc' \in {"truncate", "write", "setgid"}
        /\ UNCHANGED <<configs, registrations, owned, pathVars>> /\ missed \subseteq missed'
    BY <1>7 DEF ReadConfig, Truncate, WriteConfig, Begun, fileVars, permVars
  <2>2. configPath.abs /\ Config = configPath.dir
    BY <2>1 DEF StageInv, Config, Resolve
  <2>3. pc' \in {"write", "setgid"} /\ configPath.dir \in readOnlyLog' => LogWriter \in missed'
    <3>1. CASE ReadConfig
      BY <2>2, <3>1 DEF ReadConfig, fileVars
    <3>2. CASE Truncate
      BY <2>2, <3>2 DEF Truncate
    <3>3. CASE WriteConfig
      BY <2>1, <2>2, <3>3 DEF WriteConfig, StageInv, permVars
    <3> QED
      BY <1>7, <3>1, <3>2, <3>3
  <2> QED
    BY <2>1, <2>3 DEF StageInv, pathVars
<1>8. CASE SetGid \/ SetUid
  <2>1. /\ pc \in {"setgid", "setuid"} /\ pc' \in {"setuid", "main"}
        /\ UNCHANGED <<fileVars, pathVars, permVars>>
    BY <1>8 DEF SetGid, SetUid
  <2> QED
    BY <2>1 DEF StageInv, Begun, fileVars, pathVars, permVars
<1>9. CASE DropFails \/ Restart
  BY <1>9 DEF DropFails, Restart, Begun
<1>10. ASSUME NEW d \in configs, EditConfig(d) PROVE StageInv'
  <2>1. /\ UNCHANGED <<dep, configs, registrations, owned, pc, pathVars>>
        /\ missed \subseteq missed'
        /\ readOnlyLog' = readOnlyLog \/ LogWriter \in missed'
    BY <1>10 DEF EditConfig
  <2>2. Begun
    BY <2>1 DEF Begun, Entered, IsEntryPoint
  <2> QED
    BY <2>1, <2>2 DEF StageInv, pathVars
<1>11. CASE UNCHANGED vars
  <2>1. UNCHANGED <<dep, configs, registrations, readOnlyLog, owned, missed, pc, pathVars>>
    BY <1>11 DEF vars, fileVars, permVars
  <2>2. Begun
    BY <2>1 DEF Begun, Entered, IsEntryPoint
  <2> QED
    BY <2>1, <2>2 DEF StageInv, pathVars
<1> QED
  BY <1>1, <1>2, <1>3, <1>4, <1>5, <1>6, <1>7, <1>8, <1>9, <1>10, <1>11 DEF Next, Handle

LEMMA NextInv == IInv /\ [Next]_vars => IInv'
  BY NextTypeOK, NextProcessInv, NextPlaceInv, NextContentInv, NextStageInv DEF IInv

LEMMA InvHolds == Spec => []IInv
  BY InitInv, NextInv, PTL DEF Spec

-----------------------------------------------------------------------------
(* In whatever state a start found the files, the bridge that runs after   *)
(* the bootstrap has dropped its user and its group, runs with a config    *)
(* that is not the example, owns its config and its registration, and does *)
(* not log to the read-only place, but for what fixPerms of that start     *)
(* tried in vain (Handle, fixPerms, dropPrivileges).                       *)
THEOREM TheBridgeIsReady == Spec => []BridgeIsReady
<1>1. IInv => BridgeIsReady
  <2> SUFFICES ASSUME IInv, Entered PROVE BridgeIsReady
    BY DEF BridgeIsReady
  <2>1. ids = Target
    BY DEF IInv, TypeOK, ProcessInv, Target
  <2>2. Begun /\ pc = "main"
    BY DEF Begun, Entered
  <2>3. configs \subseteq usable \cup torn
    BY <2>2 DEF IInv, ContentInv
  <2> QED
    BY <2>1, <2>2, <2>3 DEF IInv, StageInv, AllAbsolute, BridgeIsReady
<1> QED
  BY <1>1, InvHolds, PTL

(* What the administrator put into the config stays, but for what the      *)
(* rewriting of a config with the log writer loses, and every later start  *)
(* takes the config from there, a torn one too (rule 2 of dataDir,         *)
(* waitForRegistration, removeReadOnlyLogWriter).                          *)
THEOREM TheEditsSurvive == Spec => EditsSurvive
<1> DEFINE Kept == \/ usable \subseteq usable' /\ tuned \subseteq tuned'
                   \/ pc = "truncate" /\ Config \in readOnlyLog
                   \/ pc = "write"
           Found == usable \cup torn # {} /\ pc = "start" /\ pc' = "config" =>
                      Config' \in usable \cup torn
<1>1. IInv /\ [Next]_vars => [Kept /\ usable \subseteq usable' \cup torn' /\ Found]_vars
  <2> SUFFICES ASSUME IInv, Next PROVE Kept /\ usable \subseteq usable' \cup torn' /\ Found
    BY DEF vars
  <2>1. usable \cup torn \subseteq configs /\ \A d, e \in configs : d = e
    BY DEF IInv, TypeOK, PlaceInv
  <2>2. Kept /\ usable \subseteq usable' \cup torn'
    <3>1. CASE Truncate
      BY <3>1 DEF Truncate, IInv, ContentInv
    <3>2. CASE WriteConfig
      BY <3>2 DEF WriteConfig, IInv, ContentInv, Rewriting
    <3>3. CASE \E d \in configs : EditConfig(d)
      BY <3>3 DEF EditConfig
    <3>4. CASE UNCHANGED <<usable, tuned>>
      BY <3>4
    <3> QED
      BY <3>1, <3>2, <3>3, <3>4
      DEF Next, Handle, Skip, FindPaths, ConfigFound, GenerateConfig, RegistrationFound, Register,
          RegisterFails, Chdir, Chown, ReadConfig, SetGid, SetUid, DropFails, Restart, fileVars
  <2>3. Found
    <3> SUFFICES ASSUME usable \cup torn # {}, pc = "start", pc' = "config"
                 PROVE  Config' \in usable \cup torn
      OBVIOUS
    <3>1. FindPaths
      BY DEF Next, Handle, Skip, ConfigFound, GenerateConfig, RegistrationFound, Register,
             RegisterFails, Chdir, Chown, ReadConfig, Truncate, WriteConfig, SetGid, SetUid,
             DropFails, Restart, EditConfig
    <3>2. Config' \in configs
      BY <2>1, <3>1, FindPathsFinds DEF IInv, Config
    <3> QED
      BY <2>1, <3>2
  <2> QED
    BY <2>2, <2>3
<1> QED
  BY <1>1, InvHolds, PTL DEF Spec, EditsSurvive
=============================================================================
