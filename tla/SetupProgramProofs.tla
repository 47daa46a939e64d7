------------------------- MODULE SetupProgramProofs -------------------------
(***************************************************************************)
(* Proofs about SetupProgram, for any configurations and versions, any     *)
(* archive and any sequence of jobs, failures and crashes: where asset and *)
(* configurations are at each step of an installation, what a success      *)
(* leaves behind, and that an installation is what Installer promises.     *)
(***************************************************************************)
EXTENDS SetupProgram, TLAPS

-----------------------------------------------------------------------------
(* The inductive invariant. *)

(* Which job each step is one of, and what the steps before it have done. *)
SavedSteps == {"save_asset", "save_configs", "clear_main", "return_asset", "return_configs"}
FilledSteps == {"return_asset", "return_configs", "drop_temp"}

JobOK ==
    /\ IF pc \in Steps THEN job \in Job /\ want[FileOf(job)] = Torn
                       ELSE job = NoJob /\ ~kept /\ pairs = {}
    /\ pc \in BuildSteps => job.type = "build"
    /\ pc = "clear_asset" => job.type \in {"asset", "noasset"}
    /\ pc = "fill_asset" => job.type = "asset"
    /\ pc \in {"open_config", "write_config"} => job.type \in Configs

DirectoriesOK ==
    /\ pc \in Steps \ {"make_main", "clear_asset", "open_config"} => main
    /\ pc = "make_temp" => ~temp
    /\ pc \in {"clear_temp", "make_temp"} => ~kept
    /\ pc \in SavedSteps => kept
    /\ kept => temp
    /\ pc \in FilledSteps => build = job.ver

(* Where an item is that was in place when the build began. *)
Here(i)  == here[i] = want[i]
There(i) == there[i] = want[i] /\ (i \in Configs => i \in pairs)

Place(i) ==
    /\ pc \in {"clear_temp", "make_temp", "drop_temp"} => Here(i)
    /\ pc = "save_asset" => Here(i) /\ (i \in Configs => i \in pairs)
    /\ pc = "save_configs" =>
          IF i = "asset" THEN There(i)
          ELSE i \in pairs /\ (Here(i) \/ (here[i] = 0 /\ There(i)))
    /\ pc \in {"clear_main", "return_asset"} => There(i)
    /\ pc \in {"make_main", "unpack"} => kept /\ There(i)
    /\ pc = "return_configs" => IF i \in pairs THEN There(i) ELSE Here(i)
    /\ want[i] \in {here[i], there[i]}

PlacesOK == \A i \in Items \ lost : want[i] \in Versions => Place(i)

(* After a success. *)
CleanOK ==
    want["build"] \in Versions =>
        /\ ~temp /\ main /\ build = want["build"]
        /\ \A i \in Items \ lost : want[i] \in Versions => Here(i)

(* An asset that was never installed, or was deleted, can only have been shipped. *)
NoAssetOK ==
    want["asset"] = 0 =>
        /\ here["asset"] \in {0, Shipped}
        /\ kept /\ pc # "drop_temp" => there["asset"] \in {0, Shipped}

(* A lost asset is not found again before it is installed anew. *)
LostAssetOK ==
    "asset" \in lost /\ want["asset"] \in Versions =>
        /\ here["asset"] # want["asset"]
        /\ kept /\ pc # "drop_temp" => there["asset"] # want["asset"]

SetupInv ==
    /\ SetupTypeOK /\ JobOK /\ DirectoriesOK
    /\ PlacesOK /\ CleanOK /\ NoAssetOK /\ LostAssetOK

-----------------------------------------------------------------------------
(* A job has one file, of an item or the build. *)
LEMMA JobFacts ==
    ASSUME NEW j \in Job
    PROVE  /\ j.type \in Types /\ FileOf(j) \in Items \cup {"build"}
           /\ j.ver \in Versions \cup {0}
           /\ j.type # "noasset" => j.ver \in Versions
           /\ j.type \in Configs => /\ FileOf(j) = j.type
                                    /\ j.type \notin {"build", "asset", "noasset"}
  BY SetupAssumption DEF Job, Types, FileOf, Items

LEMMA ContentFacts ==
    /\ 0 \in Content /\ Torn \in Content /\ Shipped \in Content
    /\ Versions \subseteq Content
    /\ Nothing \in [Items -> Content] /\ (\A i \in Items : Nothing[i] = 0)
    /\ "asset" \in Items /\ Configs \subseteq Items
    /\ 0 \notin Versions /\ Torn \notin Versions /\ Shipped \notin Versions
    /\ Torn # 0 /\ Shipped # 0 /\ Torn # Shipped
<1>1. /\ 0 \in Content /\ Torn \in Content /\ Shipped \in Content
      /\ Versions \subseteq Content
  BY DEF Content
<1>2. Torn # 0 /\ Shipped # 0 /\ Torn # Shipped /\ 0 \notin Versions
  BY SetupAssumption
<1>3. Torn \notin Versions /\ Shipped \notin Versions
  BY SetupAssumption
<1>4. QED
  BY <1>1, <1>2, <1>3 DEF Nothing, Items

LEMMA InitOK == Init => SetupInv
  BY SetupAssumption, ContentFacts
  DEF Init, SetupInv, SetupTypeOK, JobOK, DirectoriesOK, PlacesOK, CleanOK, NoAssetOK,
      LostAssetOK, Nothing, NoHashes, Content, Steps, BuildSteps, ClearTemp, FilledSteps,
      SavedSteps, Items

LEMMA SucceedType ==
    ASSUME SetupTypeOK, NEW f \in Items \cup {"build"}, NEW v \in Versions \cup {0},
           Succeed(f, v)
    PROVE  /\ pc' = "idle" /\ job' = NoJob /\ kept' = FALSE /\ pairs' = {}
           /\ hash' \in [{"build", "asset"} -> Versions \cup {0}]
           /\ saved' \in [{"build", "asset"} -> Versions \cup {0}] \cup {Torn}
           /\ want' \in [Items \cup {"build"} -> Versions \cup {0, Torn}]
           /\ lost' \subseteq Items
<1>1. f \notin Configs => f \in {"build", "asset"}
  BY DEF Items
<1>2. QED
  BY <1>1 DEF Succeed, Return, SetupTypeOK

LEMMA TypeStep ==
    ASSUME SetupTypeOK, JobOK, DirectoriesOK, Next
    PROVE  SetupTypeOK'
<1> USE ContentFacts, JobFacts
    DEF SetupTypeOK, JobOK, DirectoriesOK, FilledSteps, SavedSteps, Step, disc
<1>1. ASSUME NEW j \in Jobs, Begin(j)
      PROVE  SetupTypeOK'
  <2>1. j \in Job
    BY SetupAssumption
  <2>2. pc' \in Steps
    BY <1>1, <2>1, SetupAssumption DEF Begin, Steps, BuildSteps, ClearTemp, Types, FileOf
  <2>3. lost' \subseteq Items
    BY <1>1 DEF Begin
  <2>4. QED
    BY <1>1, <2>1, <2>2, <2>3 DEF Begin
<1>2. CASE clear_temp
  <2>1. CASE RemoveTempEntry /\ Step("clear_temp", "clear_temp")
    BY <2>1 DEF RemoveTempEntry, Remains
  <2>2. CASE TempRemoved /\ Step("clear_temp", "make_temp")
    <3>1. /\ UNCHANGED <<job, hash, saved, want, lost, kept, pairs, main, build, here, there>>
          /\ temp' = FALSE /\ there = Nothing
      BY <2>2 DEF TempRemoved
    <3>2. pc' \in Steps
      BY <2>2 DEF Steps, BuildSteps
    <3>3. QED
      BY <3>1, <3>2
  <2>3. QED
    BY <1>2, <2>1, <2>2 DEF clear_temp
<1>3. CASE make_temp
  BY <1>3 DEF make_temp, Steps, BuildSteps
<1>4. CASE save_asset
  BY <1>4 DEF save_asset, MoveOut, Steps, BuildSteps
<1>5. CASE save_configs
  BY <1>5 DEF save_configs, MoveOut, Steps, BuildSteps
<1>6. CASE clear_main
  BY <1>6 DEF clear_main, Steps, BuildSteps
<1>7. CASE make_main
  BY <1>7 DEF make_main, Steps, BuildSteps
<1>8. CASE unpack
  BY <1>8 DEF unpack, Steps, BuildSteps, ClearTemp
<1>9. CASE return_asset
  BY <1>9 DEF return_asset, MoveBack, Steps, BuildSteps
<1>10. CASE return_configs
  <2>1. pc' \in Steps /\ main /\ temp /\ UNCHANGED <<kept, main, build, temp>>
    BY <1>10 DEF return_configs, Steps, BuildSteps, ClearTemp
  <2>2. /\ here' \in [Items -> Content] /\ there' \in [Items -> Content]
        /\ pairs' \subseteq Configs
    BY <1>10 DEF return_configs, MoveBack
  <2>3. QED
    BY <1>10, <2>1, <2>2 DEF return_configs
<1>11. CASE drop_temp
  <2>1. CASE RemoveTempEntry /\ Step("drop_temp", "drop_temp")
    BY <2>1 DEF RemoveTempEntry, Remains, Steps, BuildSteps, ClearTemp
  <2>2. CASE pc = "drop_temp" /\ temp' = FALSE /\ there = Nothing
             /\ UNCHANGED <<main, build, here, there>> /\ Succeed("build", job.ver)
    <3>1. job.ver \in Versions
      BY <2>2 DEF Steps, BuildSteps, ClearTemp
    <3>2. QED
      BY <2>2, <3>1, SucceedType
  <2>3. QED
    BY <1>11, <2>1, <2>2 DEF drop_temp
<1>12. CASE clear_asset
  <2>1. main /\ here["asset"] # 0 /\ UNCHANGED <<main, build, temp, there>>
    BY <1>12 DEF clear_asset
  <2>2. here' \in [Items -> Content]
    BY <1>12 DEF clear_asset
  <2>3. CASE Succeed("asset", 0)
    BY <2>1, <2>2, <2>3, SucceedType
  <2>4. CASE pc' \in {"clear_asset", "fill_asset"} /\ UNCHANGED <<kept, pairs>>
             /\ Step("clear_asset", pc')
    BY <2>1, <2>2, <2>4 DEF Steps
  <2>5. QED
    BY <1>12, <2>3, <2>4 DEF clear_asset
<1>13. CASE fill_asset
  <2>1. main /\ job.ver \in Versions
    BY <1>13 DEF fill_asset, Steps
  <2>2. CASE Succeed("asset", job.ver) /\ here' = [here EXCEPT !["asset"] = job.ver]
             /\ UNCHANGED <<main, build, temp, there>>
    BY <2>1, <2>2, SucceedType
  <2>3. CASE Step("fill_asset", "fill_asset") /\ here' = [here EXCEPT !["asset"] = Torn]
             /\ UNCHANGED <<kept, pairs, main, build, temp, there>>
    BY <2>1, <2>3
  <2>4. QED
    BY <1>13, <2>2, <2>3 DEF fill_asset
<1>14. CASE setup_config
  <2>1. job.type \in Configs /\ job.ver \in Versions
    BY <1>14 DEF setup_config, open_config, write_config, Steps
  <2>2. here' \in [Items -> Content]
    BY <1>14, <2>1 DEF setup_config, open_config, write_config
  <2>3. CASE open_config
    <3>1. pc' \in Steps /\ main'
      BY <2>3 DEF open_config, Steps
    <3>2. QED
      BY <2>2, <2>3, <3>1 DEF open_config
  <2>4. CASE write_config
    <3>1. main /\ UNCHANGED <<main, build, temp, there>> /\ Succeed(job.type, job.ver)
      BY <2>4 DEF write_config
    <3>2. QED
      BY <2>1, <2>2, <3>1, SucceedType
  <2>5. QED
    BY <1>14, <2>3, <2>4 DEF setup_config
<1>15. CASE Fails \/ sys_hash_saver \/ Crash \/ startup
  BY <1>15 DEF Fails, sys_hash_saver, Crash, startup, Return, NoHashes
<1>16. QED
  BY <1>1, <1>2, <1>3, <1>4, <1>5, <1>6, <1>7, <1>8, <1>9, <1>10, <1>11, <1>12, <1>13,
     <1>14, <1>15 DEF Next, setup_program

LEMMA BeginEffect ==
    ASSUME NEW j \in Jobs, Begin(j)
    PROVE  /\ j \in Job /\ job' = j /\ pc' \in Steps /\ pc = "idle"
           /\ j.type = "build" => pc' \in {"clear_temp", "make_temp", "make_main"}
           /\ j.type = "build" => (pc' = "make_main" <=> ~main)
           /\ pc' = "make_temp" => ~temp
           /\ j.type \in {"asset", "noasset"} => pc' = "clear_asset"
           /\ j.type \in Configs => pc' = "open_config"
<1>1. j \in Job /\ FileOf(j) = (IF j.type = "noasset" THEN "asset" ELSE j.type)
      /\ j.type \in Types
  BY SetupAssumption, JobFacts DEF FileOf
<1>2. pc' = CASE j.type = "build" /\ main  -> IF temp THEN "clear_temp" ELSE "make_temp"
               [] j.type = "build" /\ ~main -> "make_main"
               [] FileOf(j) = "asset"       -> "clear_asset"
               [] j.type \in Configs        -> "open_config"
  BY DEF Begin
<1>3. CASE j.type = "build"
  BY <1>1, <1>2, <1>3, SetupAssumption DEF Begin, Steps, BuildSteps, ClearTemp
<1>4. CASE j.type \in {"asset", "noasset"}
  BY <1>1, <1>2, <1>4, SetupAssumption DEF Begin, Steps
<1>5. CASE j.type \in Configs
  BY <1>1, <1>2, <1>5, SetupAssumption DEF Begin, Steps
<1>6. QED
  BY <1>1, <1>3, <1>4, <1>5 DEF Types

(* A step of a job goes on with the job, or is its success. *)
InstallStep == setup_program \/ clear_asset \/ fill_asset \/ setup_config

GoesOn ==
    /\ pc \in Steps /\ pc' \in Steps /\ UNCHANGED <<job, hash, saved, want, lost>>
    /\ pc \in BuildSteps <=> pc' \in BuildSteps
    /\ pc' = "clear_asset" => pc = "clear_asset"
    /\ pc' = "fill_asset" => job.type = "asset"
    /\ pc' \in {"open_config", "write_config"} => pc = "open_config"

Success ==
    /\ pc \in {"drop_temp", "clear_asset", "fill_asset", "write_config"}
    /\ Succeed(FileOf(job), job.ver)

LEMMA InstallEffect ==
    ASSUME JobOK, InstallStep
    PROVE  GoesOn \/ Success
<1>1. CASE setup_program /\ ~(pc = "drop_temp" /\ Succeed("build", job.ver))
  BY <1>1
  DEF setup_program, clear_temp, make_temp, save_asset, save_configs, clear_main, make_main,
      unpack, return_asset, return_configs, drop_temp, Step, GoesOn, Steps, BuildSteps, ClearTemp
<1>2. CASE pc = "drop_temp" /\ Succeed("build", job.ver)
  BY <1>2 DEF Success, JobOK, FileOf, BuildSteps, ClearTemp
<1>3. CASE clear_asset
  <2>1. job \in Job
    BY <1>3 DEF clear_asset, JobOK, Steps
  <2>2. job.type = "noasset" => job.ver = 0 /\ FileOf(job) = "asset"
    BY <2>1, SetupAssumption DEF Job, FileOf, Types
  <2>3. QED
    BY <1>3, <2>2 DEF clear_asset, Step, GoesOn, Success, Steps, BuildSteps, ClearTemp
<1>4. CASE fill_asset
  BY <1>4 DEF fill_asset, Step, GoesOn, Success, Steps, BuildSteps, ClearTemp, JobOK, FileOf
<1>5. CASE setup_config
  <2>1. job.type \in Configs => FileOf(job) = job.type
    BY SetupAssumption DEF FileOf
  <2>2. QED
    BY <1>5, <2>1 DEF setup_config, open_config, write_config, Step, GoesOn, Success, Steps,
                      BuildSteps, ClearTemp, JobOK
<1>6. QED
  BY <1>1, <1>2, <1>3, <1>4, <1>5 DEF InstallStep

LEMMA JobStep ==
    ASSUME SetupTypeOK, JobOK, Next
    PROVE  JobOK'
<1> USE DEF JobOK
<1>1. ASSUME NEW j \in Jobs, Begin(j)
      PROVE  JobOK'
  <2>1. want'[FileOf(j)] = Torn
    BY <1>1, BeginEffect, JobFacts DEF Begin, SetupTypeOK
  <2>2. QED
    BY <1>1, <2>1, BeginEffect, JobFacts, SetupAssumption
    DEF Types, Steps, BuildSteps, ClearTemp
<1>2. CASE InstallStep
  <2>1. CASE GoesOn
    BY <2>1 DEF GoesOn
  <2>2. CASE Success
    BY <2>2 DEF Success, Succeed, Return, Steps, BuildSteps, ClearTemp
  <2>3. QED
    BY <1>2, <2>1, <2>2, InstallEffect
<1>3. CASE Fails \/ Crash
  BY <1>3 DEF Fails, Crash, Return, Steps, BuildSteps, ClearTemp
<1>4. CASE sys_hash_saver \/ startup
  BY <1>4 DEF sys_hash_saver, startup, Steps, BuildSteps, ClearTemp
<1>5. QED
  BY <1>1, <1>2, <1>3, <1>4 DEF Next, InstallStep

LEMMA DirectoriesStep ==
    ASSUME SetupTypeOK, JobOK, DirectoriesOK, Next
    PROVE  DirectoriesOK'
<1> USE DEF DirectoriesOK, SavedSteps, FilledSteps, Steps, BuildSteps, ClearTemp
<1>1. ASSUME NEW j \in Jobs, Begin(j)
      PROVE  DirectoriesOK'
  <2>1. UNCHANGED <<main, temp, build, kept>> /\ ~kept
    BY <1>1, BeginEffect DEF Begin, disc, JobOK
  <2>2. pc' \in {"clear_temp", "make_temp", "make_main", "clear_asset", "open_config"}
    BY <1>1, BeginEffect, JobFacts DEF Types
  <2>3. pc' = "clear_temp" \/ pc' = "make_temp" => main
    BY <1>1, BeginEffect, JobFacts DEF Types
  <2>4. QED
    BY <1>1, <2>1, <2>2, <2>3, BeginEffect
<1>2. CASE clear_temp
  BY <1>2 DEF clear_temp, RemoveTempEntry, TempRemoved, Step
<1>3. CASE make_temp \/ save_asset \/ save_configs
  BY <1>3 DEF make_temp, save_asset, save_configs, MoveOut, Step, disc
<1>4. CASE clear_main \/ make_main
  BY <1>4 DEF clear_main, make_main, Step
<1>5. CASE unpack
  BY <1>5 DEF unpack, Step
<1>6. CASE return_asset \/ return_configs
  BY <1>6 DEF return_asset, return_configs, MoveBack, Step, disc
<1>7. CASE drop_temp
  BY <1>7 DEF drop_temp, RemoveTempEntry, Step, Succeed, Return
<1>8. CASE clear_asset \/ fill_asset
  <2>1. here["asset"] # 0 => main
    BY ContentFacts DEF SetupTypeOK
  <2>2. QED
    BY <1>8, <2>1 DEF clear_asset, fill_asset, Step, Succeed, Return
<1>9. CASE setup_config
  BY <1>9 DEF setup_config, open_config, write_config, Step, Succeed, Return
<1>10. CASE Fails \/ Crash
  BY <1>10 DEF Fails, Crash, Return, disc
<1>11. CASE sys_hash_saver \/ startup
  BY <1>11 DEF sys_hash_saver, startup, disc
<1>12. QED
  BY <1>1, <1>2, <1>3, <1>4, <1>5, <1>6, <1>7, <1>8, <1>9, <1>10, <1>11
  DEF Next, setup_program

LEMMA PlacesStep ==
    ASSUME SetupTypeOK, JobOK, DirectoriesOK, PlacesOK, Next
    PROVE  PlacesOK'
<1> SUFFICES ASSUME NEW i \in Items, i \notin lost', want'[i] \in Versions
             PROVE  Place(i)'
  BY DEF PlacesOK
<1> USE ContentFacts
    DEF PlacesOK, Place, Here, There, SetupTypeOK, Step, Steps, BuildSteps, ClearTemp
<1>0. i \in Configs \/ i = "asset"
  BY DEF Items
<1>1. ASSUME NEW j \in Jobs, Begin(j)
      PROVE  Place(i)'
  <2>1. UNCHANGED <<here, there>>
    BY <1>1 DEF Begin, disc
  <2>2. i # FileOf(j) /\ want'[i] = want[i]
    BY <1>1, BeginEffect, JobFacts DEF Begin
  <2>3. i \notin lost /\ (j.type = "build" => here[i] = want[i])
    BY <1>1, <2>2 DEF Begin
  <2>4. want[i] \in {here[i], there[i]}
    BY <2>2, <2>3
  <2>5. CASE j.type = "build" /\ pc' # "make_main"
    BY <1>1, <2>1, <2>2, <2>3, <2>5, BeginEffect
  <2>6. CASE j.type # "build"
    BY <1>1, <2>1, <2>2, <2>4, <2>6, BeginEffect, JobFacts DEF Types
  <2>7. CASE pc' = "make_main" /\ ~main
    BY <2>2, <2>3, <2>7, <1>1, BeginEffect, JobFacts DEF Types
  <2>8. QED
    BY <1>1, <2>5, <2>6, <2>7, BeginEffect
<1>2. CASE clear_temp
  BY <1>2 DEF clear_temp, RemoveTempEntry, TempRemoved
<1>3. CASE make_temp
  BY <1>0, <1>3 DEF make_temp
<1>4. CASE save_asset
  BY <1>0, <1>4, SetupAssumption DEF save_asset, MoveOut
<1>5. CASE save_configs
  BY <1>0, <1>5, SetupAssumption DEF save_configs, MoveOut, disc
<1>6. CASE clear_main
  BY <1>6, SetupAssumption DEF clear_main, DirectoriesOK, SavedSteps
<1>7. CASE make_main
  BY <1>7, SetupAssumption DEF make_main
<1>8. CASE unpack
  BY <1>8, SetupAssumption DEF unpack
<1>9. CASE return_asset
  BY <1>0, <1>9, SetupAssumption DEF return_asset, MoveBack
<1>10. CASE return_configs
  BY <1>0, <1>10, SetupAssumption DEF return_configs, MoveBack, disc
<1>11. CASE drop_temp
  BY <1>0, <1>11, SetupAssumption DEF drop_temp, RemoveTempEntry, Succeed, Return
<1>12. CASE clear_asset \/ fill_asset
  BY <1>0, <1>12, SetupAssumption DEF clear_asset, fill_asset, Succeed, Return, JobOK, FileOf
<1>13. CASE setup_config
  BY <1>0, <1>13, SetupAssumption
  DEF setup_config, open_config, write_config, Succeed, Return, JobOK, FileOf
<1>14. CASE Fails \/ Crash
  BY <1>14 DEF Fails, Crash, Return, disc
<1>15. CASE sys_hash_saver \/ startup
  BY <1>15 DEF sys_hash_saver, startup, disc
<1>16. QED
  BY <1>1, <1>2, <1>3, <1>4, <1>5, <1>6, <1>7, <1>8, <1>9, <1>10, <1>11, <1>12, <1>13,
     <1>14, <1>15 DEF Next, setup_program

LEMMA CleanStep ==
    ASSUME SetupTypeOK, JobOK, DirectoriesOK, PlacesOK, CleanOK, Next
    PROVE  CleanOK'
<1> USE ContentFacts
    DEF CleanOK, Here, SetupTypeOK, Step, Steps, BuildSteps, ClearTemp
<1>1. ASSUME NEW j \in Jobs, Begin(j)
      PROVE  CleanOK'
  BY <1>1, BeginEffect, JobFacts, SetupAssumption DEF Begin, disc, FileOf
<1>2. CASE pc \in BuildSteps
  <2>1. job.type = "build" /\ want["build"] \notin Versions
    BY <1>2 DEF JobOK, FileOf
  <2>2. want'["build"] \in Versions => drop_temp /\ Success
    BY <1>2, <2>1, InstallEffect
    DEF Next, Begin, Fails, Crash, sys_hash_saver, startup, GoesOn, Success, setup_program,
        clear_temp, make_temp, save_asset, save_configs, clear_main, make_main, unpack,
        return_asset, return_configs, drop_temp, clear_asset, fill_asset, setup_config,
        open_config, write_config, InstallStep
  <2>3. ASSUME drop_temp, Success
        PROVE  CleanOK'
    <3>1. /\ ~temp' /\ main /\ build = job.ver /\ UNCHANGED <<main, build, here>>
          /\ want' = [want EXCEPT !["build"] = job.ver] /\ lost' = lost \ {"build"}
      BY <2>1, <2>3
      DEF drop_temp, Success, Succeed, Return, DirectoriesOK, FilledSteps, FileOf
    <3>2. \A i \in Items : i # "build"
      BY SetupAssumption DEF Items
    <3>3. \A i \in Items \ lost : want[i] \in Versions => here[i] = want[i]
      BY <2>3 DEF drop_temp, PlacesOK, Place
    <3>4. QED
      BY <3>1, <3>2, <3>3
  <2>4. QED
    BY <2>2, <2>3
<1>3. CASE clear_asset \/ fill_asset
  BY <1>3, SetupAssumption
  DEF clear_asset, fill_asset, Succeed, Return, JobOK, DirectoriesOK, FileOf
<1>4. CASE setup_config
  BY <1>4, SetupAssumption
  DEF setup_config, open_config, write_config, Succeed, Return, JobOK, DirectoriesOK, FileOf
<1>5. CASE Fails \/ Crash
  BY <1>5 DEF Fails, Crash, Return, disc
<1>6. CASE sys_hash_saver \/ startup
  BY <1>6 DEF sys_hash_saver, startup, disc
<1>7. setup_program => pc \in BuildSteps
  BY DEF setup_program, clear_temp, make_temp, save_asset, save_configs, clear_main, make_main,
         unpack, return_asset, return_configs, drop_temp
<1>8. QED
  BY <1>1, <1>2, <1>3, <1>4, <1>5, <1>6, <1>7 DEF Next

LEMMA AssetStep ==
    ASSUME SetupTypeOK, JobOK, DirectoriesOK, NoAssetOK, LostAssetOK, Next
    PROVE  NoAssetOK' /\ LostAssetOK'
<1> USE ContentFacts
    DEF NoAssetOK, LostAssetOK, SetupTypeOK, Step, Steps, BuildSteps, ClearTemp
<1>1. ASSUME NEW j \in Jobs, Begin(j)
      PROVE  NoAssetOK' /\ LostAssetOK'
  BY <1>1, BeginEffect, JobFacts, SetupAssumption DEF Begin, disc, FileOf, JobOK
<1>2. CASE clear_temp
  BY <1>2 DEF clear_temp, RemoveTempEntry, TempRemoved, DirectoriesOK
<1>3. CASE make_temp
  BY <1>3 DEF make_temp, DirectoriesOK
<1>4. CASE save_asset
  BY <1>4 DEF save_asset, MoveOut
<1>5. CASE save_configs
  BY <1>5, SetupAssumption DEF save_configs, MoveOut, disc
<1>6. CASE clear_main
  BY <1>6 DEF clear_main
<1>7. CASE make_main
  BY <1>7 DEF make_main
<1>8. CASE unpack
  BY <1>8 DEF unpack
<1>9. CASE return_asset
  BY <1>9 DEF return_asset, MoveBack, DirectoriesOK, SavedSteps
<1>10. CASE return_configs
  BY <1>10, SetupAssumption DEF return_configs, MoveBack, disc
<1>11. CASE drop_temp
  BY <1>11, SetupAssumption DEF drop_temp, RemoveTempEntry, Succeed, Return
<1>12. CASE clear_asset \/ fill_asset
  BY <1>12, SetupAssumption DEF clear_asset, fill_asset, Succeed, Return, JobOK, FileOf, Job
<1>13. CASE setup_config
  BY <1>13, SetupAssumption
  DEF setup_config, open_config, write_config, Succeed, Return, JobOK, FileOf
<1>14. CASE Fails \/ Crash
  BY <1>14 DEF Fails, Crash, Return, disc
<1>15. CASE sys_hash_saver \/ startup
  BY <1>15 DEF sys_hash_saver, startup, disc
<1>16. QED
  BY <1>1, <1>2, <1>3, <1>4, <1>5, <1>6, <1>7, <1>8, <1>9, <1>10, <1>11, <1>12, <1>13,
     <1>14, <1>15 DEF Next, setup_program

LEMMA StutterOK ==
    ASSUME SetupInv, UNCHANGED vars
    PROVE  SetupInv'
  BY DEF vars, disc, SetupInv, SetupTypeOK, JobOK, DirectoriesOK, PlacesOK, Place, Here, There,
         CleanOK, NoAssetOK, LostAssetOK

LEMMA SetupInvariant == SetupSpec => []SetupInv
<1>1. SetupInv /\ [Next]_vars => SetupInv'
  <2>1. SetupInv /\ Next => SetupInv'
    BY TypeStep, JobStep, DirectoriesStep, PlacesStep, CleanStep, AssetStep DEF SetupInv
  <2>2. QED
    BY <2>1, StutterOK
<1>2. QED
  BY <1>1, InitOK, PTL DEF SetupSpec

(* The directories of a program, the steps of an installation and the hashes stay
   in their types, and what does not exist holds nothing, whatever fails
   (mos.rs:220-320, program_updater.rs:352-398). *)
THEOREM SetupTypes == SetupSpec => []SetupTypeOK
<1>1. SetupInv => SetupTypeOK
  BY DEF SetupInv
<1>2. QED
  BY <1>1, SetupInvariant, PTL

(* An asset or a configuration that was in place when a build was begun is
   complete in the program directory or in .temp at every step of that build and
   after every failure and crash of it, for any archive (mos.rs:228-308). *)
THEOREM NothingLostInOneAttempt == SetupSpec => []WhereItIs
<1>1. SetupInv => WhereItIs
  BY DEF SetupInv, PlacesOK, Place, WhereItIs
<1>2. QED
  BY <1>1, SetupInvariant, PTL

(* After a build that succeeded there is no .temp, the build is whole, and what was
   in place before is in place again (mos.rs:280-310). *)
THEOREM SuccessLeavesNoTemp == SetupSpec => []SuccessIsClean
<1>1. SetupInv => SuccessIsClean
  BY DEF SetupInv, CleanOK, Here, SuccessIsClean
<1>2. QED
  BY <1>1, SetupInvariant, PTL

-----------------------------------------------------------------------------
(* The refinement: each step is one that Installer allows, or nothing to it. *)
SeenOK ==
    /\ Seen \in [{"build", "asset"} -> Versions \cup {0, Torn}]
    /\ Seen["build"] = IF build = want["build"] THEN build ELSE Torn
    /\ want["asset"] \in {0, Torn} => Seen["asset"] = want["asset"]
    /\ want["asset"] \in Versions =>
          Seen["asset"] = IF \/ here["asset"] = want["asset"]
                             \/ pc \in BuildSteps /\ "asset" \notin lost
                          THEN want["asset"] ELSE Torn

LEMMA SeenIs == SetupInv => SeenOK
<1> SUFFICES ASSUME SetupInv
             PROVE  SeenOK
  OBVIOUS
<1> USE ContentFacts DEF SetupInv, SetupTypeOK, Seen, Found, SeenOK
<1>1. "build" \notin Items /\ build # Shipped
  BY SetupAssumption DEF Items
<1>2. pc \in BuildSteps /\ "asset" \notin lost /\ want["asset"] \in Versions
        => want["asset"] \in {here["asset"], there["asset"]}
  BY DEF PlacesOK, Place
<1>3. pc \in BuildSteps => want["build"] = Torn
  BY DEF JobOK, FileOf, BuildSteps, ClearTemp, Steps
<1>4. want["asset"] \in Versions /\ "asset" \in lost => here["asset"] # want["asset"]
  BY DEF LostAssetOK
<1>5. want["asset"] = 0 => here["asset"] \in {0, Shipped}
  BY DEF NoAssetOK
<1>6. QED
  BY <1>1, <1>2, <1>3, <1>4, <1>5

LEMMA SeenIsNext == SetupInv' => SeenOK'
  BY SeenIs, PTL

LEMMA DamageMaps ==
    ASSUME UNCHANGED <<hash, saved>>, \A f \in {"build", "asset"} : Seen'[f] \in {Seen[f], Torn}
    PROVE  Inst!Next
<1> DEFINE bad == {f \in {"build", "asset"} : Seen'[f] # Seen[f]}
<1>1. bad \in SUBSET Inst!Touches("build")
  BY DEF Inst!Touches, Inst!Files
<1>2. Seen' = [f \in Inst!Files |-> IF f \in bad THEN Torn ELSE Seen[f]]
  BY DEF Seen, Inst!Files
<1>3. Inst!Fail("build")
  BY <1>1, <1>2 DEF Inst!Fail
<1>4. QED
  BY <1>3 DEF Inst!Next, Inst!Files

(* Which steps do what. *)
LEMMA WhichStep ==
    ASSUME InstallStep
    PROVE  /\ pc \notin BuildSteps => clear_asset \/ fill_asset \/ setup_config
           /\ pc = "drop_temp" => drop_temp
           /\ pc \in {"clear_asset", "fill_asset"} => clear_asset \/ fill_asset
           /\ pc = "write_config" => write_config
  BY DEF InstallStep, setup_program, clear_temp, make_temp, save_asset, save_configs, clear_main,
         make_main, unpack, return_asset, return_configs, drop_temp, clear_asset, fill_asset,
         setup_config, open_config, write_config, Step, BuildSteps, ClearTemp

LEMMA GoesOnMaps ==
    ASSUME SetupInv, SetupInv', InstallStep, GoesOn
    PROVE  Inst!Next
<1> USE ContentFacts, SeenIs, SeenIsNext, WhichStep DEF SetupInv, SetupTypeOK, SeenOK
<1>1. UNCHANGED <<want, lost, hash, saved>> /\ (pc \in BuildSteps <=> pc' \in BuildSteps)
  BY DEF GoesOn
<1>2. Seen'["build"] \in {Seen["build"], Torn}
  <2>1. CASE pc \in BuildSteps
    BY <1>1, <2>1 DEF JobOK, FileOf, BuildSteps, ClearTemp, Steps
  <2>2. CASE pc \notin BuildSteps
    BY <1>1, <2>2
    DEF clear_asset, fill_asset, setup_config, open_config, write_config
  <2>3. QED
    BY <2>1, <2>2
<1>3. Seen'["asset"] \in {Seen["asset"], Torn}
  <2>1. CASE want["asset"] \in {0, Torn}
    BY <1>1, <2>1
  <2>2. CASE want["asset"] \in Versions /\ (pc \in BuildSteps \/ "asset" \in lost)
    BY <1>1, <2>2 DEF LostAssetOK
  <2>3. CASE want["asset"] \in Versions /\ pc \notin BuildSteps
    <3>1. pc \notin {"clear_asset", "fill_asset"}
      BY <2>3 DEF JobOK, FileOf, Steps
    <3>2. here'["asset"] = here["asset"]
      BY <2>3, <3>1, SetupAssumption
      DEF clear_asset, fill_asset, setup_config, open_config, write_config, Step, JobOK
    <3>3. QED
      BY <1>1, <2>3, <3>2
  <2>4. QED
    BY <2>1, <2>2, <2>3
<1>4. QED
  BY <1>1, <1>2, <1>3, DamageMaps

LEMMA SucceedMaps ==
    ASSUME NEW f \in {"build", "asset"}, NEW v \in Versions \cup {0}, v = 0 => f = "asset",
           Inst!Succeed(f, v)
    PROVE  Inst!Next
  BY SetupAssumption DEF Inst!Next, Inst!Files

LEMMA SuccessMaps ==
    ASSUME SetupInv, SetupInv', InstallStep, Success
    PROVE  Inst!Next \/ UNCHANGED Inst!vars
<1> USE ContentFacts, SeenIs, SeenIsNext, WhichStep DEF SetupInv, SeenOK
<1>0. /\ job \in Job /\ pc' = "idle" /\ UNCHANGED saved
      /\ hash' = IF FileOf(job) \in Configs THEN hash ELSE [hash EXCEPT ![FileOf(job)] = job.ver]
      /\ want' = [want EXCEPT ![FileOf(job)] = job.ver] /\ lost' = lost \ {FileOf(job)}
  BY DEF Success, Succeed, Return, JobOK, Steps, BuildSteps, ClearTemp
<1>1. CASE pc = "drop_temp"
  <2>1. /\ FileOf(job) = "build" /\ job.ver \in Versions /\ build = job.ver
        /\ UNCHANGED <<build, here>>
    BY <1>0, <1>1, JobFacts
    DEF drop_temp, RemoveTempEntry, Step, JobOK, FileOf, Steps, BuildSteps, ClearTemp,
        DirectoriesOK, FilledSteps, Success
  <2>2. "asset" \notin lost /\ want["asset"] \in Versions => here["asset"] = want["asset"]
    BY <1>1 DEF PlacesOK, Place, Here
  <2>3. Seen'["build"] = job.ver /\ Seen'["asset"] = Seen["asset"]
    BY <1>0, <1>1, <2>1, <2>2, SetupAssumption
    DEF SetupTypeOK, BuildSteps, ClearTemp, LostAssetOK
  <2>4. Inst!Succeed("build", job.ver)
    <3>1. Seen' = [Seen EXCEPT !["build"] = job.ver]
      BY <2>3
    <3>2. hash' = [hash EXCEPT !["build"] = job.ver] /\ UNCHANGED saved
      BY <1>0, <2>1, SetupAssumption
    <3>3. QED
      BY <3>1, <3>2 DEF Inst!Succeed
  <2>5. QED
    BY <2>1, <2>4, SucceedMaps
<1>2. CASE pc \in {"clear_asset", "fill_asset"}
  <2>1. /\ FileOf(job) = "asset" /\ here'["asset"] = job.ver /\ UNCHANGED build
        /\ job.ver = 0 \/ job.ver \in Versions
    BY <1>0, <1>2, JobFacts
    DEF clear_asset, fill_asset, Step, JobOK, FileOf, Steps, SetupTypeOK, Job
  <2>2. Seen'["asset"] = job.ver /\ Seen'["build"] = Seen["build"]
    BY <1>0, <2>1, SetupAssumption DEF SetupTypeOK
  <2>3. Inst!Succeed("asset", job.ver)
    <3>1. Seen' = [Seen EXCEPT !["asset"] = job.ver]
      BY <2>2
    <3>2. hash' = [hash EXCEPT !["asset"] = job.ver] /\ UNCHANGED saved
      BY <1>0, <2>1, SetupAssumption
    <3>3. QED
      BY <3>1, <3>2 DEF Inst!Succeed
  <2>4. QED
    BY <2>1, <2>3, SucceedMaps
<1>3. CASE pc = "write_config"
  <2>1. /\ FileOf(job) \in Configs /\ here'["asset"] = here["asset"] /\ UNCHANGED build
    BY <1>0, <1>3, JobFacts, SetupAssumption
    DEF write_config, JobOK, SetupTypeOK
  <2>2. Seen'["asset"] = Seen["asset"] /\ Seen'["build"] = Seen["build"]
    BY <1>0, <1>3, <2>1, SetupAssumption DEF SetupTypeOK, BuildSteps, ClearTemp
  <2>3. Seen' = Seen
    BY <2>2 DEF Seen
  <2>4. QED
    BY <1>0, <2>1, <2>3 DEF Inst!vars
<1>4. QED
  BY <1>1, <1>2, <1>3 DEF Success

LEMMA OtherMaps ==
    ASSUME SetupInv, SetupInv', Next, ~InstallStep
    PROVE  Inst!Next \/ UNCHANGED Inst!vars
<1> USE ContentFacts, SeenIs, SeenIsNext DEF SetupInv, SetupTypeOK, SeenOK
<1>1. ASSUME NEW j \in Jobs, Begin(j)
      PROVE  Inst!Next \/ UNCHANGED Inst!vars
  <2>1. UNCHANGED <<build, here, hash, saved>> /\ want' = [want EXCEPT ![FileOf(j)] = Torn]
    BY <1>1 DEF Begin, disc
  <2>2. Seen'["build"] \in {Seen["build"], Torn}
    BY <2>1, <1>1, BeginEffect, JobFacts
  <2>3. "asset" \notin lost' =>
           /\ "asset" \notin lost
           /\ pc' \in BuildSteps /\ FileOf(j) # "asset" => here["asset"] = want["asset"]
    BY <1>1, BeginEffect, JobFacts, SetupAssumption
    DEF Begin, Types, FileOf, BuildSteps, ClearTemp
  <2>4. pc \notin BuildSteps
    BY <1>1, BeginEffect DEF BuildSteps, ClearTemp
  <2>5. Seen'["asset"] \in {Seen["asset"], Torn}
    BY <2>1, <2>3, <2>4, <1>1, BeginEffect, JobFacts
  <2>6. QED
    BY <2>1, <2>2, <2>5, DamageMaps
<1>2. CASE Fails \/ Crash
  <2>1. UNCHANGED <<build, here, hash, saved, want, lost>> /\ pc' \notin BuildSteps
    BY <1>2 DEF Fails, Crash, Return, disc, BuildSteps, ClearTemp
  <2>2. Seen'["build"] \in {Seen["build"], Torn} /\ Seen'["asset"] \in {Seen["asset"], Torn}
    BY <2>1
  <2>3. QED
    BY <2>1, <2>2, DamageMaps
<1>3. CASE sys_hash_saver \/ startup
  <2>1. /\ UNCHANGED <<build, here, there, want, lost>>
        /\ pc \notin BuildSteps /\ pc' \notin BuildSteps
    BY <1>3 DEF sys_hash_saver, startup, disc, BuildSteps, ClearTemp
  <2>2. Seen' = Seen
    BY <2>1 DEF Seen, Found
  <2>3. Inst!Save \/ Inst!Restart
    BY <1>3, <2>2
    DEF sys_hash_saver, startup, Inst!Save, Inst!Restart, NoHashes, Inst!NoHashes, Inst!Files
  <2>4. QED
    BY <2>3 DEF Inst!Next
<1>4. QED
  BY <1>1, <1>2, <1>3 DEF Next, InstallStep

(* For its caller an installation is one step that changes one file and its hash, or
   an error that changes no hash and damages that file at most, or the asset: the
   steps of mos.rs implement Installer, for any archive, any failures and crashes
   (program_updater.rs:352-398, mos.rs:220-320). *)
THEOREM InstallationImplementsInstaller == SetupSpec => ImplementsInstaller
<1>1. Init => Inst!Init
  BY DEF Init, Inst!Init, Seen, Found, NoHashes, Inst!NoHashes, Inst!Files, Nothing, Items
<1>2. SetupInv /\ SetupInv' /\ [Next]_vars => [Inst!Next]_(Inst!vars)
  <2> SUFFICES ASSUME SetupInv, SetupInv', [Next]_vars
               PROVE  [Inst!Next]_(Inst!vars)
    OBVIOUS
  <2>1. CASE InstallStep
    BY <2>1, InstallEffect, GoesOnMaps, SuccessMaps DEF SetupInv
  <2>2. CASE Next /\ ~InstallStep
    BY <2>2, OtherMaps
  <2>3. CASE UNCHANGED vars
    BY <2>3 DEF vars, disc, Inst!vars, Seen, Found
  <2>4. QED
    BY <2>1, <2>2, <2>3
<1>3. QED
  BY <1>1, <1>2, SetupInvariant, PTL DEF SetupSpec, ImplementsInstaller, Inst!Spec
=============================================================================
