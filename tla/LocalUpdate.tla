----------------------------- MODULE LocalUpdate -----------------------------
(***************************************************************************)
(* `npm run update:stage` (scripts/update-local.js): a run downloads and   *)
(* verifies the release's ZIP, or verifies the one it finds, extracts it   *)
(* to a directory of its own and copies the program, the configuration and *)
(* the local state of the current installation to the new folder.  Any     *)
(* step may fail, power may fail between two steps, and two runs may       *)
(* overlap: nothing locks the folder they share.                           *)
(***************************************************************************)
CONSTANTS
    Updates         \* processes that run the updater

VARIABLES
    zip,            \* the download: "absent", "partial" or "verified"
    folder,         \* parts of the new installation that exist, {} when it does not
    step,           \* what each run does next
    reported,       \* whether a run reported a staged installation
    overlapped,     \* history variable: two runs were staging at once
    powerLost       \* history variable: a run was cut off

updateVars == <<zip, folder, step, reported, overlapped, powerLost>>

Parts == {"program", "config", "state"}
Staging == Parts \cup {"extract"}

UpdateInit ==
    /\ zip = "absent" /\ folder = {} /\ step = [u \in Updates |-> "idle"]
    /\ reported = FALSE /\ overlapped = FALSE /\ powerLost = FALSE

Steps(u, next) ==
    /\ step' = [step EXCEPT ![u] = next]
    /\ overlapped' = (overlapped \/ \E v, w \in Updates :
                          v # w /\ step'[v] \in Staging /\ step'[w] \in Staging)

-----------------------------------------------------------------------------
\* main(): resolveRelease() found a newer release, or --force was given.
Begins(u) ==
    /\ step[u] = "idle"
    /\ Steps(u, "download")
    /\ UNCHANGED <<zip, folder, reported, powerLost>>

\* downloadArtifact() finds a file: one that is not the artifact ends the run
\* and stays.  stageArchive() wants no folder to exist.
FindsZip(u) ==
    /\ step[u] = "download" /\ zip # "absent"
    /\ Steps(u, IF zip = "verified" /\ folder = {} THEN "extract" ELSE "idle")
    /\ UNCHANGED <<zip, folder, reported, powerLost>>

\* The response is verified before the file is created.  A refused response
\* writes nothing.
Downloads(u) ==
    /\ step[u] = "download" /\ zip = "absent"
    /\ \/ zip' = "partial" /\ Steps(u, "write")
       \/ UNCHANGED zip /\ Steps(u, "idle")
    /\ UNCHANGED <<folder, reported, powerLost>>

\* A write that fails, on a full disk, leaves the partial file for later runs.
Writes(u) ==
    /\ step[u] = "write"
    /\ \/ zip' = "verified" /\ Steps(u, IF folder = {} THEN "extract" ELSE "idle")
       \/ UNCHANGED zip /\ Steps(u, "idle")
    /\ UNCHANGED <<folder, reported, powerLost>>

\* Expand-Archive, and the check of VOXHF_RELEASE.json.
Extracts(u) ==
    /\ step[u] = "extract"
    /\ Steps(u, "program")
    /\ UNCHANGED <<zip, folder, reported, powerLost>>

\* cpSync overwrites: errorOnExist needs force to be false.
CopiesProgram(u) ==
    /\ step[u] = "program"
    /\ folder' = folder \cup {"program"}
    /\ Steps(u, "config")
    /\ UNCHANGED <<zip, reported, powerLost>>

\* COPYFILE_EXCL, into a folder that must still be there.
CopiesConfig(u) ==
    /\ step[u] = "config"
    /\ folder # {} /\ "config" \notin folder
    /\ folder' = folder \cup {"config"}
    /\ Steps(u, "state")
    /\ UNCHANGED <<zip, reported, powerLost>>

CopiesState(u) ==
    /\ step[u] = "state"
    /\ folder' = folder \cup {"state"}
    /\ reported' = TRUE
    /\ Steps(u, "idle")
    /\ UNCHANGED <<zip, powerLost>>

\* Fault: an error leaves what was copied.
StopsThere(u) ==
    /\ step[u] \in Staging
    /\ Steps(u, "idle")
    /\ UNCHANGED <<zip, folder, reported, powerLost>>

\* The catch block of stageArchive(), after any of its steps, a part of it done
\* included.
StagingFails(u) ==
    /\ step[u] \in Staging
    /\ folder' = {}
    /\ Steps(u, "idle")
    /\ UNCHANGED <<zip, reported, powerLost>>

PowerFails(u) ==
    /\ step[u] # "idle"
    /\ Steps(u, "idle")
    /\ powerLost' = TRUE
    /\ folder' \in {folder, IF step[u] = "program" THEN folder \cup {"half"} ELSE folder}
    /\ UNCHANGED <<zip, reported>>

\* The user removes the ZIP, or the new folder, before another run.
UserClears ==
    /\ \A u \in Updates : step[u] = "idle"
    /\ \/ zip' = "absent" /\ UNCHANGED <<folder, reported>>
       \/ folder' = {} /\ reported' = FALSE /\ UNCHANGED zip
    /\ UNCHANGED <<step, overlapped, powerLost>>

UpdateNext ==
    \/ UserClears
    \/ \E u \in Updates :
          \/ Begins(u) \/ FindsZip(u) \/ Downloads(u) \/ Writes(u) \/ Extracts(u)
          \/ CopiesProgram(u) \/ CopiesConfig(u) \/ CopiesState(u)
          \/ StagingFails(u) \/ PowerFails(u)

UpdateSpec == UpdateInit /\ [][UpdateNext]_updateVars

-----------------------------------------------------------------------------
\* INVARIANT.  While no run stages, the new folder is a whole installation or does
\* not exist: a failed run leaves nothing that a later run, or the user who starts
\* the folder, would take for an installation.  It does not hold after a power
\* failure, nor after two runs overlapped, where one removes the folder the other
\* copies to.
NothingHalfStaged ==
    (~powerLost /\ ~overlapped /\ \A u \in Updates : step[u] = "idle")
        => folder \in {{}, Parts}
==============================================================================
