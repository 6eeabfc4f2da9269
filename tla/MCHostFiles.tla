---------------------------- MODULE MCHostFiles ----------------------------
(***************************************************************************)
(* Instances of what the application keeps in files: the paired output,    *)
(* an exported image, the runtime directories of its guests, the expanded  *)
(* source image, the settings, and the inputs of an NVIDIA installation.   *)
(* None reads what another one writes; a behaviour runs one of them.       *)
(***************************************************************************)
EXTENDS OutputPublication, GuestRuntime, SettingsFile, HostImages, NvidiaInputs

VARIABLE focus

ASSUME SelectionIsRight == SelectionRight

-----------------------------------------------------------------------------
FilesInit ==
  /\ Init /\ GuestInit /\ UnpackInit /\ ExportInit /\ SettingsInit /\ InputsInit
  /\ focus \in {"publication", "guests", "unpack", "export", "settings", "inputs"}
  /\ focus # "unpack" => stream = 0
  /\ focus # "export" => \A n \in Number : image[n] = Nothing
  /\ focus # "settings" => settings.there
  /\ focus # "inputs" => named = {}

Publishes == focus = "publication" /\ UNCHANGED <<focus, guestVars, unpackVars, exportVars, settingsVars, inputVars>>

FilesNext ==
  \/ Publishes /\ Next
  \/ focus = "guests"   /\ GuestNext    /\ UNCHANGED <<focus, vars, unpackVars, exportVars, settingsVars, inputVars>>
  \/ focus = "unpack"   /\ UnpackNext   /\ UNCHANGED <<focus, vars, guestVars, exportVars, settingsVars, inputVars>>
  \/ focus = "export"   /\ ExportNext   /\ UNCHANGED <<focus, vars, guestVars, unpackVars, settingsVars, inputVars>>
  \/ focus = "settings" /\ SettingsNext /\ UNCHANGED <<focus, vars, guestVars, unpackVars, exportVars, inputVars>>
  \/ focus = "inputs"   /\ InputsNext   /\ UNCHANGED <<focus, vars, guestVars, unpackVars, exportVars, settingsVars>>

filesVars == <<focus, vars, guestVars, unpackVars, exportVars, settingsVars, inputVars>>

\* See OutputPublication!FairSpec.
FilesSpec == FilesInit /\ [][FilesNext]_filesVars /\ WF_filesVars(Publishes /\ Attempt)

-----------------------------------------------------------------------------
\* Converges, of OutputPublication.
RetriesConverge == <>[](focus = "publication" => complete \/ Residue)
=============================================================================
