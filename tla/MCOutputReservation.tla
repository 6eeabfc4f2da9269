------------------------ MODULE MCOutputReservation ------------------------
(***************************************************************************)
(* Interference with an export by another program.  OutputReservation: the *)
(* output "b" is the manifest name of the output "a", as with out.img and  *)
(* out.img.manifest.json, and a behaviour has one kind of interference,    *)
(* the rename or change of a source, an abandoned attempt, or replaced     *)
(* lock files.  OutputPublication: another program changes the output      *)
(* directory between any two steps, twice, or once beside a failed call or *)
(* a kill.  Each is checked on its own: a behaviour runs one.              *)
(***************************************************************************)
EXTENDS OutputReservation, OutputPublication, TLC

CONSTANTS a, b, c

VARIABLES budgetOf,   \* how often each kind of interference may happen
          focus

MCOutput   == {a, b}
MCManifest == a :> b @@ b :> c

\* The interference of a behaviour; two replacements only with one output.
Interference == {<<MaxChanges, 0, 0>>, <<0, 0, MaxDrops>>,
                 <<0, 1, 0>>, <<0, MaxReplacements, 0>>}
OneOutput == budgetOf = <<0, MaxReplacements, 0>>

\* Where no source is renamed, a missing one is only a source never selected.
MCInit == /\ budgetOf \in Interference
          /\ Start
          /\ changes = MaxChanges - budgetOf[1]
          /\ replacements = MaxReplacements - budgetOf[2]
          /\ drops = MaxDrops - budgetOf[3]
          /\ Init
          /\ \/ /\ focus = "reservation"
                /\ budgetOf[1] = 0 => \A x \in Path : at[x] # Nil
             \/ /\ focus = "publication"
                /\ budgetOf = <<0, 1, 0>>
                /\ at = [x \in Path |-> Nil]

MCNext == /\ UNCHANGED <<budgetOf, focus>>
          /\ \/ /\ focus = "reservation" /\ ReserveNext /\ UNCHANGED vars
                /\ OneOutput => \A p \in Proc : job'[p] # Nil => job'[p].out = a
             \/ /\ focus = "publication" /\ Next /\ UNCHANGED reserveVars
                /\ faults' + tampers' <= MaxTampers

MCSpec == MCInit /\ [][MCNext]_<<reserveVars, vars, budgetOf, focus>>

MCSymmetry == Permutations(Proc) \union Permutations(Path) \union Permutations(File)
=============================================================================
