----------------------------- MODULE ImageExport -----------------------------
(***************************************************************************)
(* The publication of an exported image by src-tauri/src/image.rs:         *)
(* export_marker_image_blocking, from the choice of a name to the pair of  *)
(* an image and its manifest.  Instances of the application may export to  *)
(* the same folder at once; an instance may be killed at any step, and     *)
(* other programs place and remove files under the final names.            *)
(*                                                                         *)
(* A step is one system call on a final name.  The partial files have      *)
(* names of their own (process, time), which nobody else uses.  The        *)
(* renames are not synced: what a power loss leaves is not modelled.       *)
(***************************************************************************)
EXTENDS Naturals

CONSTANTS Exporter,  \* instances that export
          Number,    \* numbers a name may get: 1..n
          Foreign,   \* a file of another program
          Nothing,   \* no file
          MaxOthers  \* bound on the steps of other programs

ASSUME ExportAssumption == Nothing \notin Exporter /\ Foreign \notin Exporter

\* The files of an exporter are named after it.
File == Exporter \union {Foreign, Nothing}

VARIABLES
  image, manifest, \* [Number -> the file under that final name]
  partial,         \* [Exporter -> its partial files: [image, manifest]]
  exportAt, name,  \* [Exporter -> where it is], [Exporter -> the number it chose]
  removed,         \* (history) the numbers another program removed a file of
  others

exportVars == <<image, manifest, partial, exportAt, name, removed, others>>

NoPartial == [image |-> Nothing, manifest |-> Nothing]

ExportInit ==
  /\ image \in [Number -> {Foreign, Nothing}] /\ manifest = [n \in Number |-> Nothing]
  /\ partial = [e \in Exporter |-> NoPartial]
  /\ exportAt = [e \in Exporter |-> "choose"] /\ name = [e \in Exporter |-> 0]
  /\ removed = {} /\ others = 0

-----------------------------------------------------------------------------
IsAt(e, s)    == exportAt[e] = s
Proceed(e, s) == exportAt' = [exportAt EXCEPT ![e] = s]
Finals     == <<image, manifest>>
Image(e)    == image[name[e]]
Manifest(e) == manifest[name[e]]
Moved(f, e, x) == [f EXCEPT ![name[e]] = x]

\* A step failed, or the user cancelled: the guards remove the partial files.
FailExport(e) == Proceed(e, "over") /\ partial' = [partial EXCEPT ![e] = NoPartial]

\* output_path_for_input_label: the first number of which neither name is taken.
\* Each name is looked up on its own.
LookImage(e) ==
  /\ IsAt(e, "choose")
  /\ \/ /\ name[e] + 1 \in Number
        /\ name' = [name EXCEPT ![e] = @ + 1]
        /\ Proceed(e, IF image[name[e] + 1] = Nothing THEN "look" ELSE "choose")
     \/ name[e] + 1 \notin Number /\ Proceed(e, "over") /\ UNCHANGED name
  /\ UNCHANGED <<Finals, partial, removed, others>>

LookManifest(e) ==
  /\ IsAt(e, "look")
  /\ Proceed(e, IF Manifest(e) = Nothing THEN "convert" ELSE "choose")
  /\ UNCHANGED <<Finals, partial, name, removed, others>>

\* The destination is validated; qemu-img writes the partial image, which is
\* flushed; another guest inspects and hashes it; the source is hashed again.
Convert(e) ==
  /\ IsAt(e, "convert")
  /\ \/ Image(e) = Nothing /\ Proceed(e, "recheck")
        /\ partial' = [partial EXCEPT ![e].image = e]
     \/ FailExport(e)
  /\ UNCHANGED <<Finals, name, removed, others>>

\* The destination is validated again, then the manifest's name.
Recheck(e) ==
  /\ IsAt(e, "recheck")
  /\ (Image(e) = Nothing /\ Proceed(e, "describe") /\ UNCHANGED partial) \/ FailExport(e)
  /\ UNCHANGED <<Finals, name, removed, others>>

Describe(e) ==
  /\ IsAt(e, "describe")
  /\ \/ /\ Manifest(e) = Nothing /\ Proceed(e, "rename")
        /\ partial' = [partial EXCEPT ![e].manifest = e]
     \/ FailExport(e)
  /\ UNCHANGED <<Finals, name, removed, others>>

\* (mutant) rename replaces what is there.
RenameOver(e) ==
  /\ IsAt(e, "rename")
  /\ \/ /\ image' = Moved(image, e, e)
        /\ partial' = [partial EXCEPT ![e].image = Nothing] /\ Proceed(e, "pair")
     \/ FailExport(e) /\ UNCHANGED image
  /\ UNCHANGED <<manifest, name, removed, others>>

\* rename_without_replacement, of the image and then of its manifest.
RenameImage(e) ==
  /\ IsAt(e, "rename")
  /\ \/ /\ Image(e) = Nothing /\ image' = Moved(image, e, e)
        /\ partial' = [partial EXCEPT ![e].image = Nothing] /\ Proceed(e, "pair")
     \/ FailExport(e) /\ UNCHANGED image
  /\ UNCHANGED <<manifest, name, removed, others>>

RenameManifest(e) ==
  /\ IsAt(e, "pair")
  /\ \/ /\ Manifest(e) = Nothing /\ manifest' = Moved(manifest, e, e)
        /\ partial' = [partial EXCEPT ![e].manifest = Nothing] /\ Proceed(e, "over")
     \/ Proceed(e, "rollback") /\ UNCHANGED <<manifest, partial>>
  /\ UNCHANGED <<image, name, removed, others>>

\* The image, or what is under its name by now, goes back and is removed.
Rollback(e) ==
  /\ IsAt(e, "rollback") /\ FailExport(e)
  /\ image' = Moved(image, e, Nothing) \/ UNCHANGED image
  /\ UNCHANGED <<manifest, name, removed, others>>

\* The process is killed: its partial files stay.
KillExport(e) == /\ exportAt[e] # "over" /\ Proceed(e, "over")
                 /\ UNCHANGED <<Finals, partial, name, removed, others>>

-----------------------------------------------------------------------------
\* Another program.
Other == others < MaxOthers /\ others' = others + 1 /\ UNCHANGED <<partial, exportAt, name>>

PlaceFile(n) ==
  /\ Other /\ UNCHANGED removed
  /\ \/ image[n] = Nothing /\ image' = [image EXCEPT ![n] = Foreign] /\ UNCHANGED manifest
     \/ manifest[n] = Nothing /\ manifest' = [manifest EXCEPT ![n] = Foreign] /\ UNCHANGED image

RemoveFile(n) ==
  /\ Other /\ removed' = removed \union {n}
  /\ \/ image[n] # Nothing /\ image' = [image EXCEPT ![n] = Nothing] /\ UNCHANGED manifest
     \/ manifest[n] # Nothing /\ manifest' = [manifest EXCEPT ![n] = Nothing] /\ UNCHANGED image

Export(e) == \/ LookImage(e) \/ LookManifest(e) \/ Convert(e) \/ Recheck(e) \/ Describe(e)
             \/ RenameImage(e) \/ RenameManifest(e) \/ Rollback(e) \/ KillExport(e)

ExportNext == (\E e \in Exporter : Export(e)) \/ (\E n \in Number : PlaceFile(n) \/ RemoveFile(n))

ExportSpec == ExportInit /\ [][ExportNext]_exportVars

-----------------------------------------------------------------------------
\* reveal_completed_image: the manifest beside an image describes it by its
\* file name and size.
Revealable(n) == image[n] # Nothing /\ manifest[n] \in Exporter

\* What can be revealed as a completed image is the image that was validated,
\* and no manifest stands without it, unless another program removed a file.
PairsMatch == \A n \in Number \ removed :
                manifest[n] \in Exporter => Revealable(n) /\ image[n] = manifest[n]

\* An export takes no file but its own from a final name; the exception is a
\* file put in place of its image before it took the image back.
ExportKeeps ==
  \A e \in Exporter, n \in Number : Export(e) =>
    /\ image[n] \notin {image'[n], Nothing, e} => n \in removed
    /\ manifest[n] # Nothing => manifest'[n] = manifest[n]
=============================================================================
