---------------------- MODULE ParallelDecompression ----------------------
(***************************************************************************)
(* normalize_input_with_limit of src-tauri/src/appliance.rs: a compressed  *)
(* image is expanded into the runtime directory, never past the size that  *)
(* was measured and admitted.  7-Zip or pbzip2 is run as a child whose     *)
(* output a reader thread takes from a pipe and hands to the preparation   *)
(* through a channel of two buffers; without them a library is used.       *)
(*                                                                         *)
(* Data is counted in the buffers the reader fills.  The user may cancel   *)
(* at any time, and the tool may stop producing, fail or exit early.       *)
(***************************************************************************)
EXTENDS Naturals, Sequences

CONSTANTS MaxStream,   \* buffers a compressed image expands to, at most
          Limit,       \* write_limit: the measured size that was admitted
          PipeSize     \* buffers the pipe holds

ASSUME UnpackBounds == MaxStream \in Nat /\ Limit \in Nat /\ PipeSize \in Nat \ {0}

ChannelSize == 2

VARIABLES
  stream,    \* what the source expands to
  tool,      \* "none", "running", "succeeded" or "failed"
  produced,  \* what the tool wrote into its output
  pipe,      \* what is in the pipe
  reader,    \* the thread: "none", "read", "send" or "done"
  holds,     \* what the reader is about to send
  channel,   \* what it sent: "data" and "error"
  unpackAt,  \* the preparation: "start", "look", "take", "library", "join",
             \* "finish" or "done"
  written,   \* what is in the normalized image
  cancel,    \* the flag of the user's cancellation
  result     \* "none", or what is, or will be, returned

toolVars   == <<tool, produced, pipe>>
readerVars == <<reader, holds, channel>>
unpackVars == <<stream, toolVars, readerVars, unpackAt, written, cancel, result>>

UnpackInit ==
  /\ stream \in 0..MaxStream
  /\ tool = "none" /\ produced = 0 /\ pipe = 0
  /\ reader = "none" /\ holds = "none" /\ channel = <<>>
  /\ unpackAt = "start" /\ written = 0 /\ cancel = FALSE /\ result = "none"

Cancel == ~cancel /\ cancel' = TRUE
          /\ UNCHANGED <<stream, toolVars, readerVars, unpackAt, written, result>>

-----------------------------------------------------------------------------
\* The tool is found and started with its reader; or only the library is there.
StartTool ==
  /\ unpackAt = "start"
  /\ \/ ~cancel /\ tool' = "running" /\ reader' = "read" /\ unpackAt' = "look"
        /\ UNCHANGED result
     \/ unpackAt' = "library" /\ UNCHANGED <<tool, reader, result>>
     \/ /\ unpackAt' = "done" /\ UNCHANGED <<tool, reader>>
        /\ result' = IF cancel THEN "cancelled" ELSE "failed"
  /\ UNCHANGED <<stream, produced, pipe, holds, channel, written, cancel>>

Produce ==
  /\ tool = "running" /\ produced < stream /\ pipe < PipeSize
  /\ produced' = produced + 1 /\ pipe' = pipe + 1
  /\ UNCHANGED <<stream, tool, readerVars, unpackAt, written, cancel, result>>

Exit ==
  /\ tool = "running"
  /\ \/ tool' = "succeeded" /\ produced = stream
     \/ tool' = "failed"
  /\ UNCHANGED <<stream, produced, pipe, readerVars, unpackAt, written, cancel, result>>

-----------------------------------------------------------------------------
\* The reader thread: it reads what is there, the end of the output, or an error.
ReaderStep ==
  \/ /\ reader = "read"
     /\ \/ /\ pipe > 0
           /\ holds' = "data" /\ pipe' = pipe - 1 /\ reader' = "send"
        \/ /\ pipe = 0 /\ tool # "running"
           /\ reader' = "done" /\ UNCHANGED <<holds, pipe>>
        \/ holds' = "error" /\ reader' = "send" /\ UNCHANGED pipe
     /\ UNCHANGED channel
  \/ /\ reader = "send" /\ Len(channel) < ChannelSize
     /\ channel' = Append(channel, holds)
     /\ reader' = IF holds = "error" THEN "done" ELSE "read"
     /\ holds' = "none" /\ UNCHANGED pipe

Reader == ReaderStep /\ UNCHANGED <<stream, tool, produced, unpackAt, written, cancel, result>>

-----------------------------------------------------------------------------
\* The preparation kills the tool and waits for the reader with this result.
KillTool(r) == /\ tool' = IF tool = "running" THEN "failed" ELSE tool
               /\ unpackAt' = "join" /\ result' = r

Look ==
  /\ unpackAt = "look"
  /\ IF cancel THEN KillTool("cancelled") ELSE unpackAt' = "take" /\ UNCHANGED <<tool, result>>
  /\ UNCHANGED <<stream, produced, pipe, readerVars, written, cancel>>

\* A buffer was received and written, or did not fit, or the disk is full.
TakeBuffer ==
  /\ channel # <<>> /\ channel' = Tail(channel)
  /\ \/ /\ Head(channel) = "data" /\ written < Limit
        /\ written' = written + 1 /\ unpackAt' = "look" /\ UNCHANGED <<tool, result>>
     \/ KillTool("failed") /\ UNCHANGED written

\* Nothing came within the timeout, or the reader is gone.
TakeNothing ==
  /\ channel = <<>>
  /\ unpackAt' = IF reader = "done" THEN "finish" ELSE "look"
  /\ UNCHANGED <<channel, written, tool, result>>

Take == /\ unpackAt = "take" /\ (TakeBuffer \/ TakeNothing)
        /\ UNCHANGED <<stream, produced, pipe, reader, holds, cancel>>

Join ==
  /\ unpackAt = "join" /\ reader = "done"
  /\ unpackAt' = "done"
  /\ UNCHANGED <<stream, toolVars, readerVars, written, cancel, result>>

\* (mutant) what the tool exited with is not looked at.
FinishAnyExit ==
  /\ unpackAt = "finish" /\ tool # "running"
  /\ unpackAt' = "done"
  /\ \/ result' = "ok" /\ written \in 1..Limit
     \/ result' = "failed"
  /\ UNCHANGED <<stream, toolVars, readerVars, written, cancel>>

\* The image is flushed, the tool waited for, and its success demanded.
Finish ==
  /\ unpackAt = "finish" /\ tool # "running"
  /\ unpackAt' = "done"
  /\ \/ result' = "ok" /\ tool = "succeeded" /\ written \in 1..Limit
     \/ result' = "failed"
  /\ UNCHANGED <<stream, toolVars, readerVars, written, cancel>>

\* The library reads the source itself: each read looks at the flag.
Library ==
  /\ unpackAt = "library"
  /\ \/ ~cancel /\ written < stream /\ written < Limit /\ written' = written + 1
        /\ UNCHANGED <<unpackAt, result>>
     \/ unpackAt' = "done" /\ UNCHANGED written
        /\ \/ result' = "ok" /\ written = stream /\ written > 0
           \/ result' = IF cancel THEN "cancelled" ELSE "failed"
  /\ UNCHANGED <<stream, toolVars, readerVars, cancel>>

Preparation == StartTool \/ Look \/ Take \/ Join \/ Finish \/ Library

UnpackNext == Cancel \/ Produce \/ Exit \/ Reader \/ Preparation

UnpackSpec == UnpackInit /\ [][UnpackNext]_unpackVars

\* The preparation and its reader are scheduled; the tool may hang.
UnpackFairSpec == UnpackSpec /\ WF_unpackVars(Preparation) /\ WF_unpackVars(Reader)

-----------------------------------------------------------------------------
\* An image that was accepted is all of what the source expands to, within the
\* admitted size, whatever the tool, the pipe, the channel and the reader did.
AcceptedWhole == result = "ok" => written = stream /\ written <= Limit

\* A preparation whose user cancels, or whose write fails, returns, even if the
\* tool hangs.
CancelReturns == cancel ~> unpackAt = "done"
=============================================================================
