------------------------- MODULE GenerationChannel -------------------------
(***************************************************************************)
(* The acquisition of a generation beside the verifier child it starts     *)
(* (core_generation_acquisition.rs, core_generation_verifier.rs).  The     *)
(* child shares nothing with the acquisition but the verdict, which the    *)
(* acquisition takes as given; so a behaviour runs one of the two.         *)
(***************************************************************************)
EXTENDS GenerationAcquisition, OwnedChild

VARIABLE focus   \* the one that runs

ChannelInit == /\ AcquireInit /\ Init
               /\ focus \in {"acquisition", "child"}

Acquires == focus = "acquisition" /\ UNCHANGED <<focus, vars>>
Verifies == focus = "child" /\ UNCHANGED <<focus, acquireVars>>

ChannelNext == (AcquireNext /\ Acquires) \/ (Next /\ Verifies)

channelVars == <<focus, acquireVars, vars>>

\* Fair as the child is: the threads of the application keep running, and
\* deadlines pass.
ChannelFairness == /\ WF_channelVars(Supervise /\ Verifies)
                   /\ WF_channelVars(Clock /\ Verifies)
                   /\ \A p \in Pipe : WF_channelVars(Read(p) /\ Verifies)

ChannelSpec == ChannelInit /\ [][ChannelNext]_channelVars /\ ChannelFairness

-----------------------------------------------------------------------------
\* A call that has ended leaves nothing behind: neither a file of a candidate,
\* unless it says so, nor a process or a thread of the verifier.
NoResidue == FailureLeavesNothing /\ NothingLeftBehind
=============================================================================
