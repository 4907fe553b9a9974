---------------------------- MODULE FfmpegSource ---------------------------
(***************************************************************************)
(* FfmpegPcmSource (source.py): one object of a session and its ffmpeg.    *)
(* ffmpeg may fail to start, end whenever it likes and ignore SIGTERM; the *)
(* event loop learns of its end some time later, when it reaps the child.  *)
(***************************************************************************)
EXTENDS Naturals

VARIABLES
    source,  \* where the object is: "closed", "open", "terminating", "killing"
    ffmpeg,  \* its process: "none", "running", "ended", "reaped" (returncode is set)
    killed,  \* SIGKILL was sent
    strays   \* history: processes that run and that no object holds

sourceVars == <<source, ffmpeg, killed, strays>>

SourceInit ==
    /\ source = "closed"
    /\ ffmpeg = "none"
    /\ killed = FALSE
    /\ strays = 0

SourceTypeOK ==
    /\ source \in {"closed", "open", "terminating", "killing"}
    /\ ffmpeg \in {"none", "running", "ended", "reaped"}
    /\ killed \in BOOLEAN
    /\ strays \in Nat

\* A new object; what the last one left behind is a stray.
NewSource ==
    /\ strays' = IF ffmpeg = "running" THEN strays + 1 ELSE strays
    /\ killed' = FALSE

SourceStarts ==
    /\ NewSource
    /\ source' = "open"
    /\ ffmpeg' = "running"

\* create_subprocess_exec raises: there is no process, and close has nothing to do.
SourceFails ==
    /\ NewSource
    /\ source' = "closed"
    /\ ffmpeg' = "none"

-----------------------------------------------------------------------------
(* close                                                                   *)

BeginClose ==
    /\ source = "open"
    /\ source' = IF ffmpeg = "reaped" THEN "closed" ELSE "terminating"
    /\ UNCHANGED <<ffmpeg, killed, strays>>

\* process.wait returns.
Waited ==
    /\ source \in {"terminating", "killing"}
    /\ ffmpeg = "reaped"
    /\ source' = "closed"
    /\ UNCHANGED <<ffmpeg, killed, strays>>

\* Slip for KillAfterTimeout: close returns.
ReturnAfterTimeout ==
    /\ source = "terminating"
    /\ source' = "closed"
    /\ UNCHANGED <<ffmpeg, killed, strays>>

\* Slip for KillAfterTimeout: terminate once more.
TerminateAgain ==
    /\ source = "terminating"
    /\ source' = "killing"
    /\ UNCHANGED <<ffmpeg, killed, strays>>

\* Three seconds have passed; a process that has ended meanwhile is not killed.
KillAfterTimeout ==
    /\ source = "terminating"
    /\ source' = "killing"
    /\ killed' = (ffmpeg = "running")
    /\ UNCHANGED <<ffmpeg, strays>>

-----------------------------------------------------------------------------
(* ffmpeg and the event loop                                               *)

FfmpegEnds ==
    /\ ffmpeg = "running"
    /\ ffmpeg' = "ended"
    /\ UNCHANGED <<source, killed, strays>>

FfmpegReaped ==
    /\ ffmpeg = "ended"
    /\ ffmpeg' = "reaped"
    /\ UNCHANGED <<source, killed, strays>>
=============================================================================
