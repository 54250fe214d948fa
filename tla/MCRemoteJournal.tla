-------------------------- MODULE MCRemoteJournal ---------------------------
(* RemoteJournal studied twice: the protocol with two client objects, enough  *)
(* for a client that is replaced while its last request is still on the wire; *)
(* and the shutdown of the App and the close of one client, under fairness.   *)
EXTENDS RemoteJournal, TLC

CONSTANTS c1, c2

MCDigest   == {BodyDigest([client |-> c, path |-> "save", body |-> b]) :
                   c \in Client, b \in SaveBody}
MCRequestId == {SaveRequestId(d) : d \in MCDigest}

VARIABLE study

mcVars == <<vars, study>>

\* How many requests the clients send, and whether a read is retried
Within ==
    IF study = "protocol"
    THEN /\ cl[c1].posts <= 4 /\ cl[c2].posts <= 3
         /\ \A c \in Client : cl[c].call # None => cl[c].call.attempt = 1
    ELSE cl[c2].posts = 0

MCInit == Init /\ study \in {"protocol", "shutdown"}
MCNext == Next /\ UNCHANGED study /\ Within'

Shutdown(A) == study = "shutdown" /\ A /\ UNCHANGED study

\* The fairness of FairSpec, in the study that is about it
MCSpec ==
    /\ MCInit /\ [][MCNext]_mcVars
    /\ WF_mcVars(Shutdown(WorkerRuns /\ UNCHANGED <<cl, accepted, rejected>>))
    /\ WF_mcVars(Shutdown(DrainEnds /\ UNCHANGED <<cl, accepted, rejected>>))
    /\ WF_mcVars(Shutdown(CloseStore /\ UNCHANGED <<cl, accepted, rejected>>))
    /\ \A c \in Client : WF_mcVars(Shutdown(LoseReply(c)))

\* In the study of shutdowns, nobody waits for ever: a shutdown that began completes
\* (async_run_service), and so does async_close of the client.
WaitsEnd == study = "shutdown" => ShutdownCompletes /\ CloseCompletes
=============================================================================
