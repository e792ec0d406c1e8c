------------------------------- MODULE Gannet -------------------------------
(***************************************************************************)
(* One invocation of gannet: main (src/src/main.rs) runs scan or survey on *)
(* a host, and the command adds what it found to the registry that earlier *)
(* ones have left.  The other commands are modelled elsewhere: listen in   *)
(* Listener, tag in Store, and list only prints.                           *)
(***************************************************************************)
EXTENDS Scan, Survey

vars == <<session_vars, scan_vars, survey_vars>>

Init == SessionInit /\ ScanInit /\ SurveyInit

Next ==
    \/ (Dispatch \/ RecordAndSave) /\ UNCHANGED <<scan_vars, survey_vars>>
    \/ ScanStep /\ UNCHANGED survey_vars
    \/ SurveyStep /\ UNCHANGED scan_vars

Spec == Init /\ [][Next]_vars

\* Tasks and threads are scheduled, and every wait has a deadline, with one
\* exception: that a gateway comes to the end of its UPnP response, which is the
\* step that changes interrogated, is up to the gateway (survey.rs:240).
FairSpec == Spec /\ WF_vars(Next /\ interrogated' = interrogated)

-----------------------------------------------------------------------------
\* The variables have their types.
TypeOK ==
    /\ request \in Request /\ {checked, skips} \subseteq BOOLEAN
    /\ \A n \in DOMAIN devices : sighted(devices[n]) \in Device
    /\ IsRegistry(disk)
    /\ ScanTypeOK /\ SurveyTypeOK

\* A mac that has a record keeps one whatever scan finds, though a promotion may
\* replace what the record says (store.rs:124).  Survey, which records networks
\* under their addresses, does not touch it at all: its upserts have no mac, and
\* promotion is the listener's and scan's business.
SavedHostsStay ==
    [][\A k \in DOMAIN disk \cap MacKeys :
          /\ k \in DOMAIN disk'
          /\ request.command = "survey" => disk'[k] = disk[k]]_vars

\* A command ends, whatever fails and in whatever order tasks and closures end: it
\* returns, exits on input it does not accept or panics on a prefix of 0.  Only a
\* survey may go on for ever instead, and only waiting for a gateway that does not
\* come to the end of its UPnP response.
CommandReturns ==
    \/ <>(stage \in Ended)
    \/ <>[](request.command = "survey" /\ stage = "upnp" /\ interrogated < Len(gateways))
=============================================================================
