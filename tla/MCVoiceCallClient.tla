-------------------------- MODULE MCVoiceCallClient --------------------------
(***************************************************************************)
(* TLC instance of VoiceCallClient: one provider that may come, go and     *)
(* come back, two calls, one client, and a device lock.                    *)
(***************************************************************************)
EXTENDS VoiceCallClient, TLC

CONSTANTS p1, h1, h2, noCall

MCStatus == { "NULL", "INCOMING", "IGNORED", "REJECTED" }

MCSymmetry == Permutations(Handler)

\* Bounds on what TLC goes on from: no emergency calls, no filters, and three of the
\* four statuses, which are all alike but for NULL.
NoEmergency == \A h \in Handler : ~isEmergency[h]
NoFilters == ~isCallFiltering
NotRejected == \A h \in Handler : status[h] # "REJECTED"
=============================================================================
