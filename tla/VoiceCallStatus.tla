--------------------------- MODULE VoiceCallStatus ---------------------------
(***************************************************************************)
(* The vocabulary of lib/src/abstractvoicecallhandler.h: the statuses a    *)
(* voice call reports to the manager and its observers, and the verdicts a *)
(* call filter may pass on it.                                             *)
(***************************************************************************)

VoiceCallStatus ==
    { "NULL", "ACTIVE", "HELD", "DIALING", "ALERTING",
      "INCOMING", "WAITING", "DISCONNECTED", "REJECTED", "IGNORED" }

VoiceCallFilterAction == { "CONTINUE", "IGNORE", "REJECT" }

\* AbstractVoiceCallHandler::isOngoing: the statuses during which a call's
\* duration timer runs.
IsOngoing(s) == s \in { "ACTIVE", "HELD" }

\* What filter(action) makes of a call that is still unfiltered.
FilteredStatus(action) ==
    CASE action = "CONTINUE" -> "INCOMING"
      [] action = "IGNORE"   -> "IGNORED"
      [] action = "REJECT"   -> "REJECTED"
=============================================================================
