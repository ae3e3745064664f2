---------------------------- MODULE MCRuntimeState ----------------------------
(***************************************************************************)
(* Small components in one run: the two containers of a duplicate detector,*)
(* the request limiter, the scanner with its caches, and the settings.     *)
(* They share nothing, so it is enough to follow each one while the others *)
(* are unused.                                                             *)
(***************************************************************************)
EXTENDS TTLSet, RestartTracker, RateLimit, Scanner, WebSettings

MCInit == Init /\ TrackerInit /\ RateInit /\ ScannerInit /\ SettingsInit

\* A component that starts in several ways waits in one of them.
SetUnused == now = 0 /\ items = << >> /\ reply.key = CHOOSE key \in Keys : TRUE
TrackerUnused == shown = {} /\ last.fp = CHOOSE fp \in Fingerprints : TRUE
LimiterUnused == RateInit
ScannerUnused == ScannerInit
SettingsUnused == file = Absent /\ SettingsInit

MCNext ==
    \/ /\ TrackerUnused /\ LimiterUnused /\ ScannerUnused /\ SettingsUnused
       /\ Next /\ UNCHANGED << trackerVars, rateVars, scannerVars, settingsVars >>
    \/ /\ SetUnused /\ LimiterUnused /\ ScannerUnused /\ SettingsUnused
       /\ TrackerNext /\ UNCHANGED << vars, rateVars, scannerVars, settingsVars >>
    \/ /\ SetUnused /\ TrackerUnused /\ ScannerUnused /\ SettingsUnused
       /\ RateNext /\ UNCHANGED << vars, trackerVars, scannerVars, settingsVars >>
    \/ /\ SetUnused /\ TrackerUnused /\ LimiterUnused /\ SettingsUnused
       /\ ScannerNext /\ UNCHANGED << vars, trackerVars, rateVars, settingsVars >>
    \/ /\ SetUnused /\ TrackerUnused /\ LimiterUnused /\ ScannerUnused
       /\ SettingsNext /\ UNCHANGED << vars, trackerVars, rateVars, scannerVars >>

MCSpec == MCInit /\ [][MCNext]_<< vars, trackerVars, rateVars, scannerVars, settingsVars >>

\* Types, and for the containers that no key is held twice and both are bounded.
MCTypeOK ==
    /\ TypeOK /\ WellFormed /\ TrackerTypeOK /\ Bounded
    /\ RateTypeOK /\ ScannerTypeOK /\ SettingsTypeOK
=============================================================================
