-------------------------- MODULE DetachedCampaign --------------------------
(* What the two parts of a detached campaign share: its submission          *)
(* (DetachedSubmit), and its attempts and downloads (DetachedResults).       *)
EXTENDS Naturals

CONSTANTS
    Samples,
    MaxFaults   \* bound on kills and crashes, failed calls, leases outrun

ASSUME DetachedAssumption == Samples # {} /\ MaxFaults \in Nat

VARIABLE faults \* faults so far

Fault == faults < MaxFaults /\ faults' = faults + 1

=============================================================================
