------------------------------- MODULE MCScanPlan -------------------------------
(***************************************************************************)
(* Instances of ScanPlan for TLC.                                          *)
(***************************************************************************)
EXTENDS PlanProperties, TLC

Choices == {{}, {"recon", "input_validation", "rate_limiting", "api_discovery_aggressive"},
            {"command_injection"}}

Asking(flags, policies, choices) ==
    [options : [profile : Profiles, policy : policies, on : SUBSET flags, categories : choices],
     authorized : {TRUE}, confirmed : BOOLEAN]

\* Every profile with most flags, without categories, with some that the map of
\* categories knows, or with one that it does not know.
AnyRequest ==
    Asking({"full", "authenticated", "payload", "destructive"},
           {"detect_only", "lab_full_allowed"}, Choices)
FullRequest == Asking({"full"}, {"detect_only"}, {{}})

===============================================================================
