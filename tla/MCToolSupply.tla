----------------------------- MODULE MCToolSupply -----------------------------
(***************************************************************************)
(* Instances of ToolSupply for TLC.                                        *)
(***************************************************************************)
EXTENDS SupplyProperties, TLC

Symmetry == Permutations(Processes)

\* Two tools that share a dependency, one that is installed by a plan, and one
\* that is always there.
MixedPlans ==
    {<<"nmap_top_ports", "nmap_service_detection", "http_client", "browser_authenticated_capture">>,
     <<"nmap_service_detection", "katana">>}

===============================================================================
