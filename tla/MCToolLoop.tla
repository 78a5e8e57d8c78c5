------------------------------ MODULE MCToolLoop ------------------------------
(***************************************************************************)
(* Instances of ToolLoop for TLC.                                          *)
(***************************************************************************)
EXTENDS ToolProperties

CONSTANTS u1, u2

TwoUsers == {u1, u2}

\* Discovery, login and authorization; provisioning is left to the resolver.
Pipeline ==
    [tools |-> <<"api_method_probe", "login_session", "session_validation",
                 "authorization_matrix">>, focused |-> FALSE]

\* Payloads and planning; everything they need is left to the resolver.
Payload == [tools |-> <<"xss_adaptive", "idor_bola_bfla_planner">>, focused |-> FALSE]

\* An authorization scan of what an earlier run found.
Authz == [tools |-> <<"session_validation", "authorization_matrix">>, focused |-> TRUE]

\* A run and a rerun, with the same or another selection.
Rerun == <<{Pipeline, Payload}, {Payload, Authz}>>

===============================================================================
