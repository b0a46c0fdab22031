------------------------------ MODULE MCServing -----------------------------
(* A server is made from a config, for TLC, and one made from HoldingConfig  *)
(* runs, with the uris and handlers of HoldingUris and HoldingHandlers.      *)
EXTENDS MCServerConfig, MCServer

HoldingConfig == <<S(<<"port", "80">>, "none"),
                   S(<<"path", "/echo", "EchoHandler">>, "ok"),
                   S(<<"path", "/hold", "HoldingHandler">>, "ok"),
                   S(<<"default", "NotFoundHandler">>, "ok")>>

ServingConfigs == MCConfigs \cup {HoldingConfig}

Makes == ConfigNext /\ UNCHANGED serverVars

Serves ==
    /\ config = HoldingConfig
    /\ result = "listening"
    /\ ServerNext
    /\ UNCHANGED configVars

servingVars == <<configVars, serverVars>>

\* Which of the connections comes first does not matter.
ServingInit == ConfigInit /\ ServerInit /\ phase[c1] = "accepting"

ServingSpec == ServingInit /\ [][Makes \/ Serves]_servingVars /\ Fairness
=============================================================================
