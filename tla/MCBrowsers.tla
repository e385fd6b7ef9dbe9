----------------------------- MODULE MCBrowsers -----------------------------
(***************************************************************************)
(* Everything around one paid browser, side by side: its saved context and *)
(* its uploaded extension, how each kind of browser is started and closed, *)
(* its page, its network with the addresses it may reach, and the evidence *)
(* it leaves.  The parts share no variables: a behaviour follows the one   *)
(* in focus, and the others stay as they began.                            *)
(***************************************************************************)
EXTENDS BrowserContexts, NativeResource, NativeBrowser, ControlledBrowser, PageDriver,
        PublicNetwork, Destinations, Evidence

VARIABLE focus

OneContext == {1}

Link(host, secure, path, plain) ==
  [host |-> host, secure |-> secure, path |-> path, plain |-> plain]
FewLinks ==
  {Link("shop", TRUE, <<"app", "cart">>, TRUE), Link("shop", TRUE, <<"app">>, FALSE),
   Link("cdn", FALSE, <<>>, TRUE), Link("10.0.0.1", TRUE, <<>>, TRUE),
   Link("provider", TRUE, <<>>, TRUE)}
AppOnly == {<<"app">>}

Follow(part, action) == focus = part /\ action /\ UNCHANGED focus
Rest(part, variables) == IF focus = part THEN TRUE ELSE UNCHANGED variables

BrowsersInit ==
  /\ focus \in {"contexts", "native", "sdk", "controlled", "page", "network",
                "destinations", "evidence"}
  /\ Init /\ NativeInit /\ BrowserInit /\ ControlledInit /\ DriverInit
  /\ NetworkInit /\ (focus # "network" => url = [r \in PageRequests |-> CHOOSE u \in Urls : TRUE])
  /\ DestinationInit /\ EvidenceInit

BrowsersNext ==
  /\ \/ Follow("contexts", Next)
     \/ Follow("native", NativeNext)
     \/ Follow("sdk", BrowserNext)
     \/ Follow("controlled", ControlledNext)
     \/ Follow("page", DriverNext)
     \/ Follow("network", NetworkNext)
     \/ Follow("destinations", DestinationNext)
     \/ Follow("evidence", EvidenceNext)
  /\ Rest("contexts", vars)
  /\ Rest("native", nativeVars)
  /\ Rest("sdk", browserStateVars)
  /\ Rest("controlled", controlledVars)
  /\ Rest("page", driverVars)
  /\ Rest("network", networkVars)
  /\ Rest("destinations", destinationVars)
  /\ Rest("evidence", evidenceVars)

BrowsersSpec ==
  BrowsersInit /\ [][BrowsersNext]_<<focus, vars, nativeVars, browserStateVars, controlledVars,
                                    driverVars, networkVars, destinationVars, evidenceVars>>
=============================================================================
