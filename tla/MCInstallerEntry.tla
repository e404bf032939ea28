-------------------------- MODULE MCInstallerEntry --------------------------
(* A home network with two access points and an open one, or an office. *)
EXTENDS InstallerEntry

AP(ssid, bssid, flags, strength, hidden) ==
  [ssid |-> ssid, bssid |-> bssid, flags |-> flags, strength |-> strength, hidden |-> hidden]
Near == AP("home", "h1", {"psk"}, 70, FALSE)
Far == AP("home", "h2", {"psk", "sae"}, 40, FALSE)
Cafe == AP("cafe", "c", {}, 50, TRUE)
Guest == AP("guest", "g", {}, 30, FALSE)
Office == AP("office", "o", {"802.1x"}, 60, FALSE)

Known == [uuid |-> 9, ssid |-> "home", keyMgmt |-> "wpa-psk", secret |-> "good", wps |-> FALSE,
          disk |-> TRUE, made |-> FALSE, worked |-> TRUE, rewritten |-> FALSE]
Machine(air, saved, radio, low, wired, secure, n, troubles, backs, toggles) ==
  [air |-> air, saved |-> saved, radio |-> radio, low |-> low, wired |-> wired, secure |-> secure,
   ops |-> n, troubles |-> troubles, backs |-> backs, toggles |-> toggles]
MCMachines ==
  {Machine({Guest}, {}, TRUE, FALSE, FALSE, TRUE, 2, 0, 1, 0),
   Machine({Near}, {Known}, TRUE, FALSE, FALSE, TRUE, 2, 0, 0, 0),
   Machine({Near, Far, Cafe}, {Known}, TRUE, FALSE, FALSE, TRUE, 1, 1, 0, 1),
   Machine({Office, Cafe}, {}, TRUE, TRUE, FALSE, FALSE, 1, 1, 0, 0),
   Machine({Near}, {}, TRUE, TRUE, TRUE, TRUE, 0, 2, 2, 1)}
Secret(s) == [NoForm EXCEPT !.secret = s]
MCForms == [personal |-> {Secret("bad"), Secret("good")}, wep |-> {},
            enterprise |-> {[Secret("good") EXCEPT !.identity = TRUE], [NoForm EXCEPT !.tls = TRUE]}]
=============================================================================
