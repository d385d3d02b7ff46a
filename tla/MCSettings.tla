----------------------------- MODULE MCSettings -----------------------------
(* Requests as the page makes them, at the limits of the form, and longer.   *)
EXTENDS Settings

MCTruePin == <<"123456", 6>>
MCNumeric == {"123456", "9999", "1234567", "0000"}
MCTexts == [ssid |-> {}, pass |-> {<<"word", 14>>}, sim_pin |-> {<<"9999", 4>>}]
MCTimes == {1350}

Request(ssid, password, simpin, door, hour, min) ==
    [ssid |-> <<"home", ssid>>, password |-> <<"word", password>>, simpin |-> simpin,
     door |-> door, overhead |-> 1, close_enabled |-> 1, close_hour |-> hour, close_min |-> min]

MCRequests ==
    {Request(4, 14, MCTruePin, 300, 22, 30), Request(4, 14, <<"9999", 4>>, 300, 22, 30),
     Request(4, 8, MCTruePin, 180, 23, 60), Request(4, 8, MCTruePin, 301, 22, 30),
     Request(32, 51, MCTruePin, 180, 22, 30)}

MCLong == MCRequests \cup {Request(4, 15, MCTruePin, 180, 22, 30)}
=============================================================================
