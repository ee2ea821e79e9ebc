-------------------------- MODULE MCTransferEngine --------------------------
(* From o, line A reaches m, where B and C leave for d; n is one walk away *)
(* from m, and D runs from o to d and takes long.                          *)
EXTENDS TransferEngine

MCStations == {"o", "m", "n", "d"}
MCLines == {"A", "B", "C", "D"}
MCStops == [A |-> <<"o", "m">>, B |-> <<"m", "n", "d">>, C |-> <<"d", "n", "m">>, D |-> <<"d", "o">>]
MCServes == [o |-> {"A", "D"}, m |-> {"A", "B", "C"}, n |-> {"B", "C"}, d |-> {"B", "C", "D"}]
MCHopTime == [A |-> 2, B |-> 3, C |-> 2, D |-> 9]

Boardings == {<<"o", "A">>, <<"o", "D">>, <<"m", "B">>, <<"m", "C">>, <<"n", "C">>, <<"n", "B">>}
NoTrains == [N |-> {}, S |-> {}]
Boards == {NoTrains, [N |-> {4}, S |-> {}], [N |-> {}, S |-> {5}], [N |-> {9}, S |-> {2}]}
MCTimetables ==
    {[s \in MCStations |-> [l \in MCLines |-> IF <<s, l>> \in Boardings THEN f[<<s, l>>] ELSE NoTrains]] :
       f \in [Boardings -> Boards]}

(* The edge from o to m is needed for a route to be found at all.          *)
MCTransfers == {[from |-> "o", to |-> "m", walk |-> 2], [from |-> "m", to |-> "o", walk |-> 1]}
MCPlatforms == {[from |-> "m", to |-> "n", walk |-> 1]}
=============================================================================
