--------------------------- MODULE MCResponseCache ---------------------------
(* Two processes, two requests with the same messages and different        *)
(* parameters, and answers of different lengths.                           *)
EXTENDS ResponseCache, TLC

CONSTANTS cold, hot, m, plain, short, long

MCLength == plain :> 1 @@ short :> 1 @@ long :> 2

MCSays == [r \in Requests |->
              IF r.params = cold THEN {plain} ELSE {short, long}]
=============================================================================
