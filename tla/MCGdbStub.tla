------------------------------ MODULE MCGdbStub ------------------------------
(* A session of a few requests: each command, with errors and faults.      *)
EXTENDS GdbStubProps

Of(text) == [text |-> text, put |-> <<>>, store |-> <<>>]

MCRequests ==
  {Of(<<"?">>), Of(<<"d">>), Of(<<"g">>), Of(<<"k">>), Of(<<"c">>), Of(<<"s", "7">>),
   Of(<<"m", "1", ",", "2">>), Of(<<"m", "2", ",", "2">>), Of(<<"M", "1">>),
   Of(<<"P", "9", "=", "1">>)}
  \cup {[text |-> <<"G", "0", "a", "1", "b", "0", "2">>,
         put |-> 0 :> 10 @@ 1 :> 27 @@ 2 :> 2, store |-> <<>>],
        [text |-> <<"P", "0", "=", "f", "f">>, put |-> 0 :> 255, store |-> <<>>],
        [text |-> <<"M", "2", ",", "2", ":", "2", "c", "1", "1">>,
         put |-> <<>>, store |-> 2 :> 44]}
=============================================================================
