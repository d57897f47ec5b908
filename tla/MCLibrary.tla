------------------------------ MODULE MCLibrary ------------------------------
(* The list and the conversions of libwebtester.  They share nothing, so   *)
(* that conversions are made only while there is no list.                  *)
EXTENDS DynaList, Conversions

MCLetters == {"x", "n", ";", Space, Quote, Slash, Newline, Accent}
MCReals == {5, -14, 30, 125}
MCValues == {Zero, [real |-> -150], [str |-> <<"x", Space, "/">>], [str |-> <<"{">>],
             [arr |-> <<[int |-> 7], [str |-> <<"x">>]>>]}
MCGaps == {<<Space>>, <<"/", "*", "x", "/", "*", "*", "/", "{", "*", "/">>,
           <<"/", "/", "x", Newline>>}

MCLineLetters == {"x", Space, Newline, CarriageReturn}
MCNumberLetters == {"0", "1", "-", "+", ".", Space}

MCInit == Init /\ TextInit

NoList == items = <<>> /\ op = "calls" /\ got = None /\ find_data = NULL
          /\ \A n \in Nodes : mem[n].data = None

MCNext == \/ text = NoText /\ Next /\ UNCHANGED text
          \/ NoList /\ TextNext /\ UNCHANGED vars

MCSpec == MCInit /\ [][MCNext]_<<vars, text>>
=============================================================================
