----------------------------- MODULE MCCsvFile -----------------------------
(***************************************************************************)
(* Rows of two cells; every character the codec tells apart, alone and in  *)
(* the pairs that meet at its look-aheads.                                 *)
(***************************************************************************)
EXTENDS CsvFile

MCValues ==
    {<<>>, <<"a">>, <<Comma>>, <<Quote>>, <<"\n">>, <<"\r">>,
     <<Quote, Quote>>, <<Quote, Comma>>, <<"a", Quote>>, <<"\r", "\n">>}
=============================================================================
