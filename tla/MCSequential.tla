---------------------------- MODULE MCSequential ----------------------------
(***************************************************************************)
(* The parts that run in one thread and share no state: the sender's       *)
(* timing (Retry), the traffic windows, the reader of messages and the     *)
(* settings.  A behaviour is that of one of them, named by `part`; the     *)
(* others rest where they start: states add up and do not multiply.        *)
(***************************************************************************)
EXTENDS Retry, Windows, Settings, Rfc5424

VARIABLE part

\* Two orders of the same addresses, and a longer answer.
MCAnswers == {<<"a", "b">>, <<"b", "a">>, <<"a", "b", "c">>}

\* Values with each escape, one behind a parameter; two elements; no data and a
\* message.
MCSeeds ==
  {<<"[", "a", Blank, "b", "=", Quote, Backslash, "]", Quote, "]">>,
   <<"[", "a", Blank, "b", "=", Quote, Quote, Blank, "a", "=", Quote, Backslash,
     Backslash, Quote, "]", Blank, "x">>,
   <<"[", "a", "]", "[", "b", "]">>,
   <<"-", Blank, "BOM", "u">>}

MCInit ==
  /\ part \in {"timing", "rates", "reader", "file"}
  /\ TimingInit /\ RatesInit /\ ReaderInit /\ FileInit
  /\ part # "reader" => rest = CHOOSE s \in Seeds : TRUE

MCNext ==
  /\ UNCHANGED part
  /\ \/ part = "timing" /\ TimingNext /\ UNCHANGED <<rates_vars, reader_vars, file_vars>>
     \/ part = "rates" /\ RatesNext /\ UNCHANGED <<timing_vars, reader_vars, file_vars>>
     \/ part = "reader" /\ ReaderNext /\ UNCHANGED <<timing_vars, rates_vars, file_vars>>
     \/ part = "file" /\ FileNext /\ UNCHANGED <<timing_vars, rates_vars, reader_vars>>

MCSpec == MCInit /\ [][MCNext]_<<timing_vars, rates_vars, reader_vars, file_vars, part>>
=============================================================================
