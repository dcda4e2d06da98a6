------------------------------- MODULE MCIngest -------------------------------
(* Ingest with keys of two bytes and values of one. *)
EXTENDS Ingest, MCSnapshotFiles, TLC

MCBytes == {0, 1}
MCKeys == [1..2 -> MCBytes]
MCValues == [1..1 -> MCBytes]
MCZeroKey == <<0, 0>>
MCZeroValue == <<0>>

\* Fields that are empty, too short, exact and too long, some with equal beginnings.
MCKeyTexts == {<<>>, <<1>>, <<1, 0>>, <<1, 1>>, <<1, 1, 0>>}
MCValueTexts == {<<>>, <<1, 0>>}

===============================================================================
