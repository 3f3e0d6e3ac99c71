---------------------------- MODULE MCTableScan ----------------------------
(***************************************************************************)
(* Instances of TableScan for TLC: a column two bytes wide and one of      *)
(* variable length, chunks of none, one and two rows.                      *)
(***************************************************************************)
EXTENDS TableScan

TwoColumns == <<2, 0>>
NoRow == << <<>>, <<>> >>
OneRow == << << <<1, 2>> >>, << <<>> >> >>
TwoRows == << << <<3, 4>>, <<5, 6>> >>, << <<7>>, <<8, 9>> >> >>
AllChunks == {NoRow, OneRow, TwoRows}
\* A fence, and an import of two chunks.
FenceOrImport == { <<>>, <<OneRow, TwoRows>> }
BothFiles == <<"a", "b">>
ColumnLists == { <<2, 1>>, <<2, 2>>, <<3>> }
=============================================================================
