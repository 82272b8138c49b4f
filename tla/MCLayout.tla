------------------------------ MODULE MCLayout ------------------------------
(* Files of up to MaxLines lines, every kind of line in every column.  Four  *)
(* columns and three levels: a line in every column is one level too deep.   *)
EXTENDS Layout

MCColumn == {0, 1, 2, 3}
MCKind == {"blank", "stmt", "if", "loop", "elif", "else", "open", "item", "close"}
=============================================================================
