-------------------------------- MODULE Files --------------------------------
(***************************************************************************)
(* A file that holds one document and is written in place, as               *)
(* Path.write_text, DataFrame.to_csv and shutil.copyfile do: opening it for *)
(* writing empties it, and a crash before the writing leaves it so.  Torn   *)
(* stands for every text that is less than the document.                    *)
(***************************************************************************)
EXTENDS Naturals, Sequences

File(Document) == [exists : BOOLEAN, text : Seq(Document)]

Absent == [exists |-> FALSE, text |-> <<>>]
Torn == [exists |-> TRUE, text |-> <<>>]
Whole(document) == [exists |-> TRUE, text |-> <<document>>]

\* The documents a file holds: one if it is whole, none otherwise.
Contents(file) == {file.text[i] : i \in DOMAIN file.text}
=============================================================================
